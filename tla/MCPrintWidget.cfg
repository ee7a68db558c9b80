CONSTANTS
  Widgets <- MCWidgets
  Children <- MCChildren
  Window <- MCWindow
  GlWindow <- MCGlWindow
  Visible <- MCVisible
  Pos <- MCPos
  Size <- MCSize
  Calls <- MCCalls
  Origins <- MCOrigins
  PluginLoaded = TRUE
  RectResults = {"ok", "fail"}

SPECIFICATION Spec

INVARIANTS
  TypeOK
  DeviceStackMatchesCallStack

PROPERTIES
  AbstractSafety
  AllDrawn

\* print_widget() returns: the call is over.
CHECK_DEADLOCK FALSE
