CONSTANTS
  Windows <- MCWindows
  NoWindow = NoWindow
  Platforms <- MCPlatforms
  Widths <- MCWidths
  Deltas = {0, 30}
  ArraySize = 20
  ReadResults = {"buf", "null"}

SPECIFICATION Spec

INVARIANT
  FrontWindowNotNull

\* print_window_part() returns and the page ends: the call is over.
CHECK_DEADLOCK FALSE
