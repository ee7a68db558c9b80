CONSTANTS
  Windows <- MCWindows
  NoWindow = NoWindow
  Platforms = {"WIN32"}
  Widths = {10000, 10001}
  Deltas = {0, 30}
  ArraySize = 20
  ReadResults = {"buf"}

SPECIFICATION Spec

INVARIANT
  ImageArrayInBounds

\* print_window_part() returns and the page ends: the call is over.
CHECK_DEADLOCK FALSE
