---------------------------- MODULE MCWindowPart ----------------------------
(* Two top-level windows; regions of width 0, one unit, just under, at    *)
(* and over one 500-unit WIN32 slice, and the 1200-unit case of 3 slices. *)
EXTENDS WindowPart
MCWindows == {"A", "B"}
MCPlatforms == {"WIN32", "APPLE", "X11"}
MCWidths == {0, 1, 499, 500, 1200}
=============================================================================
