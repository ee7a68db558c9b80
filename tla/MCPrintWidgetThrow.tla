------------------------- MODULE MCPrintWidgetThrow -------------------------
(* The widget tree of MCPrintWidget, where a draw() may throw.            *)
EXTENDS MCPrintWidget
=============================================================================
