---------------------------- MODULE MCPrintWidget ----------------------------
(***************************************************************************)
(* A window W0 on screen holding                                           *)
(*   G1  a group, with subwindow S2 (holding label L3) and label L2,       *)
(*   L1  a label,                                                          *)
(*   S1  a subwindow, wider than the room left in W0, holding the OpenGL   *)
(*       window S3 at x = 0,                                               *)
(*   S4  a hidden subwindow,                                               *)
(*   G6  a hidden group holding the subwindow S5.                          *)
(* print_widget() is called on a window, on a group (with a delta that    *)
(* cancels its position, and one that does not), on a subwindow, on a    *)
(* label and on a hidden widget, at two device origins.                   *)
(***************************************************************************)
EXTENDS PrintWidget

MCWidgets == {"W0", "G1", "S2", "L3", "L2", "L1", "S1", "S3", "S4", "G6", "S5"}

MCChildren ==
  [w \in MCWidgets |->
     CASE w = "W0" -> <<"G1", "L1", "S1", "S4", "G6">>
       [] w = "G1" -> <<"S2", "L2">>
       [] w = "S2" -> <<"L3">>
       [] w = "S1" -> <<"S3">>
       [] w = "G6" -> <<"S5">>
       [] OTHER    -> << >>]

MCWindow == {"W0", "S2", "S1", "S3", "S4", "S5"}
MCGlWindow == {"S3"}
MCVisible == MCWidgets \ {"S4", "G6"}

MCPos ==
  [w \in MCWidgets |->
     CASE w = "W0" -> <<100, 50>> [] w = "G1" -> <<10, 10>>
       [] w = "S2" -> <<20, 30>>  [] w = "L3" -> <<2, 2>>
       [] w = "L2" -> <<15, 80>>  [] w = "L1" -> <<5, 5>>
       [] w = "S1" -> <<150, 20>> [] w = "S3" -> <<0, 10>>
       [] w = "S4" -> <<5, 100>>  [] w = "G6" -> <<0, 150>>
       [] w = "S5" -> <<1, 1>>]

MCSize ==
  [w \in MCWidgets |->
     CASE w = "W0" -> <<300, 200>> [] w = "G1" -> <<120, 100>>
       [] w = "S1" -> <<200, 50>>  [] w = "G6" -> <<40, 40>>
       [] OTHER    -> <<30, 30>>]

MCCalls ==
  { [w |-> "W0", dx |-> 0,  dy |-> 0],
    [w |-> "G1", dx |-> 10, dy |-> 10],
    [w |-> "G1", dx |-> 0,  dy |-> 5],
    [w |-> "S1", dx |-> 7,  dy |-> 0],
    [w |-> "L1", dx |-> 0,  dy |-> 0],
    [w |-> "G6", dx |-> 0,  dy |-> 0] }

MCOrigins == {<<0, 0>>, <<36, 72>>}

=============================================================================
