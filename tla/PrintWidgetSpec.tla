--------------------------- MODULE PrintWidgetSpec ---------------------------
(***************************************************************************)
(* What print_widget(widget, dx, dy) promises, stated without the call     *)
(* stack or the device: the widget and every visible subwindow reachable   *)
(* from it through visible widgets are drawn once each, in depth-first     *)
(* child order, and the on-screen layout is kept: each is drawn at its     *)
(* screen position shifted by one common offset, the one that puts the     *)
(* widget at origin + (dx, dy).                                            *)
(*                                                                         *)
(* Screen geometry follows FLTK: x(), y() of a widget are relative to its  *)
(* enclosing window; a top-level window's are screen coordinates.          *)
(***************************************************************************)
EXTENDS Integers, Sequences, SequencesExt

CONSTANTS Widgets, Children, Window, Visible, Pos, Calls, Origins

VARIABLES
  call,     \* the call's arguments [w, dx, dy]
  org,      \* the graphics origin when the call is made
  printed   \* the draws made so far: [w, at]

Plus(a, b) == <<a[1] + b[1], a[2] + b[2]>>
Minus(a, b) == <<a[1] - b[1], a[2] - b[2]>>

HasParent(w) == \E p \in Widgets : \E k \in DOMAIN Children[p] : Children[p][k] = w
Parent(w) == CHOOSE p \in Widgets : \E k \in DOMAIN Children[p] : Children[p][k] = w

RECURSIVE Ancestors(_)
Ancestors(w) == IF HasParent(w) THEN {Parent(w)} \cup Ancestors(Parent(w)) ELSE {}

(* Screen position of the origin of the coordinates w's children use.    *)
RECURSIVE CoordOrigin(_)
CoordOrigin(w) ==
  IF w \in Window THEN Plus(IF HasParent(w) THEN CoordOrigin(Parent(w)) ELSE <<0, 0>>,
                            Pos[w])
  ELSE IF HasParent(w) THEN CoordOrigin(Parent(w)) ELSE <<0, 0>>

ParentOrigin(w) == IF HasParent(w) THEN CoordOrigin(Parent(w)) ELSE <<0, 0>>
ScreenPos(w) == Plus(ParentOrigin(w), Pos[w])

(* Screen point that w's draw() puts at its graphics origin: a window     *)
(* draws in its own coordinates, any other widget in its window's.        *)
DrawOrigin(w) == IF w \in Window THEN ScreenPos(w) ELSE ParentOrigin(w)

(* The visible subwindows below w, depth first, in child order.           *)
RECURSIVE Subwindows(_)
Subwindows(w) ==
  FlattenSeq([k \in DOMAIN Children[w] |->
                LET c == Children[w][k]
                IN IF c \notin Visible THEN << >>
                   ELSE IF c \in Window THEN <<c>> \o Subwindows(c)
                   ELSE Subwindows(c)])

PrintOrder(r) == IF r \in Visible THEN <<r>> \o Subwindows(r) ELSE << >>

(* The draws the call makes: the shift maps the root to org + delta.      *)
Expected(c, o) ==
  LET order == PrintOrder(c.w)
      shift == Minus(Plus(o, <<c.dx, c.dy>>), ScreenPos(c.w))
  IN [k \in DOMAIN order |-> [w |-> order[k], at |-> Plus(DrawOrigin(order[k]), shift)]]

vars == <<call, org, printed>>

Init ==
  /\ call \in Calls
  /\ org \in Origins
  /\ printed = << >>

DrawNextWidget ==
  /\ Len(printed) < Len(Expected(call, org))
  /\ printed' = Append(printed, Expected(call, org)[Len(printed) + 1])
  /\ UNCHANGED <<call, org>>

SafetySpec == Init /\ [][DrawNextWidget]_vars

(* Every draw the call owes has been made.                                *)
Complete == printed = Expected(call, org)

Spec == SafetySpec /\ WF_vars(DrawNextWidget)

=============================================================================
