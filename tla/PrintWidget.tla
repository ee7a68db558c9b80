----------------------------- MODULE PrintWidget -----------------------------
(***************************************************************************)
(* Fl_Abstract_Printer::print_widget() and traverse(): printing a widget   *)
(* and, recursively, every visible subwindow below it, on a page device.   *)
(*                                                                         *)
(* The two functions call each other recursively; the C++ call stack is   *)
(* the variable stack, one frame per active call.  A print_widget frame    *)
(* carries its arguments, the old and new origins it computed and its      *)
(* position in the body (pc); a traverse frame carries the loop index i.   *)
(* Each action is one stretch of a body between two calls.                 *)
(***************************************************************************)
EXTENDS PageDevice, FiniteSets

CONSTANTS
  Widgets,      \* the widgets of the widget tree
  Children,     \* Children[w]: the children of group w, in order
  Window,       \* widgets w with w->as_window() != NULL
  GlWindow,     \* widgets w with w->as_gl_window() != NULL
  Visible,      \* widgets w with w->visible()
  Pos,          \* Pos[w] = <<w->x(), w->y()>>
  Size,         \* Size[w] = <<w->w(), w->h()>>
  Calls,        \* arguments [w, dx, dy] of the print_widget() call made
  Origins,      \* origins set by the caller before the call
  PluginLoaded, \* the "opengl.device.fltk.org" plugin is found
  RectResults   \* what printable_rect() may return: 0 ("ok") or not

ASSUME GlWindow \subseteq Window /\ Window \subseteq Widgets
ASSUME \A w \in Widgets : Children[w] \in Seq(Widgets)
ASSUME RectResults \subseteq {"ok", "fail"}

VARIABLES
  call,     \* the print_widget() call being made (fixed)
  stack,    \* the call stack of print_widget / traverse frames
  damaged,  \* widgets given damage(FL_DAMAGE_ALL)
  drawn,    \* the draws issued on the page, in order
  unwound   \* an exception left print_widget() with frames unfinished

vars == <<deviceVars, call, stack, damaged, drawn, unwound>>

PwFrame(w, dx, dy) ==
  [kind |-> "pw", w |-> w, dx |-> dx, dy |-> dy,
   old |-> <<0, 0>>, new |-> <<0, 0>>, pc |-> "enter"]
TrFrame(w, i) == [kind |-> "tr", w |-> w, i |-> i]

Top == stack[Len(stack)]
SetTop(f) == stack' = [stack EXCEPT ![Len(stack)] = f]
Return == stack' = Front(stack)

Init ==
  /\ \E o \in Origins : xOffset = o[1] /\ yOffset = o[2]
  /\ gstack = <<>>
  /\ misnested = FALSE
  /\ call \in Calls
  /\ stack = <<PwFrame(call.w, call.dx, call.dy)>>
  /\ damaged = {}
  /\ drawn = <<>>
  /\ unwound = FALSE

(***************************************************************************)
(* print_widget(widget, delta_x, delta_y)                                  *)
(***************************************************************************)

(* An invisible widget returns at once.                                   *)
PwInvisible ==
  /\ stack # <<>> /\ Top.kind = "pw" /\ Top.pc = "enter"
  /\ Top.w \notin Visible
  /\ Return
  /\ UNCHANGED <<deviceVars, call, damaged, drawn, unwound>>

(* Seeded fault: every widget's position is subtracted, windows too.    *)
NewOriginAlwaysRelative(f, old) ==
  <<old[1] + f.dx - Pos[f.w][1], old[2] + f.dy - Pos[f.w][2]>>

(* The new origin: old + delta, less the widget's position unless it is a *)
(* window (other widgets draw at their own window coordinates).           *)
NewOrigin(f, old) ==
  IF f.w \in Window THEN <<old[1] + f.dx, old[2] + f.dy>>
  ELSE <<old[1] + f.dx - Pos[f.w][1], old[2] + f.dy - Pos[f.w][2]>>

(* Lines 48-63: damage, origin query, translate if the origin moves,      *)
(* clip a window to its own area.                                         *)
PwEnter ==
  /\ stack # <<>> /\ Top.kind = "pw" /\ Top.pc = "enter"
  /\ Top.w \in Visible
  /\ LET f     == Top
         old   == origin
         new   == NewOrigin(f, old)
         moved == IF new # old
                  THEN Translated(gstack, new[1] - old[1], new[2] - old[2])
                  ELSE gstack
     IN /\ gstack' = IF f.w \in Window
                     THEN Clipped(moved, 0, 0, Size[f.w][1], Size[f.w][2])
                     ELSE moved
        /\ SetTop([f EXCEPT !.old = old, !.new = new, !.pc = "draw"])
  /\ damaged' = damaged \cup {Top.w}
  /\ UNCHANGED <<xOffset, yOffset, misnested, call, drawn, unwound>>

(* Lines 70-72: the height the plugin's print() is given is the one      *)
(* printable_rect() wrote; its result is not tested, and on failure       *)
(* (the Fl_Abstract_Printer stub always returns 1) height is left as the  *)
(* uninitialised local.                                                   *)
PluginHeight(rect) == IF rect = "ok" THEN "page" ELSE "undef"

(* Lines 64-78: an OpenGL window goes to the plugin when it is loaded,    *)
(* whose print() may fail (returns 0); otherwise draw() is called.  Then  *)
(* the window clip is popped.                                             *)
PwDraw ==
  /\ stack # <<>> /\ Top.kind = "pw" /\ Top.pc = "draw"
  /\ LET viaPlugin == Top.w \in GlWindow /\ PluginLoaded
     IN \E byPlugin \in IF viaPlugin THEN BOOLEAN ELSE {FALSE}, rect \in RectResults :
       drawn' = Append(drawn, [w |-> Top.w, at |-> Frame,
                               via |-> IF byPlugin THEN "plugin" ELSE "draw",
                               height |-> IF viaPlugin THEN PluginHeight(rect) ELSE "none"])
  /\ IF Top.w \in Window THEN pop_clip ELSE UNCHANGED <<gstack, misnested>>
  /\ SetTop([Top EXCEPT !.pc = "traverse"])
  /\ UNCHANGED <<xOffset, yOffset, call, damaged, unwound>>

(* draw() leaves by an exception (a user draw() that throws, or a script  *)
(* error raised through it): no frame between it and the caller of       *)
(* print_widget() runs its remaining lines.                               *)
PwDrawThrows ==
  /\ stack # <<>> /\ Top.kind = "pw" /\ Top.pc = "draw"
  /\ stack' = <<>>
  /\ unwound' = TRUE
  /\ UNCHANGED <<deviceVars, call, damaged, drawn>>

(* Seeded fault: the loop index starts at 0 (a 0-based port).           *)
PwTraverseFromZero ==
  /\ stack # <<>> /\ Top.kind = "pw" /\ Top.pc = "traverse"
  /\ stack' = Append([stack EXCEPT ![Len(stack)].pc = "exit"], TrFrame(Top.w, 0))
  /\ UNCHANGED <<deviceVars, call, damaged, drawn, unwound>>

(* Line 80: traverse(widget).                                             *)
PwTraverse ==
  /\ stack # <<>> /\ Top.kind = "pw" /\ Top.pc = "traverse"
  /\ stack' = Append([stack EXCEPT ![Len(stack)].pc = "exit"], TrFrame(Top.w, 1))
  /\ UNCHANGED <<deviceVars, call, damaged, drawn, unwound>>

(* Seeded fault: the untranslate test compares x only.                  *)
PwExitXOnly ==
  /\ stack # <<>> /\ Top.kind = "pw" /\ Top.pc = "exit"
  /\ IF Top.new[1] # Top.old[1] THEN untranslate ELSE UNCHANGED <<gstack, misnested>>
  /\ Return
  /\ UNCHANGED <<xOffset, yOffset, call, damaged, drawn, unwound>>

(* Lines 82-84: untranslate when the origin was moved, and return.        *)
PwExit ==
  /\ stack # <<>> /\ Top.kind = "pw" /\ Top.pc = "exit"
  /\ IF Top.new # Top.old THEN untranslate ELSE UNCHANGED <<gstack, misnested>>
  /\ Return
  /\ UNCHANGED <<xOffset, yOffset, call, damaged, drawn, unwound>>

(***************************************************************************)
(* traverse(widget): the loop over the children of a group                 *)
(***************************************************************************)

TrActive == stack # <<>> /\ Top.kind = "tr"
Child == Children[Top.w][Top.i]
Advance == [Top EXCEPT !.i = @ + 1]

(* The loop ends (a widget that is not a group has no children).          *)
TrReturn ==
  /\ TrActive /\ Top.i > Len(Children[Top.w])
  /\ Return
  /\ UNCHANGED <<deviceVars, call, damaged, drawn, unwound>>

(* An invisible child is skipped.                                         *)
TrSkip ==
  /\ TrActive /\ Top.i <= Len(Children[Top.w])
  /\ Child \notin Visible
  /\ SetTop(Advance)
  /\ UNCHANGED <<deviceVars, call, damaged, drawn, unwound>>

(* A visible subwindow is printed at its position in the parent window.   *)
TrWindow ==
  /\ TrActive /\ Top.i <= Len(Children[Top.w])
  /\ Child \in Visible /\ Child \in Window
  /\ stack' = Append([stack EXCEPT ![Len(stack)] = Advance],
                     PwFrame(Child, Pos[Child][1], Pos[Child][2]))
  /\ UNCHANGED <<deviceVars, call, damaged, drawn, unwound>>

(* Seeded fault: non-window children are not searched for subwindows.   *)
TrDescendNot ==
  /\ TrActive /\ Top.i <= Len(Children[Top.w])
  /\ Child \in Visible /\ Child \notin Window
  /\ SetTop(Advance)
  /\ UNCHANGED <<deviceVars, call, damaged, drawn, unwound>>

(* Any other visible child is searched for subwindows.                    *)
TrDescend ==
  /\ TrActive /\ Top.i <= Len(Children[Top.w])
  /\ Child \in Visible /\ Child \notin Window
  /\ stack' = Append([stack EXCEPT ![Len(stack)] = Advance], TrFrame(Child, 1))
  /\ UNCHANGED <<deviceVars, call, damaged, drawn, unwound>>

Next ==
  \/ PwInvisible \/ PwEnter \/ PwDraw \/ PwTraverse \/ PwExit
  \/ TrReturn \/ TrSkip \/ TrWindow \/ TrDescend

(* The same, where draw() may throw.                                      *)
NextThrowing == Next \/ PwDrawThrows

SpecThrowing == Init /\ [][NextThrowing]_vars

(* One synchronous call on the single UI thread: it keeps running.        *)
Spec == Init /\ [][Next]_vars /\ WF_vars(Next)

(***************************************************************************)
(* Properties                                                              *)
(***************************************************************************)

PcLabels == {"enter", "draw", "traverse", "exit"}

TypeOK ==
  /\ call \in Calls
  /\ damaged \subseteq Widgets
  /\ unwound \in BOOLEAN /\ misnested \in BOOLEAN
  /\ \A k \in DOMAIN stack :
       \/ stack[k].kind = "pw" /\ stack[k].w \in Widgets /\ stack[k].pc \in PcLabels
       \/ stack[k].kind = "tr" /\ stack[k].w \in Widgets
          /\ stack[k].i \in 1 .. Len(Children[stack[k].w]) + 1
  /\ \A k \in DOMAIN drawn : drawn[k].w \in Widgets /\ drawn[k].via \in {"draw", "plugin"}

(* The graphics states the frames on the call stack have saved and not    *)
(* yet restored: a frame past its entry holds its translation (when it    *)
(* moved the origin) and, until its draw, its window clip.                *)
Saved(s, f) ==
  IF f.kind = "tr" \/ f.pc = "enter" THEN s
  ELSE LET t == IF f.new # f.old
                THEN Translated(s, f.new[1] - f.old[1], f.new[2] - f.old[2])
                ELSE s
       IN IF f.pc = "draw" /\ f.w \in Window
          THEN Clipped(t, 0, 0, Size[f.w][1], Size[f.w][2]) ELSE t

(* The device's graphics-state stack is at every step exactly what the    *)
(* active print_widget calls have pushed, in call order, and no restore   *)
(* ever met the wrong entry: translate/untranslate and push/pop_clip in   *)
(* print_widget() nest with the recursion through traverse().             *)
RECURSIVE SavedBy(_)
SavedBy(frames) ==
  IF frames = << >> THEN << >> ELSE Saved(SavedBy(Front(frames)), Last(frames))

DeviceStackMatchesCallStack ==
  /\ ~misnested
  /\ gstack = SavedBy(stack)

(* Refinement mapping to PrintWidgetSpec: the draws made, without how.   *)
Abstract == INSTANCE PrintWidgetSpec
  WITH printed <- [k \in DOMAIN drawn |-> [w |-> drawn[k].w, at |-> drawn[k].at]],
       org <- origin

(* The plugin's print() of an OpenGL window is always given the height of *)
(* the printable page area (printable_rect() "computes the width and      *)
(* height of the printable area of the page"), never an unset value.      *)
PluginGivenPageHeight == \A k \in DOMAIN drawn : drawn[k].height # "undef"

AbstractSafety == Abstract!SafetySpec

(* The call eventually makes every draw PrintWidgetSpec owes (the         *)
(* fairness of PrintWidgetSpec, under the single thread running the call). *)
AllDrawn == <>Abstract!Complete

=============================================================================
