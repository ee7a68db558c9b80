----------------------------- MODULE PageDevice -----------------------------
(***************************************************************************)
(* The page device of the print pipeline: Fl_Abstract_Printer and its     *)
(* PostScript realisation Fl_PSfile_Device.                                *)
(*                                                                         *)
(* The device keeps the graphics origin (x_offset, y_offset) and one       *)
(* graphics-state stack.  translate() and push_clip() both save graphics  *)
(* state on it; untranslate() and pop_clip() restore it, so the two kinds  *)
(* of entry share one LIFO discipline.  An entry is                        *)
(*   [kind |-> "translate", dx, dy]  or  [kind |-> "clip", rect].          *)
(* A restore whose top entry is of the other kind, or that finds the stack *)
(* empty, is a stack-discipline violation and raises the flag misnested.   *)
(***************************************************************************)
EXTENDS Integers, Sequences, SequencesExt

VARIABLES
  xOffset, yOffset,  \* Fl_Abstract_Printer::x_offset, y_offset
  gstack,            \* saved graphics states: translations and clips
  misnested          \* a restore met the wrong kind of entry

deviceVars == <<xOffset, yOffset, gstack, misnested>>

Rect(x, y, w, h) == [x |-> x, y |-> y, w |-> w, h |-> h]

TranslateEntry(dx, dy) == [kind |-> "translate", dx |-> dx, dy |-> dy]
ClipEntry(r) == [kind |-> "clip", rect |-> r]

(* origin(int *x, int *y): the origin query returns the offset fields,    *)
(* untouched by translate().                                              *)
origin == <<xOffset, yOffset>>

(* The page position of the graphics origin under the saved states s:    *)
(* the offset plus the translations on s (successive translate() calls    *)
(* add up).                                                               *)
RECURSIVE FrameOf(_)
FrameOf(s) ==
  IF s = << >> THEN origin
  ELSE LET e == Last(s)
           f == FrameOf(Front(s))
       IN IF e.kind = "translate" THEN <<f[1] + e.dx, f[2] + e.dy>> ELSE f

Frame == FrameOf(gstack)

(* translate(x, y): saves the graphics state and shifts the origin.       *)
Translated(s, dx, dy) == Append(s, TranslateEntry(dx, dy))
translate(dx, dy) == gstack' = Translated(gstack, dx, dy) /\ UNCHANGED misnested

(* fl_push_clip(x, y, w, h): the rectangle is given in the coordinates    *)
(* current under s; the device keeps it in page coordinates.              *)
Clipped(s, x, y, w, h) ==
  Append(s, ClipEntry(Rect(FrameOf(s)[1] + x, FrameOf(s)[2] + y, w, h)))
push_clip(x, y, w, h) == gstack' = Clipped(gstack, x, y, w, h) /\ UNCHANGED misnested

(* Restoring the state saved by the top entry, which must be of kind k.   *)
Restore(k) ==
  /\ gstack' = IF gstack = <<>> THEN gstack ELSE Front(gstack)
  /\ misnested' = (misnested \/ gstack = <<>> \/ Last(gstack).kind # k)

(* untranslate(): undoes the matching translate().                        *)
untranslate == Restore("translate")

(* fl_pop_clip()                                                          *)
pop_clip == Restore("clip")

=============================================================================
