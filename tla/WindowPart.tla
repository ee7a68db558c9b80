------------------------------ MODULE WindowPart ------------------------------
(***************************************************************************)
(* Fl_Abstract_Printer::print_window_part(win, x, y, w, h, dx, dy) and the *)
(* page image list of the Apple build (add_image, delete_image_list).     *)
(*                                                                         *)
(* The call makes the display current, remembers the front window, shows  *)
(* win and runs Fl::check() (pending events and callbacks run here), reads *)
(* the region back in vertical slices into image_data[20], shows the old  *)
(* front window again, makes the printer current and draws each slice at  *)
(* dx + offset.  A slice buffer is deleted once drawn, or, on Apple, put  *)
(* on the page image list that end_page frees.  Pixel data and h, x, y    *)
(* are left out: a slice is its offset, width and whether the read-back   *)
(* returned a buffer.                                                      *)
(***************************************************************************)
EXTENDS Integers, Sequences, FiniteSets

CONSTANTS
  Windows,    \* top-level windows of the program
  NoWindow,   \* NULL: Fl::first_window() when no window is shown
  Platforms,  \* builds: "WIN32", "APPLE", other (X11)
  Widths,     \* widths w of the captured region
  Deltas,     \* horizontal offsets delta_x on the page
  ArraySize,  \* uchar *image_data[20]
  ReadResults \* what fl_read_image() may return: a buffer, or NULL on failure

ASSUME NoWindow \notin Windows /\ ArraySize \in Nat \ {0}
ASSUME ReadResults \subseteq {"buf", "null"}

VARIABLES
  platform,   \* the build
  arg,        \* the call's arguments [win, w, dx]
  pc,         \* position in the body
  current,    \* the current drawing device: "display" or "printer"
  shown,      \* windows shown
  front,      \* Fl::first_window()
  saveFront,  \* save_front
  offset,     \* loop variable of the capture and draw loops
  slices,     \* image_data[0 .. count-1]: [off, width, data, frees, listed]
  imageList,  \* Apple page image list: indices into slices
  placed      \* fl_draw_image calls: [x, width, data]

vars == <<platform, arg, pc, current, shown, front, saveFront, offset,
          slices, imageList, placed>>

(* #ifdef WIN32 slice = 500 (StretchDIBits bug) #else slice = w            *)
Slice == IF platform = "WIN32" THEN 500 ELSE arg.w

(* Seeded fault: the last slice is not narrowed to what is left.        *)
SliceWidthUnclamped(off) == Slice

(* width = slice; if (offset + width > w) width = w - offset;             *)
SliceWidth(off) == IF off + Slice > arg.w THEN arg.w - off ELSE Slice

(* delete of a slice buffer; deleting NULL does nothing.                  *)
Release(sl) == IF sl.data = "buf" THEN [sl EXCEPT !.frees = @ + 1] ELSE sl

Init ==
  /\ platform \in Platforms
  /\ \E win \in Windows, w \in Widths, dx \in Deltas :
       arg = [win |-> win, w |-> w, dx |-> dx]
  /\ pc = "begin"
  /\ current = "printer"
  /\ shown \in SUBSET Windows
  /\ front \in IF shown = {} THEN {NoWindow} ELSE shown
  /\ saveFront = NoWindow
  /\ offset = 0
  /\ slices = << >>
  /\ imageList = << >>
  /\ placed = << >>

(* Lines 129-131: display current, save_front = Fl::first_window(),       *)
(* win->show() raises win.                                                *)
Begin ==
  /\ pc = "begin"
  /\ current' = "display"
  /\ saveFront' = front
  /\ shown' = shown \cup {arg.win}
  /\ front' = arg.win
  /\ pc' = "check"
  /\ UNCHANGED <<platform, arg, offset, slices, imageList, placed>>

(* Lines 132-134: Fl::check() runs pending callbacks, which may hide a    *)
(* window (possibly the saved front one) or raise another; then           *)
(* win->make_current().                                                   *)
Check ==
  /\ pc = "check"
  /\ \/ UNCHANGED <<shown, front>>
     \/ \E v \in shown : /\ shown' = shown \ {v}
                         /\ front' = IF front = v THEN NoWindow ELSE front
     \/ \E v \in shown : front' = v /\ UNCHANGED shown
  /\ pc' = "capture"
  /\ UNCHANGED <<platform, arg, current, saveFront, offset, slices, imageList,
                 placed>>

(* Seeded fault: the capture loop runs while offset <= w.               *)
CaptureToW ==
  /\ pc = "capture" /\ offset <= arg.w
  /\ \E data \in ReadResults :
       slices' = Append(slices, [off |-> offset, width |-> SliceWidth(offset),
                                 data |-> data, frees |-> 0, listed |-> FALSE])
  /\ offset' = offset + Slice
  /\ UNCHANGED <<platform, arg, pc, current, shown, front, saveFront,
                 imageList, placed>>

(* Lines 141-145: one slice is read back into image_data[count++]; the    *)
(* read-back may fail and return NULL.                                   *)
Capture ==
  /\ pc = "capture" /\ offset < arg.w
  /\ \E data \in ReadResults :
       slices' = Append(slices, [off |-> offset, width |-> SliceWidth(offset),
                                 data |-> data, frees |-> 0, listed |-> FALSE])
  /\ offset' = offset + Slice
  /\ UNCHANGED <<platform, arg, pc, current, shown, front, saveFront,
                 imageList, placed>>

(* Lines 146-147: save_front->show(), this->set_current().  A NULL        *)
(* save_front is a virtual call through NULL: the program dies there,     *)
(* and nothing after line 146 runs.                                       *)
Restore ==
  /\ pc = "capture" /\ offset >= arg.w
  /\ IF saveFront = NoWindow
     THEN /\ pc' = "crashed"
          /\ UNCHANGED <<shown, front, current, offset>>
     ELSE /\ shown' = shown \cup {saveFront} /\ front' = saveFront
          /\ current' = "printer"
          /\ offset' = 0
          /\ pc' = "draw"
  /\ UNCHANGED <<platform, arg, saveFront, slices, imageList, placed>>

(* Seeded fault: on Apple the buffer is both listed and deleted.        *)
DrawSliceListAndDelete ==
  /\ pc = "draw"
  /\ LET i == Len(placed) + 1
     IN /\ i <= Len(slices)
        /\ placed' = Append(placed, [x |-> arg.dx + offset, width |-> SliceWidth(offset),
                                     data |-> slices[i].data])
        /\ IF platform = "APPLE"
           THEN /\ slices' = [slices EXCEPT ![i] = [Release(@) EXCEPT !.listed = TRUE]]
                /\ imageList' = <<i>> \o imageList
           ELSE /\ slices' = [slices EXCEPT ![i] = Release(@)]
                /\ UNCHANGED imageList
  /\ offset' = offset + Slice
  /\ UNCHANGED <<platform, arg, pc, current, shown, front, saveFront>>

(* Seeded fault: off Apple the buffer is never deleted.                  *)
DrawSliceNoDelete ==
  /\ pc = "draw"
  /\ LET i == Len(placed) + 1
     IN /\ i <= Len(slices)
        /\ placed' = Append(placed, [x |-> arg.dx + offset, width |-> SliceWidth(offset),
                                     data |-> slices[i].data])
        /\ IF platform = "APPLE"
           THEN /\ slices' = [slices EXCEPT ![i].listed = TRUE]
                /\ imageList' = <<i>> \o imageList
           ELSE UNCHANGED <<slices, imageList>>
  /\ offset' = offset + Slice
  /\ UNCHANGED <<platform, arg, pc, current, shown, front, saveFront>>

(* Lines 148-157: the next slice is drawn at dx + offset, then deleted,   *)
(* or on Apple added to the page image list.                              *)
DrawSlice ==
  /\ pc = "draw"
  /\ LET i == Len(placed) + 1
     IN /\ i <= Len(slices)
        /\ placed' = Append(placed, [x |-> arg.dx + offset, width |-> SliceWidth(offset),
                                     data |-> slices[i].data])
        /\ IF platform = "APPLE"
           THEN /\ slices' = [slices EXCEPT ![i].listed = TRUE]
                /\ imageList' = <<i>> \o imageList
           ELSE /\ slices' = [slices EXCEPT ![i] = Release(@)]
                /\ UNCHANGED imageList
  /\ offset' = offset + Slice
  /\ UNCHANGED <<platform, arg, pc, current, shown, front, saveFront>>

(* The draw loop ends: print_window_part() returns.                       *)
Finish ==
  /\ pc = "draw" /\ Len(placed) = Len(slices)
  /\ pc' = "done"
  /\ UNCHANGED <<platform, arg, current, shown, front, saveFront, offset,
                 slices, imageList, placed>>

(* delete_image_list(), run by the Apple end_page(): every listed buffer  *)
(* that is not NULL is deleted.                                           *)
DeleteImageList ==
  /\ pc = "done" /\ imageList # << >>
  /\ LET i == Head(imageList)
     IN slices' = [slices EXCEPT ![i] = [Release(@) EXCEPT !.listed = FALSE]]
  /\ imageList' = Tail(imageList)
  /\ UNCHANGED <<platform, arg, pc, current, shown, front, saveFront, offset,
                 placed>>

Next == Begin \/ Check \/ Capture \/ Restore \/ DrawSlice \/ Finish \/ DeleteImageList

(* The call runs on the single UI thread until it returns; end_page()     *)
(* follows it.                                                            *)
Spec == Init /\ [][Next]_vars /\ WF_vars(Next)

(***************************************************************************)
(* Properties                                                              *)
(***************************************************************************)

TypeOK ==
  /\ platform \in Platforms
  /\ pc \in {"begin", "check", "capture", "draw", "done", "crashed"}
  /\ current \in {"display", "printer"}
  /\ shown \subseteq Windows /\ front \in Windows \cup {NoWindow}
  /\ \A i \in DOMAIN slices :
       /\ slices[i].width \in 1 .. arg.w
       /\ slices[i].data \in {"buf", "null"}
       /\ slices[i].frees \in Nat /\ slices[i].listed \in BOOLEAN
  /\ \A j \in DOMAIN imageList : imageList[j] \in DOMAIN slices

MinOf(a, b) == IF a < b THEN a ELSE b

(* Reference cut of [0, w) into chunks of at most s units, left to right. *)
RECURSIVE Chunks(_, _, _)
Chunks(from, w, s) ==
  IF from >= w THEN << >>
  ELSE <<[off |-> from, width |-> MinOf(s, w - from)]>> \o Chunks(from + s, w, s)

(* The read-backs and the draws cut the region [x, x + w) into the chunks *)
(* of the reference cut (500 wide on WIN32, one piece elsewhere), and     *)
(* each chunk is drawn at delta_x plus its offset, with the buffer read   *)
(* for it: for w = 1200 on WIN32, 500 + 500 + 200 at dx, dx+500, dx+1000. *)
SlicesTileRegion ==
  pc = "done" =>
    LET ref == Chunks(0, arg.w, IF platform = "WIN32" THEN 500 ELSE arg.w)
    IN /\ Len(slices) = Len(ref) /\ Len(placed) = Len(ref)
       /\ \A i \in DOMAIN ref :
            /\ slices[i].off = ref[i].off /\ slices[i].width = ref[i].width
            /\ placed[i] = [x |-> arg.dx + ref[i].off, width |-> ref[i].width,
                             data |-> slices[i].data]

(* No slice buffer is deleted twice, whether deleted after its draw or    *)
(* kept on the Apple page image list until end_page.                      *)
NoDoubleDelete == \A i \in DOMAIN slices : slices[i].frees <= 1

(* Every buffer the read-back returned is eventually deleted: at once, or *)
(* on Apple by end_page's delete_image_list().  A call that dies at the   *)
(* NULL save_front (line 146) ends the process, which owns nothing after. *)
AllBuffersReleased ==
  <>(\/ pc = "crashed"
     \/ pc = "done" /\ \A i \in DOMAIN slices : slices[i].data = "buf" => slices[i].frees = 1)

(* Capture errors: a slice whose read-back returned NULL is skipped, not  *)
(* drawn (spec section 7 (c)).                                           *)
NoNullImageDrawn == \A i \in DOMAIN placed : placed[i].data # "null"

(* image_data[] holds 20 slices: the capture loop never writes past it.   *)
ImageArrayInBounds == Len(slices) <= ArraySize

(* save_front->show() is never called with save_front NULL.               *)
FrontWindowNotNull == pc # "crashed"

(* Each slice is read back from win while win is shown and in front:      *)
(* spec 4.2, print_window_part "forcing the source window to the          *)
(* front/visible, reading back pixel data", which win->show() at line 131  *)
(* does before the Fl::check() at line 133 runs pending callbacks.        *)
CapturedInFront ==
  pc = "capture" /\ offset < arg.w => arg.win \in shown /\ front = arg.win

=============================================================================
