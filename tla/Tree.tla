-------------------------------- MODULE Tree --------------------------------
(***************************************************************************)
(* The inline item API of Fl_Tree (FL/Fl_Tree.H): removal, open/close and  *)
(* selection of items, by pointer or by path, with the optional callback   *)
(* and the redraw each method requests.                                   *)
(*                                                                         *)
(* An item is a model value; Kids[i] is the order of i's children when the *)
(* tree was built (add() is not in the repository).  A path names the item *)
(* it leads to: find_item(path) finds it while it is still in the tree.    *)
(* The callback is user code run inside do_callback_for_item(): it may    *)
(* call any of these methods again, so callbacks nest; cbStack holds one   *)
(* frame per running callback, with the item_clicked it saved and what    *)
(* the calling method still does after it returns.                        *)
(***************************************************************************)
EXTENDS Integers, Sequences, SequencesExt

CONSTANTS
  Items,     \* the items of the tree
  NoItem,    \* NULL
  Root,      \* _root
  Kids,      \* Kids[i]: the children of i, in order
  MaxDepth,  \* bound on the nesting of callbacks
  PrefValues \* values a display preference may be set to

ASSUME Root \in Items /\ NoItem \notin Items
ASSUME \A i \in Items : Kids[i] \in Seq(Items)

VARIABLES
  items,        \* the items still in the tree (none once _root is 0)
  opened,       \* items with is_open()
  selected,     \* items with is_selected()
  redraw,       \* redraw() was called and the tree was not drawn since
  shown,        \* the open and selected state as last drawn
  itemClicked,  \* _item_clicked
  cbStack,      \* running callbacks: [item, save, rest]
  layout        \* the display preferences in _prefs (margins, connectors,
                \* icons, showroot, showcollapse, selectbox), as one value

vars == <<items, opened, selected, redraw, shown, itemClicked, cbStack, layout>>

(* The children of i still in the tree, in order.                         *)
TreeKids(i) == SelectSeq(Kids[i], LAMBDA c : c \in items)
has_children(i) == TreeKids(i) # << >>

(* i's descendants: remove_child() and clear_children() free them all.   *)
RECURSIVE Below(_)
Below(i) == UNION {{Kids[i][k]} \cup Below(Kids[i][k]) : k \in DOMAIN Kids[i]}

(* Fl_Tree::last(): follow the last child down while there is one.       *)
RECURSIVE LastFromFirst(_)
(* Seeded fault: the walk follows the first child instead of the last.  *)
LastFromFirst(i) == IF has_children(i) THEN LastFromFirst(Head(TreeKids(i))) ELSE i

RECURSIVE LastFromStatic(_)
(* Seeded fault: the walk uses the children as built, removed ones too. *)
LastFromStatic(i) == IF Kids[i] # << >> THEN LastFromStatic(Last(Kids[i])) ELSE i

RECURSIVE LastFrom(_)
LastFrom(i) == IF has_children(i) THEN LastFrom(Last(TreeKids(i))) ELSE i
last == IF Root \notin items THEN NoItem ELSE LastFrom(Root)

(* first(): the root is always the first item; NULL once cleared.        *)
first == IF Root \in items THEN Root ELSE NoItem

(* is_open(path), is_selected(path): 1 or 0 for a found item, -1 when     *)
(* find_item() does not find it.                                          *)
is_open(i) == IF i \in opened THEN 1 ELSE 0
is_open_path(p) == IF p \in items THEN is_open(p) ELSE -1
is_selected(i) == IF i \in selected THEN 1 ELSE 0
is_selected_path(p) == IF p \in items THEN is_selected(p) ELSE -1

(* A tree as add() built it: items are created open and not selected,   *)
(* and no item was clicked yet (clicks come from handle()).  The         *)
(* preferences hold the constructor's defaults, one of PrefValues.       *)
Init ==
  /\ items = Items
  /\ opened = Items
  /\ selected = {}
  /\ redraw = FALSE
  /\ layout \in PrefValues
  /\ shown = [opened |-> opened, selected |-> selected, layout |-> layout]
  /\ itemClicked = NoItem
  /\ cbStack = << >>

(* do_callback_for_item(item): save _item_clicked, set it to item and run  *)
(* the callback; rest is what the method does once the callback returns. *)
Callback(i, rest) ==
  /\ Len(cbStack) < MaxDepth
  /\ cbStack' = Append(cbStack, [item |-> i, save |-> itemClicked, rest |-> rest])
  /\ itemClicked' = i

(* Seeded fault: _item_clicked is not restored after the callback.     *)
CallbackReturnNoRestore ==
  /\ cbStack # << >>
  /\ redraw' = (redraw \/ Last(cbStack).rest = "redraw")
  /\ cbStack' = Front(cbStack)
  /\ UNCHANGED <<items, opened, selected, shown, itemClicked, layout>>

(* The callback returns: _item_clicked = save, then the calling method's  *)
(* trailing redraw(), if it has one.                                      *)
CallbackReturn ==
  /\ cbStack # << >>
  /\ itemClicked' = Last(cbStack).save
  /\ redraw' = (redraw \/ Last(cbStack).rest = "redraw")
  /\ cbStack' = Front(cbStack)
  /\ UNCHANGED <<items, opened, selected, shown, layout>>

(* Seeded fault: with a callback, the trailing redraw() is forgotten.   *)
RedrawOrCallbackNoRedraw(i, docallback) ==
  IF docallback = 1 THEN Callback(i, "none") /\ UNCHANGED redraw
  ELSE redraw' = TRUE /\ UNCHANGED <<itemClicked, cbStack>>

(* The method ends with redraw(), or runs the callback first when asked.  *)
RedrawOrCallback(i, docallback) ==
  IF docallback = 1 THEN Callback(i, "redraw") /\ UNCHANGED redraw
  ELSE redraw' = TRUE /\ UNCHANGED <<itemClicked, cbStack>>

(* remove(item): the root clears the tree (clear()), any other item is    *)
(* removed from its parent with all its children.  No redraw().          *)
remove(i) ==
  /\ i \in items
  /\ items' = IF i = Root THEN {} ELSE items \ ({i} \cup Below(i))
  /\ UNCHANGED <<opened, selected, redraw, shown, itemClicked, cbStack, layout>>

(* clear(): returns at once on an empty tree.                             *)
clear ==
  /\ items # {}
  /\ items' = {}
  /\ UNCHANGED <<opened, selected, redraw, shown, itemClicked, cbStack, layout>>

(* clear_children(item): redraw only if there were children to clear.     *)
clear_children(i) ==
  /\ i \in items /\ has_children(i)
  /\ items' = items \ Below(i)
  /\ redraw' = TRUE
  /\ UNCHANGED <<opened, selected, shown, itemClicked, cbStack, layout>>

(* open(item), close(item): change and redraw only if not already so.     *)
open(i) ==
  /\ i \in items /\ i \notin opened
  /\ opened' = opened \cup {i}
  /\ redraw' = TRUE
  /\ UNCHANGED <<items, selected, shown, itemClicked, cbStack, layout>>

close(i) ==
  /\ i \in items /\ i \in opened
  /\ opened' = opened \ {i}
  /\ redraw' = TRUE
  /\ UNCHANGED <<items, selected, shown, itemClicked, cbStack, layout>>

(* open(path), close(path): find_item(), then open(item) or close(item);  *)
(* a path not found returns -1 and changes nothing.                      *)
open_path(p) == open(p)
close_path(p) == close(p)

(* select(item, docallback): only an unselected item changes.            *)
select(i, docallback) ==
  /\ i \in items /\ i \notin selected
  /\ selected' = selected \cup {i}
  /\ RedrawOrCallback(i, docallback)
  /\ UNCHANGED <<items, opened, shown, layout>>

(* select(path, docallback): select(item) with no callback, which         *)
(* redraws if the item changed, then the callback whenever asked.         *)
select_path(p, docallback) ==
  /\ p \in items
  /\ selected' = selected \cup {p}
  /\ redraw' = (redraw \/ p \notin selected)
  /\ IF docallback = 1 THEN Callback(p, "none")
     ELSE UNCHANGED <<itemClicked, cbStack>>
  /\ UNCHANGED <<items, opened, shown, layout>>

(* select_toggle(item, docallback): always changes and redraws.          *)
select_toggle(i, docallback) ==
  /\ i \in items
  /\ selected' = IF i \in selected THEN selected \ {i} ELSE selected \cup {i}
  /\ RedrawOrCallback(i, docallback)
  /\ UNCHANGED <<items, opened, shown, layout>>

(* deselect(item, docallback): only a selected item changes.             *)
deselect(i, docallback) ==
  /\ i \in items /\ i \in selected
  /\ selected' = selected \ {i}
  /\ RedrawOrCallback(i, docallback)
  /\ UNCHANGED <<items, opened, shown, layout>>

(* deselect(path, docallback): passes docallback on to deselect(item).    *)
deselect_path(p, docallback) == deselect(p, docallback)

(* The event loop draws a damaged tree when no callback is running.       *)
draw ==
  /\ cbStack = << >> /\ redraw
  /\ redraw' = FALSE
  /\ shown' = [opened |-> opened \cap items, selected |-> selected \cap items,
               layout |-> layout]
  /\ UNCHANGED <<items, opened, selected, itemClicked, cbStack, layout>>

(* marginleft(val), margintop(val), openchild_marginbottom(val),         *)
(* connectorwidth(val), usericon(val), openicon(val), closeicon(val),    *)
(* showcollapse(val), showroot(val), connectorstyle(val): _prefs.x(val)  *)
(* then redraw(), whether or not the value changed.                      *)
set_layout_pref(v) ==
  /\ layout' = v
  /\ redraw' = TRUE
  /\ UNCHANGED <<items, opened, selected, shown, itemClicked, cbStack>>

(* selectbox(val): _prefs.selectbox(val) then redraw().                  *)
selectbox(v) == set_layout_pref(v)

Next ==
  \/ CallbackReturn
  \/ clear
  \/ draw
  \/ \E v \in PrefValues : set_layout_pref(v) \/ selectbox(v)
  \/ \E i \in Items :
       \/ remove(i) \/ clear_children(i) \/ open(i) \/ close(i)
       \/ open_path(i) \/ close_path(i)
       \/ \E cb \in {0, 1} :
            \/ select(i, cb) \/ select_path(i, cb) \/ select_toggle(i, cb)
            \/ deselect(i, cb) \/ deselect_path(i, cb)

Spec == Init /\ [][Next]_vars

-----------------------------------------------------------------------------

TypeOK ==
  /\ items \subseteq Items /\ opened \subseteq Items /\ selected \subseteq Items
  /\ redraw \in BOOLEAN
  /\ shown \in [opened : SUBSET Items, selected : SUBSET Items, layout : PrefValues]
  /\ layout \in PrefValues
  /\ itemClicked \in Items \cup {NoItem}
  /\ cbStack \in Seq([item : Items, save : Items \cup {NoItem},
                      rest : {"redraw", "none"}])
  /\ Len(cbStack) <= MaxDepth
  /\ last \in items \cup {NoItem}

(* The items of the tree in the order item->next() walks them: an item,  *)
(* then each child's subtree in child order.                             *)
RECURSIVE Preorder(_)
Preorder(i) == <<i>> \o FlattenSeq([k \in DOMAIN TreeKids(i) |-> Preorder(TreeKids(i)[k])])

(* last() returns the item the forward walk from first() ends at, so a    *)
(* reverse walk from last() visits every item (Fl_Tree::last()).          *)
LastIsEndOfWalk == first # NoItem => last = Last(Preorder(first))

(* Inside a callback, item_clicked() is the item that callback was run for, *)
(* even after callbacks nested inside it have returned; each nested        *)
(* callback saved the item of the one it runs in (do_callback_for_item's   *)
(* save and restore).                                                      *)
ItemClickedIsCallbackItem ==
  /\ cbStack # << >> => itemClicked = Last(cbStack).item
  /\ \A k \in 2..Len(cbStack) : cbStack[k].save = cbStack[k-1].item

(* Once the methods and their callbacks have returned and no redraw() is  *)
(* pending, what was drawn last is what is_open(path) and                 *)
(* is_selected(path) report for every item found, and the display         *)
(* preferences drawn are the current ones: every method that changes      *)
(* them requests a redraw ("Handles redrawing if anything was actually    *)
(* changed"; the margin, icon and connector setters end in redraw()).     *)
ShownCurrent ==
  cbStack = << >> /\ ~redraw =>
    /\ \A p \in Items : is_open_path(p) # -1 =>
         /\ (is_open_path(p) = 1 <=> p \in shown.opened)
         /\ (is_selected_path(p) = 1 <=> p \in shown.selected)
    /\ shown.layout = layout

(* A callback asked for with docallback = 1 runs only when the method      *)
(* changed its item's selection ("the callback() is invoked if the item    *)
(* changed state"; select_toggle always changes it).                       *)
CallbackOnlyOnChange ==
  [][Len(cbStack') > Len(cbStack) =>
       LET i == Last(cbStack').item IN (i \in selected') # (i \in selected)]_vars

(* Inside a callback, item_clicked() names an item still in the tree:     *)
(* select(), deselect() and select_toggle() tell the callback it "can use *)
(* item_clicked() to determine the selected item", and the callback       *)
(* dereferences it.  remove(), clear() and clear_children() free items    *)
(* without touching _item_clicked or the saved copies.                    *)
ItemClickedLive == cbStack # << >> => itemClicked \in items

=============================================================================
