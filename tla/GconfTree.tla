------------------------------ MODULE GconfTree ------------------------------
(***************************************************************************)
(* The views of gconf.  A view shows a tree of menu entries in the right   *)
(* pane, and in the split view the menus in the left one.  Choosing a view *)
(* or an option mode builds the tree anew (display_tree); a new value in   *)
(* the full view changes the tree in place (update_tree), by comparing it  *)
(* with the menus entry by entry, and repaints what sym_calc_value flagged *)
(* as changed.                                                             *)
(***************************************************************************)
EXTENDS Integers, SequencesExt

\* Forests: the menus a Config.in may have, as menu_finalize leaves them.  An entry:
\* its parent (0 is rootmenu), a "menu", a "bool" or a "text"; whether it has a
\* prompt; the symbols it needs set and unset, and those the prompt needs
\* besides; whether its default is y.
CONSTANTS
    Forests,
    MaxSteps  \* bounds the callbacks after the start

Root == 0
Nowhere == -1
DependsOn(entry) == entry.on \cup entry.off \cup entry.when

ASSUME GconfAssumption ==
    /\ MaxSteps \in Nat
    /\ \A menus \in Forests : \A e \in DOMAIN menus :
        /\ menus[e].up \in 0..e - 1
        /\ DependsOn(menus[e]) \subseteq {s \in DOMAIN menus : menus[s].kind = "bool"}
        \* an entry depends on what its parent does, an entry of an automatic
        \* submenu on its parent; a parent has a prompt
        /\ menus[e].up # Root =>
              LET parent == menus[menus[e].up]
              IN  /\ parent.prompt
                  /\ IF parent.kind = "menu" THEN parent.on \subseteq menus[e].on /\ parent.off \subseteq menus[e].off
                                             ELSE menus[e].up \in menus[e].on

\* open: whether gconf runs.  user: the values entered, "n" for an empty
\* text.  curr, seen, met, valid, changed: what sym_calc_value has kept of each
\* symbol, its value, visibility, dependency and flags.  left, right: the rows
\* of the panes.  current, browsed: the menu of the single and the split view.
\* back: whether the button can be pressed.  loaded: a file was
\* loaded since the right pane was emptied.  steps: the callbacks so far.
VARIABLE gc

GconfInit == gc = [open |-> "no"]

IsMenu(g, e) == e = Root \/ g.menus[e].kind = "menu"
Symbols(g)   == {s \in DOMAIN g.menus : ~IsMenu(g, s)}
Kids(g, e)   == SelectSeq([i \in DOMAIN g.menus |-> i], LAMBDA c : g.menus[c].up = e)

\* fixup_rootmenu: menus in menus, and what is in no menu
RECURSIVE BelowMenu(_, _)
BelowMenu(g, e) == e # Root /\ (IsMenu(g, e) \/ BelowMenu(g, g.menus[e].up))
RECURSIVE MenuRoot(_, _)
MenuRoot(g, e) ==
    \/ e = Root
    \/ /\ MenuRoot(g, g.menus[e].up)
       /\ IsMenu(g, e) \/ ~BelowMenu(g, g.menus[e].up)

(***************************************************************************)
(* Values                                                                  *)
(***************************************************************************)

Met(g, e) ==
    (\A s \in g.menus[e].on : g.curr[s] = "y") /\ (\A s \in g.menus[e].off : g.curr[s] = "n")
PromptSeen(g, s) == g.menus[s].prompt /\ Met(g, s) /\ \A w \in g.menus[s].when : g.curr[w] = "y"

\* sym_calc_value: nothing happens to a symbol that is valid.  What sets a flag
\* is another value, visibility or dependency.
RECURSIVE Calculated(_, _)
CalculatedAll(g, symbols) == FoldSet(LAMBDA s, h : Calculated(h, s), g, symbols)
Kept(g, s, seen, met, value) ==
    [g EXCEPT !.seen[s] = seen, !.met[s] = met, !.curr[s] = value,
              !.changed = IF <<seen, met, value>> = <<g.seen[s], g.met[s], g.curr[s]>> THEN @ ELSE @ \cup {s}]
ValueOf(g, s) ==
    IF PromptSeen(g, s) /\ g.user[s] # "unset" THEN g.user[s]
    ELSE IF Met(g, s) /\ g.menus[s].default THEN "y" ELSE "n"
Settled(g, s) == Kept(g, s, PromptSeen(g, s), Met(g, s), ValueOf(g, s))
Calculated(g, s) ==
    IF s \in g.valid THEN g
    ELSE Settled(CalculatedAll([g EXCEPT !.valid = @ \cup {s}], DependsOn(g.menus[s])), s)

Noted(g, e, value) ==
    [g EXCEPT !.user[e] = value, !.changed = IF g.user[e] = "unset" THEN @ \cup {e} ELSE @]
\* sym_set_tristate_value when the value is allowed
SetTo(g, e, value) ==
    [Noted(g, e, value) EXCEPT !.valid = IF value = g.curr[e] THEN @ ELSE {}]
\* sym_toggle_tristate_value: a value that cannot change is entered as it is, a
\* text that was not entered as no text
Toggled(g, e) ==
    IF g.menus[e].kind = "text" THEN Noted(g, e, IF g.user[e] = "unset" THEN "n" ELSE g.user[e])
    ELSE SetTo(g, e, IF g.seen[e] /\ g.curr[e] = "n" THEN "y" ELSE IF g.seen[e] THEN "n" ELSE g.curr[e])
\* change_sym_value: what is not allowed becomes y, which may not be allowed either
ChangedTo(g, e, value) ==
    IF g.seen[e] THEN SetTo(g, e, value) ELSE IF g.curr[e] = "y" THEN SetTo(g, e, "y") ELSE g

\* A parent that is not offered is visible through a child; that enters its
\* value.  The result holds what was calculated on the way.
RECURSIVE menu_is_visible(_, _)
Entered(r, e) == IF r.is /\ r.g.user[e] = "unset" THEN [r EXCEPT !.g.user[e] = "n"] ELSE r
ThroughChild(g, e) ==
    FoldLeft(LAMBDA r, kid : IF r.is THEN r ELSE menu_is_visible(r.g, kid), [g |-> g, is |-> FALSE], Kids(g, e))
VisibleNow(g, e) ==
    IF IF IsMenu(g, e) THEN Met(g, e) ELSE g.seen[e] THEN [g |-> g, is |-> TRUE]
    ELSE IF IsMenu(g, e) \/ g.curr[e] = "n" THEN [g |-> g, is |-> FALSE]
    ELSE Entered(ThroughChild(g, e), e)
menu_is_visible(g, e) ==
    IF g.menus[e].prompt
    THEN VisibleNow(CalculatedAll(g, IF IsMenu(g, e) THEN DependsOn(g.menus[e]) ELSE {e}), e)
    ELSE [g |-> g, is |-> FALSE]

(***************************************************************************)
(* Rows                                                                    *)
(***************************************************************************)

Belongs(g, e) ==
    IF g.opt = "normal" THEN menu_is_visible(g, e)
    ELSE [g |-> g, is |-> g.opt = "all" \/ g.menus[e].prompt]

\* A row and what fill_row calculated for it.  In the other modes a hidden entry
\* is grey, so visibility is asked for here.
Row(g, e)      == [g |-> g, row |-> [menu |-> e, value |-> IF IsMenu(g, e) THEN "" ELSE g.curr[e], kids |-> <<>>]]
Painted(g, e)  == Row(IF IsMenu(g, e) THEN g ELSE [Calculated(g, e) EXCEPT !.changed = @ \ {e}], e)
fill_row(g, e) == Painted(IF g.opt = "normal" THEN g ELSE menu_is_visible(g, e).g, e)

RECURSIVE display_tree(_, _, _)
\* a view that does not go deeper, and the pane an entry of the split view is in
GoesDeeper(g, menu, e, pane) ==
    (IsMenu(g, e) => g.view = "full" \/ pane = "left") /\ (g.view = "single" => MenuRoot(g, menu))
OtherPane(g, e, pane) == g.view = "split" /\ MenuRoot(g, e) = (pane = "right")
DisplayKids(g, menu, e, pane) ==
    IF GoesDeeper(g, menu, e, pane) THEN display_tree(g, e, pane) ELSE [g |-> g, rows |-> <<>>]
WithKids(rows, row, below) == [g |-> below.g, rows |-> Append(rows, [row EXCEPT !.kids = below.rows])]
DisplayShown(rows, fill, menu, e, pane) == WithKids(rows, fill.row, DisplayKids(fill.g, menu, e, pane))
DisplayIf(rows, show, menu, e, pane) ==
    IF show.is THEN DisplayShown(rows, fill_row(show.g, e), menu, e, pane)
    ELSE [g |-> DisplayKids(show.g, menu, e, pane).g, rows |-> rows]
DisplayEntry(g, rows, menu, e, pane) ==
    IF OtherPane(g, e, pane) THEN [g |-> g, rows |-> rows] ELSE DisplayIf(rows, Belongs(g, e), menu, e, pane)
display_tree(g, menu, pane) ==
    FoldLeft(LAMBDA acc, e : DisplayEntry([acc.g EXCEPT !.changed = @ \ {e}], acc.rows, menu, e, pane),
             [g |-> g, rows |-> <<>>], Kids(g, menu))

RECURSIVE gtktree_iter_find_node(_, _)
gtktree_iter_find_node(rows, e) ==
    \E i \in DOMAIN rows : rows[i].menu = e \/ gtktree_iter_find_node(rows[i].kids, e)

\* todo: the entries child1 has still to pass.  rows: the children of dst.
\* k: where child2 is, behind the last row when it is not valid.
RECURSIVE update_tree(_, _, _, _)
PassRow(todo, rows, k, row, below) ==
    update_tree(below.g, Tail(todo), [rows EXCEPT ![k] = [row EXCEPT !.kids = below.rows]], k + 1)
UpdateRow(g, todo, rows, k, row, kids) ==
    PassRow(todo, rows, k, row, update_tree(g, Kids(g, Head(todo)), kids, 1))
AddRow(fill, todo, rows, k) == UpdateRow(fill.g, todo, InsertAt(rows, k, fill.row), k, fill.row, <<>>)
Repaint(fill, todo, rows, k) == UpdateRow(fill.g, todo, rows, k, fill.row, rows[k].kids)
KeepRow(g, todo, rows, k) ==
    IF Head(todo) \in g.changed THEN Repaint(fill_row(g, Head(todo)), todo, rows, k)
    ELSE UpdateRow(g, todo, rows, k, rows[k], rows[k].kids)
\* mutant: the iterator goes on and the row stays
SkipRow(g, todo, rows, k) ==
    IF k < Len(rows) THEN update_tree(g, todo, rows, k + 1) ELSE [g |-> g, rows |-> rows]
\* the row at child2 goes, whatever it shows, and the last one ends the loop
RemoveRow(g, todo, rows, k) ==
    IF k < Len(rows) THEN update_tree(g, todo, RemoveAt(rows, k), k)
    ELSE [g |-> g, rows |-> IF k = Len(rows) THEN Front(rows) ELSE rows]
UpdateEntry(show, todo, rows, k) ==
    IF show.is /\ k <= Len(rows) /\ rows[k].menu = Head(todo) THEN KeepRow(show.g, todo, rows, k)
    ELSE IF gtktree_iter_find_node(rows, Head(todo)) THEN RemoveRow(show.g, todo, rows, k)
    ELSE IF show.is THEN AddRow(fill_row(show.g, Head(todo)), todo, rows, k)
    ELSE update_tree(show.g, Tail(todo), rows, k)
update_tree(g, todo, rows, k) ==
    IF todo = <<>> THEN [g |-> g, rows |-> rows] ELSE UpdateEntry(Belongs(g, Head(todo)), todo, rows, k)

(***************************************************************************)
(* What the callbacks call                                                 *)
(***************************************************************************)

OnTheRight(shown) == [shown.g EXCEPT !.right = shown.rows]
OnTheLeft(shown)  == [shown.g EXCEPT !.left = shown.rows]
\* behind the rows that are there
ShowRight(g, menu, rows) ==
    [OnTheRight(display_tree(g, menu, "right")) EXCEPT !.right = rows \o @, !.loaded = @ /\ rows # <<>>]
\* display_tree(&rootmenu), which forgets the menu of the single view
ShowAll(g, rows) == ShowRight([g EXCEPT !.current = Root], Root, rows)
display_tree_part(g) ==
    CASE g.view = "single" -> ShowRight(g, g.current, <<>>)
      [] g.view = "split"  -> ShowRight(g, g.browsed, <<>>)
      [] g.view = "full"   -> [g EXCEPT !.right = <<>>]
display_list(g)  == OnTheLeft(display_tree([g EXCEPT !.current = Root], Root, "left"))
Updated(g, menu) == OnTheRight(update_tree(g, Kids(g, menu), g.right, 1))
AfterValue(g) ==
    CASE g.view = "full"   -> Updated(g, Root)
      [] g.view = "split"  -> display_list(Updated(g, g.browsed))
      [] g.view = "single" -> display_tree_part(g)

(***************************************************************************)
(* Callbacks                                                               *)
(***************************************************************************)

\* main: the values were just read, so every symbol is calculated
OpenGconf ==
    /\ gc.open = "no"
    /\ \E menus \in Forests :
          LET symbols == {s \in DOMAIN menus : menus[s].kind # "menu"}
              read == [open |-> "yes", menus |-> menus, view |-> "full", opt |-> "normal",
                       user |-> [s \in symbols |-> "unset"], curr |-> [s \in symbols |-> "n"],
                       seen |-> [s \in symbols |-> FALSE], met |-> [s \in symbols |-> FALSE],
                       valid |-> {}, changed |-> {},
                       left |-> <<>>, right |-> <<>>, current |-> Root, browsed |-> Nowhere, back |-> FALSE,
                       loaded |-> FALSE, steps |-> 0]
          IN  gc' = ShowAll(CalculatedAll(read, symbols), <<>>)

Open        == gc.open = "yes" /\ gc.steps < MaxSteps
Becomes(g)  == gc' = [g EXCEPT !.steps = @ + 1]
InRight(e)  == gtktree_iter_find_node(gc.right, e)
InLeft(e)   == gtktree_iter_find_node(gc.left, e)
OfKind(k)   == {e \in DOMAIN gc.menus : gc.menus[e].kind = k}

\* a click on the value, or two on the name
ClickValue == Open /\ \E s \in Symbols(gc) : InRight(s) /\ Becomes(AfterValue(Toggled(gc, s)))
\* a click in the column N, M or Y, or such a key
ChooseColumn ==
    Open /\ \E s \in OfKind("bool"), value \in {"n", "y"} :
        InRight(s) /\ Becomes(AfterValue(ChangedTo(gc, s, value)))
\* renderer_edited updates against rootmenu in every view
EnterText ==
    Open /\ \E s \in OfKind("text"), value \in {"y", "z"} :
        /\ InRight(s)
        /\ Becomes(Updated([Noted(gc, s, value) EXCEPT !.valid = IF value = gc.user[s] THEN @ ELSE {}], Root))
GoDown ==
    /\ Open /\ gc.view # "full"
    /\ \E e \in OfKind("menu") :
          InRight(e) /\ Becomes(display_tree_part([gc EXCEPT !.current = e, !.back = TRUE]))
Browse ==
    /\ Open /\ gc.view = "split"
    /\ \E e \in DOMAIN gc.menus : InLeft(e) /\ Becomes(display_tree_part([gc EXCEPT !.browsed = e]))
\* the second click on a row of the left pane
ToggleLeft ==
    /\ Open /\ gc.view = "split" /\ gc.browsed # Nowhere /\ InLeft(gc.browsed)
    /\ LET e == gc.browsed
           toggled == IF IsMenu(gc, e) THEN gc ELSE AfterValue(Toggled(gc, e))
       IN  Becomes(display_tree_part([toggled EXCEPT !.current = e]))

\* the menu around, or the one around that when an entry is in between; there
\* is none around rootmenu
Around(g, e) == LET up == g.menus[e].up IN IF IsMenu(g, up) THEN up ELSE g.menus[up].up
GoBack ==
    /\ Open /\ gc.back
    /\ IF gc.current = Root THEN Becomes([gc EXCEPT !.open = "crashed"])
       ELSE LET to == Around(gc, gc.current)
            IN  Becomes([display_tree_part([gc EXCEPT !.current = to]) EXCEPT !.back = to # Root])

SingleView == Open /\ Becomes(display_tree_part([gc EXCEPT !.view = "single", !.current = Root]))
SplitView  == Open /\ Becomes(display_list([gc EXCEPT !.view = "split", !.right = <<>>, !.back = FALSE]))
FullView   == Open /\ Becomes(ShowAll([gc EXCEPT !.view = "full", !.back = FALSE], <<>>))
SetOptionMode ==
    Open /\ \E mode \in {"normal", "all", "prompt"} : Becomes(ShowAll([gc EXCEPT !.opt = mode], <<>>))

\* load_filename: conf_read keeps no value that cannot be entered; the rows are
\* put behind those that are there.  A file is bounded to one value for all.
LoadFile ==
    Open /\ \E value \in {"unset", "n", "y"} :
        LET read == CalculatedAll([gc EXCEPT !.user = [s \in Symbols(gc) |-> value], !.valid = {}], Symbols(gc))
            kept == [s \in Symbols(gc) |-> IF read.seen[s] THEN value ELSE "unset"]
        IN  Becomes([ShowAll([read EXCEPT !.user = kept], gc.right) EXCEPT !.loaded = TRUE])

GconfNext ==
    \/ OpenGconf \/ ClickValue \/ ChooseColumn \/ EnterText \/ GoDown \/ Browse \/ ToggleLeft
    \/ GoBack \/ SingleView \/ SplitView \/ FullView \/ SetOptionMode \/ LoadFile

(***************************************************************************)
(* Properties                                                              *)
(***************************************************************************)

RECURSIVE BeginsLike(_, _)
BeginsLike(rows, all) ==
    /\ Len(rows) <= Len(all)
    /\ \A i \in DOMAIN rows :
          rows[i].menu = all[i].menu /\ rows[i].value = all[i].value /\ BeginsLike(rows[i].kids, all[i].kids)

\* Whatever values are entered and however often the view was changed, the full
\* view of the normal mode shows in every menu the first of the entries that
\* are visible, in order, each with its value: nothing hidden stays and nothing
\* is out of place.  What update_tree fails to add is at the end of a menu, and
\* a file that is loaded over a view spoils it until it is built anew (see the
\* README).
FullViewTracks ==
    gc.open = "yes" /\ gc.view = "full" /\ gc.opt = "normal" /\ ~gc.loaded =>
        BeginsLike(gc.right, display_tree([gc EXCEPT !.valid = {}], Root, "right").rows)

=============================================================================
