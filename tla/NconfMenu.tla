------------------------------ MODULE NconfMenu ------------------------------
(***************************************************************************)
(* The menus of nconf: the loops of conf and conf_choice around a menu of  *)
(* the ncurses library, which keeps the current entry and the page, and    *)
(* the search that "/" starts in it.  conf remembers the entry it was at   *)
(* while it builds the list anew, conf_choice returns to the value the     *)
(* choice had when it was opened, if that is still listed.                 *)
(***************************************************************************)
EXTENDS Integers, FiniteSetsExt

CONSTANTS
    MaxEntries, \* bounds the entries of a menu, which may be empty
    PageLines   \* what mwin_max_lines may be, which is not positive on a small terminal

ASSUME NconfMenuAssumption == MaxEntries \in Nat /\ PageLines \subseteq Int

\* top, at: the library's first row and current entry, None in an empty menu.
\* lines: mwin_max_lines.  format: the rows the library was last given.
\* index, row: current_index and last_top_row, or selected_index in a choice.
\* hits: the entries the pattern matches.  dir: match_direction.  asked: the
\* last search, for the properties.  fresh: the list was just shown.
VARIABLE nm

None     == -1
NoSearch == [from |-> None, dir |-> "down", next |-> FALSE]
Away     == [open |-> "no", n |-> 0, lines |-> 0, format |-> 0, top |-> None, at |-> None,
             index |-> 0, row |-> 0, searching |-> FALSE, hits |-> {}, dir |-> "tinker down",
             asked |-> NoSearch, fresh |-> FALSE]

NconfInit == nm = Away

(***************************************************************************)
(* The menu of the library                                                 *)
(***************************************************************************)
\* set_menu_format takes positive lines; 0 stands for the rows it has, and less
\* is refused: they are those of an earlier size of the terminal
Formats(lines) == IF lines > 0 THEN {lines} ELSE {l \in PageLines : l > 0}
Rows(m) == Min({m.format, m.n})
\* set_menu_items and set_menu_format start at the first entry, if there is one
NewItems(m) ==
    IF m.n > 0 THEN [m EXCEPT !.top = 0, !.at = 0] ELSE [m EXCEPT !.top = None, !.at = None]
\* set_top_row refuses a row after which the page would not be full
SetTop(m, row) ==
    IF m.n > 0 /\ row # m.top /\ row \in 0..m.n - Rows(m) THEN [m EXCEPT !.top = row, !.at = row] ELSE m
\* set_current_item refuses what is no entry, and turns to a page for one that
\* is not on the page, which may have empty rows
Brought(m, at) ==
    [m EXCEPT !.at = at,
              !.top = IF at < @ THEN at ELSE IF at < @ + Rows(m) THEN @
                      ELSE IF at < m.n - @ THEN at ELSE m.n - Rows(m)]
SetCurrent(m, at) == IF at \in 0..m.n - 1 /\ at # m.at THEN Brought(m, at) ELSE m
\* menu_driver turns the page as far as it has to
Turned(m, at) ==
    [m EXCEPT !.at = at, !.top = IF at < @ THEN at ELSE IF at >= @ + Rows(m) THEN at - Rows(m) + 1 ELSE @]
\* an entry further; a page further, the first and the last entry
Stepped(m)       == {Turned(m, Max({0, m.at - 1})), Turned(m, Min({m.n - 1, m.at + 1}))}
PageTurned(m, d) == Turned([m EXCEPT !.top = @ + d], Max({0, Min({m.n - 1, m.at + d})}))
Paged(m) ==
    {PageTurned(m, Max({0, Min({Rows(m), m.n - Rows(m) - m.top})})), PageTurned(m, -Min({Rows(m), m.top})),
     Turned(m, 0), Turned(m, m.n - 1)}

(***************************************************************************)
(* conf and conf_choice                                                    *)
(***************************************************************************)

\* center_item: the page stays if the entry is on it
Half(k) == IF k >= 0 THEN k \div 2 ELSE -((-k) \div 2)
PageFor(m, sel) ==
    IF sel < m.top \/ sel >= m.top + m.lines
    THEN Min({Max({sel - Half(m.lines), 0}), m.n - m.lines})
    ELSE m.top
\* mutant: in the other order, which makes the first row current
MovedLate(m, sel) == [SetTop(SetCurrent(m, sel), PageFor(m, sel)) EXCEPT !.row = PageFor(m, sel)]
Moved(m, sel) == [SetCurrent(SetTop(m, PageFor(m, sel)), sel) EXCEPT !.row = PageFor(m, sel)]
Center(m, sel) == Moved(SetTop(m, m.row), sel)
ShowMenu(m)    == [Center(NewItems(m), m.index) EXCEPT !.fresh = TRUE]

\* The list is built and shown, at any size of the terminal.  No entry has the
\* index None: what is read before the first is refused, or crashes the library.
Built(m, n, index, row) ==
    \E lines \in PageLines : \E format \in Formats(lines) :
        LET list == [m EXCEPT !.n = n, !.lines = lines, !.format = format, !.index = index, !.row = row]
        IN  \/ nm' = ShowMenu(list)
            \/ index = None /\ nm' = [list EXCEPT !.open = "crashed"]

\* conf for a menu; conf_choice at the value of the choice, with the row of the
\* menu it is in, and at the first entry if no value is listed
OpenNconf ==
    /\ nm.open = "no"
    /\ \E n \in 0..MaxEntries :
          \/ \E open \in {"conf", "choice"} : Built([Away EXCEPT !.open = open], n, 0, 0)
          \/ \E value \in 0..n - 1, row \in 0..MaxEntries : Built([Away EXCEPT !.open = "choice"], n, value, row)

AtKeys == nm.open \in {"conf", "choice"}
\* a key do_match does not know ends the search and is acted on
Ended(m) == [m EXCEPT !.searching = FALSE, !.hits = {}, !.asked = NoSearch, !.fresh = FALSE]
\* in a search the keys up and down are do_match's, and the codes of page down,
\* page up and end are taken for letters
Drive ==
    /\ AtKeys
    /\ \E m \in IF nm.n = 0 THEN {nm}
                ELSE IF nm.searching THEN {Turned(nm, 0)} ELSE Paged(nm) \cup Stepped(nm) :
          nm' = Ended(m)
\* item_index of the current entry: where the library also refused the rows of
\* an empty list, the entry of a list before is current still
Remembered == IF nm.n = 0 /\ nm.lines < 0 THEN None..MaxEntries - 1 ELSE {nm.at}
\* enter, a value, a function key, a new terminal size: conf remembers the
\* place and builds the list, which may have become another one, anew.  In
\* conf_choice do_match has set selected_index to None, and it stays so when the
\* value is not listed any more.
Again ==
    /\ AtKeys
    /\ \E n \in 0..MaxEntries :
          \/ /\ nm.open = "conf"
             /\ \E index \in Remembered : Built(Ended(nm), n, index, nm.top)
          \/ /\ nm.open = "choice"
             /\ \E value \in 0..n - 1, row \in IF nm.n = 0 THEN 0..MaxEntries ELSE {nm.top} :
                   Built(Ended(nm), n, value, row)
          \/ /\ nm.open = "choice"
             /\ \E row \in IF nm.n = 0 THEN None..MaxEntries ELSE {nm.row} : Built(Ended(nm), n, None, row)
\* escape, left, a value of the choice
LeaveNconf == AtKeys /\ nm' = Away

(***************************************************************************)
(* do_match and get_mext_match                                             *)
(***************************************************************************)
SlashKey ==
    /\ AtKeys
    /\ nm' = [nm EXCEPT !.searching = ~@, !.hits = IF nm.searching THEN {} ELSE 0..nm.n - 1,
                        !.dir = "tinker down", !.asked = NoSearch]

Upwards(flag) == flag \in {"next up", "tinker up"}
\* mutant: the next match starts at the current entry
FromCurrent(m, flag) == m.at
StartOf(m, flag) ==
    CASE flag = "next down" -> m.at + 1
      [] flag = "next up"   -> m.at - 1
      [] OTHER              -> m.at
\* the entry looked at after k steps
Visited(m, flag, start, k) ==
    IF Upwards(flag) THEN (start - k + 2 * m.n) % m.n ELSE (start + k) % m.n
\* the loop ends when it is back at the start, which it never is when that is
\* not an entry; in an empty menu it divides by zero
Search(m, flag, start) ==
    LET found == {k \in 0..m.n - 1 : Visited(m, flag, start, k) \in m.hits}
    IN  IF m.n = 0 THEN [m EXCEPT !.open = "crashed"]
        ELSE IF found # {} THEN Center(m, Visited(m, flag, start, Min(found)))
        ELSE IF start \in 0..m.n - 1 THEN m
        ELSE [m EXCEPT !.open = "endless"]
Asked(m, flag) ==
    [from |-> m.at, dir |-> IF Upwards(flag) THEN "up" ELSE "down", next |-> flag \in {"next up", "next down"}]
Match(m, flag) ==
    nm' = [Search(m, flag, StartOf(m, flag)) EXCEPT !.dir = flag, !.asked = Asked(m, flag), !.fresh = FALSE]

Searching == AtKeys /\ nm.searching
\* adj_match_dir
Adjusted(dir) ==
    CASE dir = "next down" -> "tinker down" [] dir = "next up" -> "tinker up" [] OTHER -> dir
\* a longer pattern matches less, and a shorter one more
TypePattern ==
    Searching /\ \E hits \in SUBSET nm.hits : Match([nm EXCEPT !.hits = hits], Adjusted(nm.dir))
NextMatch == Searching /\ \E flag \in {"next down", "next up"} : Match(nm, flag)
RubOut ==
    /\ Searching
    /\ \E hits \in SUBSET (0..nm.n - 1) :
          /\ nm.hits \subseteq hits
          /\ nm' = [nm EXCEPT !.hits = hits, !.dir = Adjusted(@), !.asked = NoSearch]

NconfNext ==
    \/ OpenNconf \/ Drive \/ Again \/ LeaveNconf
    \/ SlashKey \/ TypePattern \/ NextMatch \/ RubOut

NconfSpec == NconfInit /\ [][NconfNext]_nm

(***************************************************************************)
(* Properties                                                              *)
(***************************************************************************)

\* How far an entry is from the one the search started at, going round.
Distance(from, dir, to) ==
    IF dir = "up" THEN (from - to + nm.n) % nm.n ELSE (to - from + nm.n) % nm.n
Farther(from, dir, to) == IF to = from THEN nm.n ELSE Distance(from, dir, to)

\* A search goes to the nearest match in its direction, to the entry it is at
\* only when that matches still and no next one was asked for, and stays when
\* nothing matches.  It fails to end only when nothing matches and the search
\* for the next one started at the end of the list (see the README).
SearchFinds ==
    nm.asked # NoSearch =>
        /\ nm.open = "endless" =>
              /\ nm.hits = {} /\ nm.asked.next
              /\ nm.asked.from = IF nm.asked.dir = "up" THEN 0 ELSE nm.n - 1
        /\ nm.hits = {} => nm.at = nm.asked.from
        /\ nm.hits # {} =>
              /\ nm.at \in nm.hits
              /\ \A other \in nm.hits :
                    IF nm.asked.next
                    THEN Farther(nm.asked.from, nm.asked.dir, nm.at) <= Farther(nm.asked.from, nm.asked.dir, other)
                    ELSE Distance(nm.asked.from, nm.asked.dir, nm.at) <= Distance(nm.asked.from, nm.asked.dir, other)

\* However the list changed while it was built anew, an entry of it is current,
\* the remembered one as long as there is one of that number; and while the
\* terminal has room for a row of the menu, that entry is on the page and no row
\* is empty that an entry could have: the order of the calls into the library
\* matters.  The menu fails only where it is empty, or is shown at no entry: in a
\* choice whose value was hidden, and after it was empty (see the README).
PageHoldsCurrent ==
    /\ nm.open \in {"conf", "choice"} /\ nm.n > 0 =>
          /\ nm.at \in 0..nm.n - 1
          /\ nm.fresh /\ nm.index \in 0..nm.n - 1 => nm.at = nm.index
          /\ nm.lines > 0 => /\ nm.at \in nm.top..nm.top + nm.lines - 1
                             /\ nm.top + Min({nm.lines, nm.n}) <= nm.n
    /\ nm.open = "crashed" => nm.n = 0 \/ nm.index = None

=============================================================================
