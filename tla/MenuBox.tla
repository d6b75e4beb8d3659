------------------------------- MODULE MenuBox -------------------------------
(***************************************************************************)
(* The two scrolled lists of lxdialog: dialog_menu, which shows the        *)
(* entries of a menu, and dialog_checklist, which shows the values of a    *)
(* choice.  Both keep the first entry shown (scroll) and the row of the    *)
(* highlighted one (choice) and repaint as little of the window as they    *)
(* can: a scroll moves the rows already there.                             *)
(***************************************************************************)
EXTENDS Integers, FiniteSetsExt

CONSTANTS
    MaxItems,  \* bounds the entries of a list
    MenuRows,  \* the heights the terminal may leave to a menu
    ListRows   \* the height of a choice's list

ASSUME MenuAssumption == MaxItems \in Nat /\ MenuRows \subseteq Nat \ {0} /\ ListRows \in Nat \ {0}

\* first: a local of dialog_menu.  want: the entry to highlight.  screen: what
\* each row shows.  up, down: the arrows that are painted.  glow: the button
\* painted as selected.  saved: the caller's s_scroll.  since: what happened
\* since the list was opened.
VARIABLE mb

NoItem == -1
Blank  == [item |-> NoItem, lit |-> FALSE]

Shut == [open |-> "no", n |-> 0, rows |-> 0, choice |-> 0, scroll |-> 0, first |-> 0,
         want |-> NoItem, button |-> 0, glow |-> 0, up |-> FALSE, down |-> FALSE,
         screen |-> <<>>, saved |-> 0, since |-> "opened"]

MenuInit == mb = Shut

Shown(m) == Min({m.rows, m.n})   \* max_choice

\* item_set leaves no item when there is none of that number, and printing that faults
Crashed(m) == [Shut EXCEPT !.open = "crashed", !.since = m.since]
PrintItem(m, index, row, lit) ==
    IF index \in 0..m.n - 1 THEN [m EXCEPT !.screen[row] = [item |-> index, lit |-> lit]] ELSE Crashed(m)

Unlit(m) == PrintItem(m, m.scroll + m.choice, m.choice, FALSE)
Lit(m)   == PrintItem(m, m.scroll + m.choice, m.choice, TRUE)

PrintAll(m) ==
    IF m.first + Shown(m) > m.n THEN Crashed(m)
    ELSE [m EXCEPT !.screen = [r \in 0..m.rows - 1 |->
             IF r < Shown(m) THEN [item |-> m.first + r, lit |-> r = m.choice] ELSE Blank]]

\* mutant: the scroll position is not kept up with the rows
RowsOnly(m, k) ==
    [m EXCEPT !.screen = [r \in DOMAIN @ |-> IF r + k \in DOMAIN @ THEN @[r + k] ELSE Blank]]
DoScroll(m, k) ==
    [m EXCEPT !.screen = [r \in DOMAIN @ |-> IF r + k \in DOMAIN @ THEN @[r + k] ELSE Blank],
              !.scroll = @ + k]

Touched(m) == [m EXCEPT !.since = IF @ = "opened" THEN "moved" ELSE @]

(***************************************************************************)
(* dialog_menu                                                             *)
(***************************************************************************)
MenuArrows(m) ==
    [m EXCEPT !.up = m.scroll > 0, !.down = m.rows < m.n /\ m.scroll + m.rows < m.n]

Focused(m) == IF m.want = NoItem THEN m ELSE [m EXCEPT !.choice = m.want]

\* the saved position, if it shows the entry and no row past the last one
Restored(m) ==
    IF m.saved <= m.choice /\ m.saved + Shown(m) > m.choice /\ m.saved + Shown(m) <= m.n
    THEN [m EXCEPT !.scroll = m.saved, !.first = m.saved, !.choice = @ - m.saved]
    ELSE [m EXCEPT !.scroll = 0]

\* otherwise the entry in the middle, as far as the end of the list allows
\* mutant: the row is not taken from the new position
CentredLate(m) ==
    IF m.choice < Shown(m) THEN m
    ELSE LET top == IF m.choice >= m.n - Shown(m) \div 2 THEN m.n - Shown(m)
                    ELSE m.choice - Shown(m) \div 2
         IN  [m EXCEPT !.scroll = top, !.first = top, !.choice = Shown(m) - 1]
Centred(m) ==
    IF m.choice < Shown(m) THEN m
    ELSE LET top == IF m.choice >= m.n - Shown(m) \div 2 THEN m.n - Shown(m)
                    ELSE m.choice - Shown(m) \div 2
         IN  [m EXCEPT !.scroll = top, !.first = top, !.choice = @ - top]

DrawMenu(m) == MenuArrows(PrintAll(Centred(Restored(Focused(m)))))

\* conf calls it for a menu it just entered, or again for the one it is in
OpenMenu ==
    /\ mb.open = "no"
    /\ \E n \in 0..MaxItems, rows \in MenuRows, saved \in {0, mb.saved} :
          \E want \in {NoItem} \cup 0..n - 1 :
             mb' = DrawMenu([Shut EXCEPT !.open = "menu", !.n = n, !.rows = rows,
                                         !.want = want, !.saved = saved])

LineUp(m) ==
    IF m.choice < 2 /\ m.scroll # 0
    THEN PrintItem(DoScroll(m, -1), m.scroll - 1, 0, FALSE)
    ELSE [m EXCEPT !.choice = Max({@ - 1, 0})]
LineDown(m) ==
    IF m.choice > Shown(m) - 3 /\ m.scroll + Shown(m) < m.n
    THEN PrintItem(DoScroll(m, 1), m.scroll + Shown(m), Shown(m) - 1, FALSE)
    ELSE [m EXCEPT !.choice = Min({@ + 1, Shown(m) - 1})]

RowUp(m) ==
    IF m.scroll > 0 THEN PrintItem(DoScroll(m, -1), m.scroll - 1, 0, FALSE)
    ELSE [m EXCEPT !.choice = Max({@ - 1, 0})]
RowDown(m) ==
    IF m.scroll + Shown(m) < m.n
    THEN PrintItem(DoScroll(m, 1), m.scroll + Shown(m), Shown(m) - 1, FALSE)
    ELSE [m EXCEPT !.choice = Min({@ + 1, Shown(m) - 1})]
\* row[k] is the list after k turns of the loop
PageUp(m) ==
    LET row[k \in 0..Shown(m)] == IF k = 0 THEN m ELSE RowUp(row[k - 1]) IN row[Shown(m)]
PageDown(m) ==
    LET row[k \in 0..Shown(m)] == IF k = 0 THEN m ELSE RowDown(row[k - 1]) IN row[Shown(m)]

MoveTo(m) == mb' = Touched(MenuArrows(Lit(m)))
InMenu    == mb.open = "menu"
KeyUp       == InMenu /\ mb.n # 0 /\ MoveTo(LineUp(Unlit(mb)))
KeyDown     == InMenu /\ mb.n # 0 /\ MoveTo(LineDown(Unlit(mb)))
KeyPageUp   == InMenu /\ mb.n # 0 /\ MoveTo(PageUp(Unlit(mb)))
KeyPageDown == InMenu /\ mb.n # 0 /\ MoveTo(PageDown(Unlit(mb)))
\* a letter goes to the next shown entry that begins with it, whichever that is
HotKey == InMenu /\ \E row \in 0..Shown(mb) - 1 : MoveTo([Unlit(mb) EXCEPT !.choice = row])

\* left, right, tab
MenuButton ==
    InMenu /\ \E b \in {(mb.button + 1) % 5, (mb.button + 4) % 5} :
                 mb' = Touched([mb EXCEPT !.button = b, !.glow = b])
\* a key that returns: conf acts on the entry scroll + choice and comes back
MenuReturn == InMenu /\ mb' = [Shut EXCEPT !.saved = mb.scroll]
MenuEscape == InMenu /\ mb' = Shut
\* redrawn with the height of the new terminal, or left when it is too small
MenuResize ==
    InMenu /\ \/ \E rows \in MenuRows :
                    mb' = DrawMenu([mb EXCEPT !.rows = rows, !.glow = 0, !.since = "resized"])
              \/ mb' = Shut

(***************************************************************************)
(* dialog_checklist                                                        *)
(***************************************************************************)
ListArrows(m) ==
    [m EXCEPT !.up = m.scroll > 0, !.down = m.rows < m.n /\ m.scroll + m.choice < m.n - 1]

\* mutant: one row too few is scrolled
ScrolledShort(m) ==
    IF m.choice < m.rows THEN m
    ELSE [m EXCEPT !.scroll = m.choice - m.rows, !.choice = m.rows - 1]
Scrolled(m) ==
    IF m.choice < m.rows THEN m
    ELSE [m EXCEPT !.scroll = m.choice - m.rows + 1, !.choice = m.rows - 1]

DrawList(m) == ListArrows(PrintAll([Scrolled(m) EXCEPT !.first = Scrolled(m).scroll]))

\* the value the choice has or the one help was asked for is highlighted; a
\* choice that is asked has one
OpenList ==
    /\ mb.open = "no"
    /\ \E n \in 1..MaxItems : \E want \in 0..n - 1 :
          mb' = DrawList([Shut EXCEPT !.open = "list", !.n = n, !.rows = ListRows,
                                      !.want = want, !.choice = want, !.saved = mb.saved])

InList     == mb.open = "list"
ListGo(row) == mb' = Touched(Lit([Unlit(mb) EXCEPT !.choice = row]))
ListUp ==
    /\ InList
    /\ \/ mb.choice > 0 /\ ListGo(mb.choice - 1)
       \/ /\ mb.choice = 0 /\ mb.scroll > 0
          /\ mb' = Touched(ListArrows(Lit(DoScroll(Unlit(mb), -1))))
ListDown ==
    /\ InList
    /\ \/ mb.choice < Shown(mb) - 1 /\ ListGo(mb.choice + 1)
       \/ /\ mb.choice = Shown(mb) - 1 /\ mb.scroll + mb.choice < mb.n - 1
          /\ mb' = Touched(ListArrows(Lit(DoScroll(Unlit(mb), 1))))
ListHotKey == InList /\ \E row \in 0..Shown(mb) - 1 : ListGo(row)
ListButton == InList /\ mb' = Touched([mb EXCEPT !.button = 1 - @, !.glow = 1 - mb.button])
ListClose  == InList /\ mb' = [Shut EXCEPT !.saved = mb.saved]
ListResize == InList /\ mb' = DrawList([mb EXCEPT !.glow = 0, !.since = "resized"])

MenuNext ==
    \/ OpenMenu \/ KeyUp \/ KeyDown \/ KeyPageUp \/ KeyPageDown \/ HotKey
    \/ MenuButton \/ MenuReturn \/ MenuEscape \/ MenuResize
    \/ OpenList \/ ListUp \/ ListDown \/ ListHotKey \/ ListButton \/ ListClose \/ ListResize

MenuSpec == MenuInit /\ [][MenuNext]_mb

(***************************************************************************)
(* Properties                                                              *)
(***************************************************************************)

\* Every row shows the entry that a key pressed there acts on, one row is
\* highlighted, the arrows tell what is above and below, and the highlighted
\* button is the one Enter answers.
RowsRight ==
    /\ \A r \in DOMAIN mb.screen :
          mb.screen[r] = IF r < Shown(mb) THEN [item |-> mb.scroll + r, lit |-> r = mb.choice] ELSE Blank
    /\ mb.up = (mb.scroll > 0)
    /\ mb.down = (mb.scroll + Shown(mb) < mb.n)
    /\ mb.glow = mb.button

\* The entry a list should highlight when it opens is on the screen and
\* highlighted, and no row is empty while there are entries for it, whatever the
\* position saved by an earlier menu of another length.
FocusKept ==
    /\ mb.want # NoItem => \E r \in DOMAIN mb.screen : mb.screen[r] = [item |-> mb.want, lit |-> TRUE]
    /\ \A r \in DOMAIN mb.screen : mb.screen[r].item = NoItem => mb.n < mb.rows

\* The screen shows the list, though dialog_menu and dialog_checklist repaint
\* single rows after a scroll, and no row past the last entry is printed.  Not
\* after a resize: then dialog_menu keeps first_item and both keep the button
\* (see the README).
ScreenShowsMenu ==
    mb.open # "no" /\ mb.since # "resized" =>
        /\ mb.open # "crashed"
        /\ RowsRight
        /\ mb.since = "opened" => FocusKept

=============================================================================
