----------------------------- MODULE MenuBox_proofs -----------------------------
(***************************************************************************)
(* The scrolled lists of lxdialog, for every length of the list, every     *)
(* height of the terminal and every saved position: what dialog_menu and   *)
(* dialog_checklist leave on the screen, a row at a time, is the list.     *)
(***************************************************************************)
EXTENDS MenuBox, TLAPS, WellFoundedInduction

Cells   == [item : Int, lit : BOOLEAN]
Screens == UNION {[0..k - 1 -> Cells] : k \in Nat}
Since   == {"opened", "moved", "resized"}

\* what every state of a list is: no scroll goes above the first entry, also
\* after a resize
Lists ==
    [open : {"no", "menu", "list", "crashed"}, n : Nat, rows : Nat, choice : Int, scroll : Nat, first : Int,
     want : Int, button : Int, glow : Int, up : BOOLEAN, down : BOOLEAN,
     screen : Screens, saved : Nat, since : Since]

\* The rows show the entries from scroll on, with one of them, or none, lit.
RowsAre(m, lit) ==
    \A r \in 0..m.rows - 1 :
       m.screen[r] = IF r < Shown(m) THEN [item |-> m.scroll + r, lit |-> r = lit] ELSE Blank

\* The entries shown are entries, and the highlighted row is one of theirs.
Fits(m) ==
    /\ m.rows >= 1 /\ DOMAIN m.screen = 0..m.rows - 1
    /\ m.scroll + Shown(m) <= m.n
    /\ m.choice >= 0 /\ (m.n > 0 => m.choice < Shown(m))

\* RowsRight and FocusKept of a state.
Right(m) ==
    /\ Fits(m) /\ RowsAre(m, m.choice)
    /\ m.up = (m.scroll > 0) /\ m.down = (m.scroll + Shown(m) < m.n) /\ m.glow = m.button
Focus(m) ==
    /\ m.want # NoItem => \E r \in DOMAIN m.screen : m.screen[r] = [item |-> m.want, lit |-> TRUE]
    /\ \A r \in DOMAIN m.screen : m.screen[r].item = NoItem => m.n < m.rows

Showing(m) ==
    m.open # "no" /\ m.since # "resized" =>
        /\ m.open \in {"menu", "list"}
        /\ Right(m)
        /\ m.since = "opened" => Focus(m)

\* A choice keeps its height, so that its rows stay right after a resize too:
\* without this a key of ListUp could start from a row that is no entry's.
Painted(m) == m.n > 0 /\ Fits(m) /\ RowsAre(m, m.choice)
Listed(m)  == m.open = "list" => Painted(m)

Holds(m) == m \in Lists /\ Showing(m) /\ Listed(m)
MenuInv  == Holds(mb)

-----------------------------------------------------------------------------
(* Numbers *)

LEMMA MinOfTwo == ASSUME NEW a \in Int, NEW b \in Int PROVE Min({a, b}) = IF a <= b THEN a ELSE b
  BY DEF Min

LEMMA MaxOfTwo == ASSUME NEW a \in Int, NEW b \in Int PROVE Max({a, b}) = IF a >= b THEN a ELSE b
  BY DEF Max

\* What does not hold of every natural number has a first one it fails for.
LEMMA LeastNumber ==
    ASSUME NEW T, T \subseteq Nat, T # {}
    PROVE  \E x \in T : \A y \in T : x <= y
<1> DEFINE R == {ss \in Nat \X Nat : ss[1] < ss[2]}
<1>1. IsWellFoundedOn(R, Nat)
  BY NatLessThanWellFounded DEF OpToRel
<1> HIDE DEF R
<1>2. PICK x \in T : \A y \in T : ~(<<y, x>> \in R)
  BY <1>1, WFMin
<1>3. \A y \in T : ~(y < x)
  BY <1>2 DEF R
<1> QED
  BY <1>3

LEMMA ShownOf ==
    ASSUME NEW m \in Lists
    PROVE  Shown(m) = (IF m.rows <= m.n THEN m.rows ELSE m.n) /\ Shown(m) \in Nat
<1>1. m.rows \in Nat /\ m.n \in Nat
  BY DEF Lists
<1> QED
  BY <1>1, MinOfTwo DEF Shown

-----------------------------------------------------------------------------
(* Single rows *)

\* Two states of one list: only the place and the rows may differ.
SameBox(m, p) ==
    /\ p.open = m.open /\ p.n = m.n /\ p.rows = m.rows /\ p.first = m.first /\ p.want = m.want
    /\ p.button = m.button /\ p.glow = m.glow /\ p.saved = m.saved

LEMMA SameShown == ASSUME NEW m, NEW p, SameBox(m, p) PROVE Shown(p) = Shown(m)
  BY DEF SameBox, Shown

LEMMA ShutIsList == Shut \in Lists /\ Shut.open = "no" /\ Shut.scroll = 0 /\ Shut.first = 0 /\ Shut.choice = 0
                    /\ Shut.button = 0 /\ Shut.glow = 0 /\ Shut.since = "opened" /\ Shut.want = NoItem
<1>1. PICK f : f = <<>>
  OBVIOUS
<1>2. f \in [0..0 - 1 -> Cells]
  BY <1>1
<1>3. <<>> \in Screens
  BY <1>1, <1>2 DEF Screens
<1> QED
  BY <1>3 DEF Shut, Lists, Since, NoItem

LEMMA CrashedIsList ==
    ASSUME NEW m \in Lists
    PROVE  Crashed(m) \in Lists /\ Crashed(m).open = "crashed" /\ Crashed(m).since = m.since
<1>1. m.since \in Since
  BY DEF Lists
<1> QED
  BY <1>1, ShutIsList DEF Crashed, Lists

\* Writing one row, and moving all.
LEMMA RowWritten ==
    ASSUME NEW f \in Screens, NEW row, NEW cell \in Cells
    PROVE  /\ [f EXCEPT ![row] = cell] \in Screens
           /\ DOMAIN [f EXCEPT ![row] = cell] = DOMAIN f
           /\ \A r \in DOMAIN f : [f EXCEPT ![row] = cell][r] = IF r = row THEN cell ELSE f[r]
<1>1. PICK k \in Nat : f \in [0..k - 1 -> Cells]
  BY DEF Screens
<1>2. [f EXCEPT ![row] = cell] \in [0..k - 1 -> Cells]
  BY <1>1
<1> QED
  BY <1>1, <1>2 DEF Screens

Moved(f, k) == [r \in DOMAIN f |-> IF r + k \in DOMAIN f THEN f[r + k] ELSE Blank]
LEMMA RowsMoved ==
    ASSUME NEW f \in Screens, NEW k \in Int
    PROVE  /\ Moved(f, k) \in Screens /\ DOMAIN Moved(f, k) = DOMAIN f
           /\ \A r \in DOMAIN f : Moved(f, k)[r] = IF r + k \in DOMAIN f THEN f[r + k] ELSE Blank
<1>1. PICK j \in Nat : f \in [0..j - 1 -> Cells]
  BY DEF Screens
<1>2. Blank \in Cells
  BY DEF Blank, Cells, NoItem
<1>3. Moved(f, k) \in [0..j - 1 -> Cells]
  BY <1>1, <1>2 DEF Moved
<1> QED
  BY <1>1, <1>3 DEF Screens, Moved

LEMMA PrintItemParts ==
    ASSUME NEW m \in Lists, NEW index \in Int, NEW row, NEW lit \in BOOLEAN,
           NEW p, p = PrintItem(m, index, row, lit)
    PROVE  /\ p \in Lists /\ p.since = m.since /\ p.open \in {m.open, "crashed"}
           /\ index \in 0..m.n - 1 =>
                 /\ SameBox(m, p) /\ p.scroll = m.scroll /\ p.choice = m.choice /\ p.up = m.up /\ p.down = m.down
                 /\ DOMAIN p.screen = DOMAIN m.screen
                 /\ \A r \in DOMAIN m.screen :
                       p.screen[r] = IF r = row THEN [item |-> index, lit |-> lit] ELSE m.screen[r]
<1>1. CASE index \in 0..m.n - 1
  <2>1. PICK f \in Screens : f = m.screen
    BY DEF Lists
  <2>2. PICK cell \in Cells : cell = [item |-> index, lit |-> lit]
    BY DEF Cells
  <2>3. PICK g \in Screens : /\ g = [f EXCEPT ![row] = cell] /\ DOMAIN g = DOMAIN f
                             /\ \A r \in DOMAIN f : g[r] = IF r = row THEN cell ELSE f[r]
    BY RowWritten
  <2>4. PrintItem(m, index, row, lit) = [m EXCEPT !.screen = g]
    BY <1>1, <2>1, <2>2, <2>3 DEF PrintItem
  <2>5. /\ p \in Lists /\ p.since = m.since /\ p.screen = g /\ p.scroll = m.scroll /\ p.choice = m.choice
        /\ p.up = m.up /\ p.down = m.down /\ SameBox(m, p)
    BY <2>4 DEF Lists, SameBox
  <2> QED
    BY <1>1, <2>1, <2>2, <2>3, <2>5 DEF SameBox
<1>2. CASE index \notin 0..m.n - 1
  BY <1>2, CrashedIsList DEF PrintItem
<1> QED
  BY <1>1, <1>2

LEMMA DoScrollParts ==
    ASSUME NEW m \in Lists, NEW k \in Int, m.scroll + k >= 0
    PROVE  LET p == DoScroll(m, k) IN
           /\ p \in Lists /\ p.since = m.since /\ SameBox(m, p) /\ p.choice = m.choice
           /\ p.scroll = m.scroll + k /\ p.screen = Moved(m.screen, k)
<1>1. PICK f \in Screens : f = m.screen
  BY DEF Lists
<1>2. PICK g \in Screens : g = Moved(f, k)
  BY RowsMoved
<1>3. PICK scroll \in Nat : scroll = m.scroll + k
  BY DEF Lists
<1>4. DoScroll(m, k) = [m EXCEPT !.screen = g, !.scroll = scroll]
  BY <1>1, <1>2, <1>3 DEF DoScroll, Moved
<1>5. PICK p : p = [m EXCEPT !.screen = g, !.scroll = scroll]
  OBVIOUS
<1>6. /\ p \in Lists /\ p.since = m.since /\ SameBox(m, p) /\ p.choice = m.choice
      /\ p.scroll = scroll /\ p.screen = g
  BY <1>5 DEF Lists, SameBox
<1> QED
  BY <1>1, <1>2, <1>3, <1>4, <1>5, <1>6

-----------------------------------------------------------------------------
(* The keys *)

\* A list with no row lit, and a step from one such list to another.
Dark(m) == m.n > 0 /\ Fits(m) /\ RowsAre(m, NoItem)
Follows(m, p) ==
    /\ p \in Lists /\ p.since = m.since /\ p.open \in {m.open, "crashed"}
    /\ Dark(m) => Dark(p) /\ SameBox(m, p)

LEMMA FollowsTwice ==
    ASSUME NEW m, NEW p, NEW q, Follows(m, p), Follows(p, q)
    PROVE  Follows(m, q)
  BY DEF Follows, SameBox

LEMMA ChoiceMoved ==
    ASSUME NEW m \in Lists, NEW choice \in Int, Dark(m) => choice \in 0..Shown(m) - 1,
           NEW p, p = [m EXCEPT !.choice = choice]
    PROVE  Follows(m, p) /\ p.choice = choice /\ p.scroll = m.scroll /\ p.up = m.up /\ p.down = m.down
<1>1. /\ p \in Lists /\ p.since = m.since /\ SameBox(m, p) /\ p.scroll = m.scroll /\ p.screen = m.screen
      /\ p.choice = choice /\ p.up = m.up /\ p.down = m.down
  BY DEF Lists, SameBox
<1>2. Shown(p) = Shown(m) /\ Shown(m) \in Nat
  BY <1>1, SameShown, ShownOf
<1>3. ASSUME Dark(m) PROVE Dark(p)
  <2>1. choice >= 0 /\ choice < Shown(m)
    BY <1>2, <1>3
  <2>2. Fits(p)
    BY <1>1, <1>2, <1>3, <2>1 DEF Dark, Fits, SameBox
  <2>3. RowsAre(p, NoItem)
    BY <1>1, <1>2, <1>3 DEF Dark, RowsAre, SameBox
  <2> QED
    BY <1>1, <1>3, <2>2, <2>3 DEF Dark, SameBox
<1> QED
  BY <1>1, <1>3 DEF Follows

\* A list of which some entry is not on the screen fills the rows.
LEMMA RowsFull ==
    ASSUME NEW m \in Lists, Shown(m) < m.n
    PROVE  Shown(m) = m.rows
<1>1. m.rows \in Nat /\ m.n \in Nat
  BY DEF Lists
<1> QED
  BY <1>1, ShownOf

\* Scrolling by one line and printing the row that has come free: the rows
\* that moved show what they should.
LEMMA ScrolledUp ==
    ASSUME NEW m \in Lists, m.scroll > 0
    PROVE  LET p == PrintItem(DoScroll(m, -1), m.scroll - 1, 0, FALSE)
           IN  Follows(m, p) /\ (Dark(m) => p.scroll = m.scroll - 1 /\ p.choice = m.choice)
<1>1. m.scroll \in Nat /\ m.n \in Nat /\ m.rows \in Nat /\ m.choice \in Int /\ m.screen \in Screens
  BY DEF Lists
<1>2. PICK d \in Lists : /\ d = DoScroll(m, -1) /\ d.since = m.since /\ SameBox(m, d) /\ d.choice = m.choice
                         /\ d.scroll = m.scroll - 1 /\ d.screen = Moved(m.screen, -1)
  <2>1. m.scroll + (-1) >= 0 /\ m.scroll + (-1) = m.scroll - 1 /\ -1 \in Int
    BY <1>1
  <2> QED
    BY <2>1, DoScrollParts
<1>3. PICK index \in Int : index = m.scroll - 1
  BY <1>1
<1>d. PICK dark \in BOOLEAN : dark = FALSE
  OBVIOUS
<1>4. PICK p : p = PrintItem(d, index, 0, dark)
  OBVIOUS
<1>5. /\ p \in Lists /\ p.since = d.since /\ p.open \in {d.open, "crashed"}
      /\ index \in 0..d.n - 1 =>
            /\ SameBox(d, p) /\ p.scroll = d.scroll /\ p.choice = d.choice
            /\ DOMAIN p.screen = DOMAIN d.screen
            /\ \A r \in DOMAIN d.screen :
                  p.screen[r] = IF r = 0 THEN [item |-> index, lit |-> dark] ELSE d.screen[r]
  BY <1>4, PrintItemParts
<1>6. ASSUME Dark(m) PROVE Dark(p) /\ SameBox(m, p) /\ p.scroll = m.scroll - 1 /\ p.choice = m.choice
  <2>1. Shown(m) \in Nat /\ m.n > 0 /\ m.scroll + Shown(m) <= m.n /\ m.choice >= 0 /\ m.choice < Shown(m)
    BY <1>6, ShownOf DEF Dark, Fits
  <2>2. Shown(m) = m.rows /\ m.rows >= 1
    BY <1>1, <2>1, RowsFull
  <2>3. index \in 0..d.n - 1
    BY <1>1, <1>2, <1>3, <2>1 DEF SameBox
  <2>4. DOMAIN m.screen = 0..m.rows - 1
    BY <1>6 DEF Dark, Fits
  <2>5. /\ DOMAIN d.screen = 0..m.rows - 1
        /\ \A r \in 0..m.rows - 1 : d.screen[r] = IF r + (-1) \in 0..m.rows - 1 THEN m.screen[r + (-1)] ELSE Blank
    <3>0. PICK k \in Int, f \in Screens : k = -1 /\ f = m.screen
      BY <1>1
    <3>1. PICK g : g = Moved(f, k)
      OBVIOUS
    <3>2. /\ DOMAIN g = DOMAIN f
          /\ \A r \in DOMAIN f : g[r] = IF r + k \in DOMAIN f THEN f[r + k] ELSE Blank
      BY <3>1, RowsMoved
    <3>3. d.screen = g
      BY <1>2, <3>0, <3>1
    <3> QED
      BY <2>4, <3>0, <3>2, <3>3
  <2>6. SameBox(m, p) /\ Shown(p) = Shown(m)
    <3>1. SameBox(m, p)
      BY <1>2, <1>5, <2>3 DEF SameBox
    <3> QED
      BY <3>1, SameShown
  <2>7. RowsAre(p, NoItem)
    <3> SUFFICES ASSUME NEW r \in 0..m.rows - 1
                 PROVE  p.screen[r] = [item |-> p.scroll + r, lit |-> r = NoItem]
      <4>1. p.rows = m.rows /\ Shown(p) = m.rows /\ m.rows \in Nat
        BY <1>1, <2>2, <2>6 DEF SameBox
      <4> QED
        BY <4>1 DEF RowsAre
    <3>1. p.scroll = m.scroll - 1 /\ (r = NoItem) = FALSE
      BY <1>1, <1>2, <1>5, <2>3 DEF NoItem
    <3>2. CASE r = 0
      <4>1. p.screen[r] = [item |-> index, lit |-> dark]
        BY <1>5, <2>3, <2>5, <3>2
      <4>2. p.scroll + r = index
        BY <1>1, <1>3, <2>2, <3>1, <3>2
      <4> QED
        BY <1>d, <3>1, <4>1, <4>2
    <3>3. CASE r # 0
      <4>1. PICK q \in 0..m.rows - 1 : q = r + (-1)
        BY <1>1, <3>3
      <4>2. p.screen[r] = m.screen[q]
        BY <1>5, <2>3, <2>5, <3>3, <4>1
      <4>3. m.screen[q] = [item |-> m.scroll + q, lit |-> q = NoItem]
        BY <1>1, <1>6, <2>2, <4>1 DEF Dark, RowsAre
      <4>4. (q = NoItem) = FALSE /\ m.scroll + q = p.scroll + r
        BY <1>1, <3>1, <4>1 DEF NoItem
      <4> QED
        BY <3>1, <4>2, <4>3, <4>4
    <3> QED
      BY <3>2, <3>3
  <2>8. Fits(p)
    BY <1>1, <1>2, <1>5, <2>1, <2>2, <2>3, <2>5, <2>6 DEF Fits, SameBox
  <2> QED
    BY <1>2, <1>5, <2>1, <2>3, <2>6, <2>7, <2>8 DEF Dark, SameBox
<1>7. Follows(m, p)
  BY <1>2, <1>5, <1>6 DEF Follows, SameBox
<1> QED
  BY <1>2, <1>3, <1>4, <1>d, <1>6, <1>7

LEMMA ScrolledDown ==
    ASSUME NEW m \in Lists, m.scroll + Shown(m) < m.n
    PROVE  LET p == PrintItem(DoScroll(m, 1), m.scroll + Shown(m), Shown(m) - 1, FALSE)
           IN  Follows(m, p) /\ (Dark(m) => p.scroll = m.scroll + 1 /\ p.choice = m.choice)
<1>1. /\ m.scroll \in Nat /\ m.n \in Nat /\ m.rows \in Nat /\ m.choice \in Int /\ m.screen \in Screens
      /\ Shown(m) \in Nat
  BY ShownOf DEF Lists
<1>2. PICK d \in Lists : /\ d = DoScroll(m, 1) /\ d.since = m.since /\ SameBox(m, d) /\ d.choice = m.choice
                         /\ d.scroll = m.scroll + 1 /\ d.screen = Moved(m.screen, 1)
  <2>1. m.scroll + 1 >= 0
    BY <1>1
  <2> QED
    BY <2>1, DoScrollParts
<1>3. PICK index \in Int, row \in Int : index = m.scroll + Shown(m) /\ row = Shown(m) - 1
  BY <1>1
<1>d. PICK dark \in BOOLEAN : dark = FALSE
  OBVIOUS
<1>4. PICK p : p = PrintItem(d, index, row, dark)
  OBVIOUS
<1>5. /\ p \in Lists /\ p.since = d.since /\ p.open \in {d.open, "crashed"}
      /\ index \in 0..d.n - 1 =>
            /\ SameBox(d, p) /\ p.scroll = d.scroll /\ p.choice = d.choice
            /\ DOMAIN p.screen = DOMAIN d.screen
            /\ \A r \in DOMAIN d.screen :
                  p.screen[r] = IF r = row THEN [item |-> index, lit |-> dark] ELSE d.screen[r]
  BY <1>4, PrintItemParts
<1>6. ASSUME Dark(m) PROVE Dark(p) /\ SameBox(m, p) /\ p.scroll = m.scroll + 1 /\ p.choice = m.choice
  <2>1. m.n > 0 /\ m.choice >= 0 /\ m.choice < Shown(m)
    BY <1>6 DEF Dark, Fits
  <2>2. Shown(m) = m.rows /\ m.rows >= 1
    BY <1>1, <2>1, RowsFull
  <2>3. index \in 0..d.n - 1
    BY <1>1, <1>2, <1>3, <2>1 DEF SameBox
  <2>4. DOMAIN m.screen = 0..m.rows - 1
    BY <1>6 DEF Dark, Fits
  <2>5. /\ DOMAIN d.screen = 0..m.rows - 1
        /\ \A r \in 0..m.rows - 1 : d.screen[r] = IF r + 1 \in 0..m.rows - 1 THEN m.screen[r + 1] ELSE Blank
    <3>0. PICK k \in Int, f \in Screens : k = 1 /\ f = m.screen
      BY <1>1
    <3>1. PICK g : g = Moved(f, k)
      OBVIOUS
    <3>2. /\ DOMAIN g = DOMAIN f
          /\ \A r \in DOMAIN f : g[r] = IF r + k \in DOMAIN f THEN f[r + k] ELSE Blank
      BY <3>1, RowsMoved
    <3>3. d.screen = g
      BY <1>2, <3>0, <3>1
    <3> QED
      BY <2>4, <3>0, <3>2, <3>3
  <2>6. SameBox(m, p) /\ Shown(p) = Shown(m)
    <3>1. SameBox(m, p)
      BY <1>2, <1>5, <2>3 DEF SameBox
    <3> QED
      BY <3>1, SameShown
  <2>7. RowsAre(p, NoItem)
    <3> SUFFICES ASSUME NEW r \in 0..m.rows - 1
                 PROVE  p.screen[r] = [item |-> p.scroll + r, lit |-> r = NoItem]
      <4>1. p.rows = m.rows /\ Shown(p) = m.rows /\ m.rows \in Nat
        BY <1>1, <2>2, <2>6 DEF SameBox
      <4> QED
        BY <4>1 DEF RowsAre
    <3>1. p.scroll = m.scroll + 1 /\ (r = NoItem) = FALSE
      BY <1>1, <1>2, <1>5, <2>3 DEF NoItem
    <3>2. CASE r = row
      <4>1. p.screen[r] = [item |-> index, lit |-> dark]
        BY <1>5, <2>3, <2>5, <3>2
      <4>2. p.scroll + r = index
        BY <1>1, <1>3, <2>2, <3>1, <3>2
      <4> QED
        BY <1>d, <3>1, <4>1, <4>2
    <3>3. CASE r # row
      <4>1. PICK q \in 0..m.rows - 1 : q = r + 1
        BY <1>1, <1>3, <2>2, <3>3
      <4>2. p.screen[r] = m.screen[q]
        BY <1>5, <2>3, <2>5, <3>3, <4>1
      <4>3. m.screen[q] = [item |-> m.scroll + q, lit |-> q = NoItem]
        BY <1>1, <1>6, <2>2, <4>1 DEF Dark, RowsAre
      <4>4. (q = NoItem) = FALSE /\ m.scroll + q = p.scroll + r
        BY <1>1, <3>1, <4>1 DEF NoItem
      <4> QED
        BY <3>1, <4>2, <4>3, <4>4
    <3> QED
      BY <3>2, <3>3
  <2>8. Fits(p)
    BY <1>1, <1>2, <1>5, <2>1, <2>2, <2>3, <2>5, <2>6 DEF Fits, SameBox
  <2> QED
    BY <1>2, <1>5, <2>1, <2>3, <2>6, <2>7, <2>8 DEF Dark, SameBox
<1>7. Follows(m, p)
  BY <1>2, <1>5, <1>6 DEF Follows, SameBox
<1> QED
  BY <1>2, <1>3, <1>4, <1>d, <1>6, <1>7

LEMMA RowUpFollows == ASSUME NEW m \in Lists PROVE Follows(m, RowUp(m))
<1>1. m.scroll \in Nat /\ m.choice \in Int
  BY DEF Lists
<1>2. CASE m.scroll > 0
  BY <1>2, ScrolledUp DEF RowUp
<1>3. CASE ~(m.scroll > 0)
  <2>1. PICK choice \in Int : choice = Max({m.choice - 1, 0})
    BY <1>1, MaxOfTwo
  <2>2. Dark(m) => choice \in 0..Shown(m) - 1
    <3>1. choice = IF m.choice - 1 >= 0 THEN m.choice - 1 ELSE 0
      BY <1>1, <2>1, MaxOfTwo
    <3> QED
      BY <1>1, <3>1, ShownOf DEF Dark, Fits
  <2>3. RowUp(m) = [m EXCEPT !.choice = choice]
    BY <1>3, <2>1 DEF RowUp
  <2> QED
    BY <2>2, <2>3, ChoiceMoved
<1> QED
  BY <1>2, <1>3

\* A step down in the rows stays in them.
LEMMA BelowFollows ==
    ASSUME NEW m \in Lists, NEW p, p = [m EXCEPT !.choice = Min({@ + 1, Shown(m) - 1})]
    PROVE  Follows(m, p)
<1>1. m.choice \in Int /\ Shown(m) \in Nat /\ m.choice + 1 \in Int /\ Shown(m) - 1 \in Int
  BY ShownOf DEF Lists
<1>2. PICK choice \in Int : choice = Min({m.choice + 1, Shown(m) - 1})
  BY <1>1, MinOfTwo
<1>3. choice = IF m.choice + 1 <= Shown(m) - 1 THEN m.choice + 1 ELSE Shown(m) - 1
  BY <1>1, <1>2, MinOfTwo
<1>4. Dark(m) => choice \in 0..Shown(m) - 1
  BY <1>1, <1>3 DEF Dark, Fits
<1> QED
  BY <1>2, <1>4, ChoiceMoved

LEMMA RowDownFollows == ASSUME NEW m \in Lists PROVE Follows(m, RowDown(m))
  BY ScrolledDown, BelowFollows DEF RowDown

LEMMA LineDownFollows == ASSUME NEW m \in Lists PROVE Follows(m, LineDown(m))
  BY ScrolledDown, BelowFollows DEF LineDown

LEMMA LineUpFollows == ASSUME NEW m \in Lists PROVE Follows(m, LineUp(m))
<1>1. m.scroll \in Nat /\ m.choice \in Int
  BY DEF Lists
<1>2. CASE m.choice < 2 /\ m.scroll # 0
  <2>1. m.scroll > 0
    BY <1>1, <1>2
  <2> QED
    BY <1>2, <2>1, ScrolledUp DEF LineUp
<1>3. CASE ~(m.choice < 2 /\ m.scroll # 0)
  <2>1. PICK choice \in Int : choice = Max({m.choice - 1, 0})
    BY <1>1, MaxOfTwo
  <2>2. Dark(m) => choice \in 0..Shown(m) - 1
    <3>1. choice = IF m.choice - 1 >= 0 THEN m.choice - 1 ELSE 0
      BY <1>1, <2>1, MaxOfTwo
    <3> QED
      BY <1>1, <3>1, ShownOf DEF Dark, Fits
  <2>3. LineUp(m) = [m EXCEPT !.choice = choice]
    BY <1>3, <2>1 DEF LineUp
  <2> QED
    BY <2>2, <2>3, ChoiceMoved
<1> QED
  BY <1>2, <1>3

\* The loops of page up and page down, of whatever number of turns: a recursive
\* function of their length exists, and its last value follows from the first.
UpLoop(f, k, m)   == f = [j \in 0..k |-> IF j = 0 THEN m ELSE RowUp(f[j - 1])]
DownLoop(f, k, m) == f = [j \in 0..k |-> IF j = 0 THEN m ELSE RowDown(f[j - 1])]

LEMMA UpLoopExists == ASSUME NEW m, NEW k \in Nat PROVE \E f : UpLoop(f, k, m)
<1> DEFINE T == {n \in Nat : ~ \E f : UpLoop(f, n, m)}
<1> SUFFICES ASSUME T # {} PROVE FALSE
  OBVIOUS
<1>1. PICK n \in T : \A y \in T : n <= y
  BY LeastNumber
<1>2. n # 0
  <2>1. UpLoop([j \in 0..0 |-> m], 0, m)
    BY DEF UpLoop
  <2> QED
    BY <1>1, <2>1
<1>3. n - 1 \in Nat /\ n - 1 \notin T
  BY <1>1, <1>2
<1>4. PICK f : UpLoop(f, n - 1, m)
  BY <1>3
<1>5. PICK g : g = [j \in 0..n |-> IF j = 0 THEN m ELSE RowUp(f[j - 1])]
  OBVIOUS
<1>6. \A j \in 0..n - 1 : g[j] = f[j]
  BY <1>3, <1>4, <1>5 DEF UpLoop
<1>7. g = [j \in 0..n |-> IF j = 0 THEN m ELSE RowUp(g[j - 1])]
  <2>1. \A j \in 0..n : j # 0 => j - 1 \in 0..n - 1
    BY <1>3
  <2> QED
    BY <1>5, <1>6, <2>1
<1> QED
  BY <1>1, <1>7 DEF UpLoop

LEMMA DownLoopExists == ASSUME NEW m, NEW k \in Nat PROVE \E f : DownLoop(f, k, m)
<1> DEFINE T == {n \in Nat : ~ \E f : DownLoop(f, n, m)}
<1> SUFFICES ASSUME T # {} PROVE FALSE
  OBVIOUS
<1>1. PICK n \in T : \A y \in T : n <= y
  BY LeastNumber
<1>2. n # 0
  <2>1. DownLoop([j \in 0..0 |-> m], 0, m)
    BY DEF DownLoop
  <2> QED
    BY <1>1, <2>1
<1>3. n - 1 \in Nat /\ n - 1 \notin T
  BY <1>1, <1>2
<1>4. PICK f : DownLoop(f, n - 1, m)
  BY <1>3
<1>5. PICK g : g = [j \in 0..n |-> IF j = 0 THEN m ELSE RowDown(f[j - 1])]
  OBVIOUS
<1>6. \A j \in 0..n - 1 : g[j] = f[j]
  BY <1>3, <1>4, <1>5 DEF DownLoop
<1>7. g = [j \in 0..n |-> IF j = 0 THEN m ELSE RowDown(g[j - 1])]
  <2>1. \A j \in 0..n : j # 0 => j - 1 \in 0..n - 1
    BY <1>3
  <2> QED
    BY <1>5, <1>6, <2>1
<1> QED
  BY <1>1, <1>7 DEF DownLoop

LEMMA PageUpFollows == ASSUME NEW m \in Lists PROVE Follows(m, PageUp(m))
<1>1. Shown(m) \in Nat
  BY ShownOf
<1> DEFINE f == CHOOSE f : UpLoop(f, Shown(m), m)
           T == {k \in 0..Shown(m) : ~Follows(m, f[k])}
<1>2. UpLoop(f, Shown(m), m)
  BY <1>1, UpLoopExists
<1>3. PageUp(m) = f[Shown(m)]
  BY DEF PageUp, UpLoop
<1> HIDE DEF f
<1>4. \A k \in 0..Shown(m) : f[k] = IF k = 0 THEN m ELSE RowUp(f[k - 1])
  BY <1>1, <1>2 DEF UpLoop
<1>5. T = {}
  <2> SUFFICES ASSUME T # {} PROVE FALSE
    OBVIOUS
  <2>0. T \subseteq Nat
    BY <1>1
  <2>1. PICK k \in T : \A y \in T : k <= y
    <3> HIDE DEF T
    <3> QED
      BY <2>0, LeastNumber
  <2>2. k # 0
    BY <1>1, <1>4, <2>1 DEF Follows, SameBox
  <2>3. k - 1 \in 0..Shown(m) /\ k - 1 \notin T
    BY <1>1, <2>1, <2>2
  <2>4. Follows(m, f[k - 1]) /\ f[k] = RowUp(f[k - 1])
    BY <1>4, <2>1, <2>2, <2>3
  <2>5. Follows(f[k - 1], f[k])
    BY <2>4, RowUpFollows DEF Follows
  <2> QED
    BY <2>1, <2>4, <2>5, FollowsTwice
<1> QED
  BY <1>1, <1>3, <1>5

LEMMA PageDownFollows == ASSUME NEW m \in Lists PROVE Follows(m, PageDown(m))
<1>1. Shown(m) \in Nat
  BY ShownOf
<1> DEFINE f == CHOOSE f : DownLoop(f, Shown(m), m)
           T == {k \in 0..Shown(m) : ~Follows(m, f[k])}
<1>2. DownLoop(f, Shown(m), m)
  BY <1>1, DownLoopExists
<1>3. PageDown(m) = f[Shown(m)]
  BY DEF PageDown, DownLoop
<1> HIDE DEF f
<1>4. \A k \in 0..Shown(m) : f[k] = IF k = 0 THEN m ELSE RowDown(f[k - 1])
  BY <1>1, <1>2 DEF DownLoop
<1>5. T = {}
  <2> SUFFICES ASSUME T # {} PROVE FALSE
    OBVIOUS
  <2>0. T \subseteq Nat
    BY <1>1
  <2>1. PICK k \in T : \A y \in T : k <= y
    <3> HIDE DEF T
    <3> QED
      BY <2>0, LeastNumber
  <2>2. k # 0
    BY <1>1, <1>4, <2>1 DEF Follows, SameBox
  <2>3. k - 1 \in 0..Shown(m) /\ k - 1 \notin T
    BY <1>1, <2>1, <2>2
  <2>4. Follows(m, f[k - 1]) /\ f[k] = RowDown(f[k - 1])
    BY <1>4, <2>1, <2>2, <2>3
  <2>5. Follows(f[k - 1], f[k])
    BY <2>4, RowDownFollows DEF Follows
  <2> QED
    BY <2>1, <2>4, <2>5, FollowsTwice
<1> QED
  BY <1>1, <1>3, <1>5

-----------------------------------------------------------------------------
(* The highlight, the arrows and the record of what happened *)

\* Taking the highlight off the row it was on, and putting it on the row of
\* choice.
LEMMA UnlitDark ==
    ASSUME NEW m \in Lists, NEW u, u = Unlit(m)
    PROVE  /\ u \in Lists /\ u.since = m.since /\ u.open \in {m.open, "crashed"}
           /\ Painted(m) => /\ Dark(u) /\ SameBox(m, u) /\ u.scroll = m.scroll /\ u.choice = m.choice
                            /\ u.up = m.up /\ u.down = m.down
<1>1. m.scroll \in Nat /\ m.choice \in Int /\ m.rows \in Nat /\ m.n \in Nat /\ Shown(m) \in Nat
  BY ShownOf DEF Lists
<1>2. PICK index \in Int : index = m.scroll + m.choice
  BY <1>1
<1>3. PICK dark \in BOOLEAN : dark = FALSE
  OBVIOUS
<1>4. u = PrintItem(m, index, m.choice, dark)
  BY <1>2, <1>3 DEF Unlit
<1>5. /\ u \in Lists /\ u.since = m.since /\ u.open \in {m.open, "crashed"}
      /\ index \in 0..m.n - 1 =>
            /\ SameBox(m, u) /\ u.scroll = m.scroll /\ u.choice = m.choice /\ u.up = m.up /\ u.down = m.down
            /\ DOMAIN u.screen = DOMAIN m.screen
            /\ \A r \in DOMAIN m.screen :
                  u.screen[r] = IF r = m.choice THEN [item |-> index, lit |-> dark] ELSE m.screen[r]
  BY <1>4, PrintItemParts
<1>6. ASSUME Painted(m)
      PROVE  /\ Dark(u) /\ SameBox(m, u) /\ u.scroll = m.scroll /\ u.choice = m.choice
             /\ u.up = m.up /\ u.down = m.down
  <2>1. /\ m.n > 0 /\ m.rows >= 1 /\ DOMAIN m.screen = 0..m.rows - 1
        /\ m.scroll + Shown(m) <= m.n /\ m.choice >= 0 /\ m.choice < Shown(m)
    BY <1>6 DEF Painted, Fits
  <2>2. index \in 0..m.n - 1
    BY <1>1, <1>2, <2>1
  <2>3. SameBox(m, u) /\ Shown(u) = Shown(m)
    BY <1>5, <2>2, SameShown
  <2>4. Fits(u)
    BY <1>5, <2>1, <2>2, <2>3 DEF Fits, SameBox
  <2>5. RowsAre(u, NoItem)
    <3> SUFFICES ASSUME NEW r \in 0..m.rows - 1
                 PROVE  u.screen[r] = IF r < Shown(m) THEN [item |-> m.scroll + r, lit |-> r = NoItem] ELSE Blank
      BY <1>5, <2>2, <2>3 DEF RowsAre, SameBox
    <3>1. (r = NoItem) = FALSE
      BY <1>1 DEF NoItem
    <3>2. CASE r = m.choice
      <4>1. u.screen[r] = [item |-> index, lit |-> dark] /\ r < Shown(m)
        BY <1>5, <2>1, <2>2, <3>2
      <4> QED
        BY <1>2, <1>3, <3>1, <3>2, <4>1
    <3>3. CASE r # m.choice
      <4>1. u.screen[r] = m.screen[r]
        BY <1>5, <2>1, <2>2, <3>3
      <4>2. m.screen[r] = IF r < Shown(m) THEN [item |-> m.scroll + r, lit |-> r = m.choice] ELSE Blank
        BY <1>6 DEF Painted, RowsAre
      <4>3. (r = m.choice) = FALSE
        BY <3>3
      <4> QED
        BY <3>1, <4>1, <4>2, <4>3
    <3> QED
      BY <3>2, <3>3
  <2> QED
    BY <1>5, <2>1, <2>2, <2>3, <2>4, <2>5 DEF Dark, SameBox
<1> QED
  BY <1>5, <1>6

LEMMA UnlitShown == ASSUME NEW m \in Lists, Dark(Unlit(m)) PROVE Shown(Unlit(m)) = Shown(m)
<1>1. PICK index \in Int : index = m.scroll + m.choice
  BY DEF Lists
<1>2. PICK dark \in BOOLEAN : dark = FALSE
  OBVIOUS
<1>3. PICK u : u = PrintItem(m, index, m.choice, dark)
  OBVIOUS
<1>4. u = Unlit(m)
  BY <1>1, <1>2, <1>3 DEF Unlit
<1>5. CASE index \in 0..m.n - 1
  <2>1. /\ u \in Lists /\ u.since = m.since /\ u.open \in {m.open, "crashed"}
        /\ index \in 0..m.n - 1 =>
              /\ SameBox(m, u) /\ u.scroll = m.scroll /\ u.choice = m.choice /\ u.up = m.up /\ u.down = m.down
              /\ DOMAIN u.screen = DOMAIN m.screen
              /\ \A r \in DOMAIN m.screen :
                    u.screen[r] = IF r = m.choice THEN [item |-> index, lit |-> dark] ELSE m.screen[r]
    BY <1>3, PrintItemParts
  <2> QED
    BY <1>4, <1>5, <2>1, SameShown
<1>6. CASE index \notin 0..m.n - 1
  <2>1. u = Crashed(m)
    BY <1>3, <1>6 DEF PrintItem
  <2>2. u.n = 0
    BY <2>1 DEF Crashed, Shut
  <2> QED
    BY <1>4, <2>2 DEF Dark
<1> QED
  BY <1>5, <1>6

LEMMA LitPainted ==
    ASSUME NEW m \in Lists, NEW l, l = Lit(m)
    PROVE  /\ l \in Lists /\ l.since = m.since /\ l.open \in {m.open, "crashed"}
           /\ Dark(m) => /\ Painted(l) /\ SameBox(m, l) /\ l.scroll = m.scroll /\ l.choice = m.choice
                         /\ l.up = m.up /\ l.down = m.down
<1>1. m.scroll \in Nat /\ m.choice \in Int /\ m.rows \in Nat /\ m.n \in Nat /\ Shown(m) \in Nat
  BY ShownOf DEF Lists
<1>2. PICK index \in Int : index = m.scroll + m.choice
  BY <1>1
<1>3. PICK lit \in BOOLEAN : lit = TRUE
  OBVIOUS
<1>4. l = PrintItem(m, index, m.choice, lit)
  BY <1>2, <1>3 DEF Lit
<1>5. /\ l \in Lists /\ l.since = m.since /\ l.open \in {m.open, "crashed"}
      /\ index \in 0..m.n - 1 =>
            /\ SameBox(m, l) /\ l.scroll = m.scroll /\ l.choice = m.choice /\ l.up = m.up /\ l.down = m.down
            /\ DOMAIN l.screen = DOMAIN m.screen
            /\ \A r \in DOMAIN m.screen :
                  l.screen[r] = IF r = m.choice THEN [item |-> index, lit |-> lit] ELSE m.screen[r]
  BY <1>4, PrintItemParts
<1>6. ASSUME Dark(m)
      PROVE  /\ Painted(l) /\ SameBox(m, l) /\ l.scroll = m.scroll /\ l.choice = m.choice
             /\ l.up = m.up /\ l.down = m.down
  <2>1. /\ m.n > 0 /\ m.rows >= 1 /\ DOMAIN m.screen = 0..m.rows - 1
        /\ m.scroll + Shown(m) <= m.n /\ m.choice >= 0 /\ m.choice < Shown(m)
    BY <1>6 DEF Dark, Fits
  <2>2. index \in 0..m.n - 1
    BY <1>1, <1>2, <2>1
  <2>3. SameBox(m, l) /\ Shown(l) = Shown(m)
    BY <1>5, <2>2, SameShown
  <2>4. Fits(l)
    BY <1>5, <2>1, <2>2, <2>3 DEF Fits, SameBox
  <2>5. RowsAre(l, l.choice)
    <3> SUFFICES ASSUME NEW r \in 0..m.rows - 1
                 PROVE  l.screen[r] = IF r < Shown(m) THEN [item |-> m.scroll + r, lit |-> r = m.choice] ELSE Blank
      BY <1>5, <2>2, <2>3 DEF RowsAre, SameBox
    <3>2. CASE r = m.choice
      <4>1. l.screen[r] = [item |-> index, lit |-> lit] /\ r < Shown(m)
        BY <1>5, <2>1, <2>2, <3>2
      <4>2. (r = m.choice) = TRUE
        BY <3>2
      <4> QED
        BY <1>2, <1>3, <3>2, <4>1, <4>2
    <3>3. CASE r # m.choice
      <4>1. l.screen[r] = m.screen[r]
        BY <1>5, <2>1, <2>2, <3>3
      <4>2. m.screen[r] = IF r < Shown(m) THEN [item |-> m.scroll + r, lit |-> r = NoItem] ELSE Blank
        BY <1>6 DEF Dark, RowsAre
      <4>3. (r = m.choice) = FALSE /\ (r = NoItem) = FALSE
        BY <1>1, <3>3 DEF NoItem
      <4> QED
        BY <4>1, <4>2, <4>3
    <3> QED
      BY <3>2, <3>3
  <2> QED
    BY <1>5, <2>1, <2>2, <2>3, <2>4, <2>5 DEF Painted, SameBox
<1> QED
  BY <1>5, <1>6

\* Two states that show the same: the arrows and the record may differ.
SameView(m, p) == /\ SameBox(m, p) /\ p.scroll = m.scroll /\ p.choice = m.choice /\ p.screen = m.screen

LEMMA ViewKept ==
    ASSUME NEW m, NEW p, SameView(m, p)
    PROVE  Shown(p) = Shown(m) /\ (Fits(m) => Fits(p)) /\ (RowsAre(m, m.choice) => RowsAre(p, p.choice))
           /\ (Painted(m) => Painted(p)) /\ (Focus(m) => Focus(p))
<1>1. Shown(p) = Shown(m)
  BY SameShown DEF SameView
<1> QED
  BY <1>1 DEF SameView, SameBox, Fits, RowsAre, Painted, Focus

LEMMA MenuArrowsParts ==
    ASSUME NEW m \in Lists, NEW a, a = MenuArrows(m)
    PROVE  /\ a \in Lists /\ a.since = m.since /\ SameView(m, a)
           /\ Fits(m) => a.up = (m.scroll > 0) /\ a.down = (m.scroll + Shown(m) < m.n)
<1>1. m.scroll \in Nat /\ m.rows \in Nat /\ m.n \in Nat
  BY DEF Lists
<1>2. PICK up \in BOOLEAN : up = (m.scroll > 0)
  <2>1. (m.scroll > 0) \in BOOLEAN
    BY <1>1
  <2> QED
    BY <2>1
<1>3. PICK down \in BOOLEAN : down = (m.rows < m.n /\ m.scroll + m.rows < m.n)
  BY <1>1
<1>4. a = [m EXCEPT !.up = up, !.down = down]
  BY <1>2, <1>3 DEF MenuArrows
<1>5. a \in Lists /\ a.since = m.since /\ SameView(m, a) /\ a.up = up /\ a.down = down
  BY <1>4 DEF Lists, SameView, SameBox
<1>6. Fits(m) => down = (m.scroll + Shown(m) < m.n)
  BY <1>1, <1>3, ShownOf DEF Fits
<1> QED
  BY <1>2, <1>5, <1>6

LEMMA ListArrowsParts ==
    ASSUME NEW m \in Lists, NEW a, a = ListArrows(m)
    PROVE  /\ a \in Lists /\ a.since = m.since /\ SameView(m, a)
           /\ a.up = (m.scroll > 0) /\ a.down = (m.rows < m.n /\ m.scroll + m.choice < m.n - 1)
<1>1. m.scroll \in Nat /\ m.rows \in Nat /\ m.n \in Nat /\ m.choice \in Int
  BY DEF Lists
<1>2. PICK up \in BOOLEAN : up = (m.scroll > 0)
  <2>1. (m.scroll > 0) \in BOOLEAN
    BY <1>1
  <2> QED
    BY <2>1
<1>3. PICK down \in BOOLEAN : down = (m.rows < m.n /\ m.scroll + m.choice < m.n - 1)
  BY <1>1
<1>4. a = [m EXCEPT !.up = up, !.down = down]
  BY <1>2, <1>3 DEF ListArrows
<1>5. a \in Lists /\ a.since = m.since /\ SameView(m, a) /\ a.up = up /\ a.down = down
  BY <1>4 DEF Lists, SameView, SameBox
<1> QED
  BY <1>2, <1>3, <1>5

LEMMA TouchedParts ==
    ASSUME NEW m \in Lists, NEW t, t = Touched(m)
    PROVE  /\ t \in Lists /\ SameView(m, t) /\ t.up = m.up /\ t.down = m.down
           /\ t.since # "opened" /\ (t.since = "resized" <=> m.since = "resized")
<1>1. m.since \in Since
  BY DEF Lists
<1>2. PICK since \in Since : since = IF m.since = "opened" THEN "moved" ELSE m.since
  BY <1>1 DEF Since
<1>3. t = [m EXCEPT !.since = since]
  BY <1>2 DEF Touched
<1>4. t \in Lists /\ SameView(m, t) /\ t.up = m.up /\ t.down = m.down /\ t.since = since
  BY <1>3 DEF Lists, SameView, SameBox
<1> QED
  BY <1>1, <1>2, <1>4 DEF Since

-----------------------------------------------------------------------------
(* A key that moves *)

LEMMA MenuMoves ==
    ASSUME NEW m \in Lists, Showing(m), m.open = "menu", m.n # 0,
           NEW p, Follows(Unlit(m), p), NEW q, q = Touched(MenuArrows(Lit(p)))
    PROVE  Holds(q)
<1>1. PICK u : u = Unlit(m)
  OBVIOUS
<1>2. /\ u \in Lists /\ u.since = m.since /\ u.open \in {m.open, "crashed"}
      /\ Painted(m) => Dark(u) /\ SameBox(m, u)
  BY <1>1, UnlitDark
<1>3. p \in Lists /\ p.since = u.since /\ p.open \in {u.open, "crashed"} /\ (Dark(u) => Dark(p) /\ SameBox(u, p))
  BY <1>1 DEF Follows
<1>4. PICK l : l = Lit(p)
  OBVIOUS
<1>5. /\ l \in Lists /\ l.since = p.since /\ l.open \in {p.open, "crashed"}
      /\ Dark(p) => Painted(l) /\ SameBox(p, l)
  BY <1>3, <1>4, LitPainted
<1>6. PICK a : a = MenuArrows(l)
  OBVIOUS
<1>7. /\ a \in Lists /\ a.since = l.since /\ SameView(l, a)
      /\ Fits(l) => a.up = (l.scroll > 0) /\ a.down = (l.scroll + Shown(l) < l.n)
  BY <1>5, <1>6, MenuArrowsParts
<1>8. /\ q \in Lists /\ SameView(a, q) /\ q.up = a.up /\ q.down = a.down
      /\ q.since # "opened" /\ (q.since = "resized" <=> a.since = "resized")
  BY <1>4, <1>6, <1>7, TouchedParts
<1>9. q.open \in {"menu", "crashed"}
  BY <1>2, <1>3, <1>5, <1>7, <1>8 DEF SameView, SameBox
<1>10. CASE m.since = "resized"
  <2>1. q.since = "resized"
    BY <1>2, <1>3, <1>5, <1>7, <1>8, <1>10
  <2> QED
    BY <1>8, <1>9, <2>1 DEF Holds, Showing, Listed
<1>11. CASE m.since # "resized"
  <2>1. Right(m) /\ Painted(m)
    <3>1. m.n > 0
      BY DEF Lists
    <3> QED
      BY <1>11, <3>1 DEF Showing, Right, Painted
  <2>2. SameBox(m, q)
    BY <1>2, <1>3, <1>5, <1>7, <1>8, <2>1 DEF SameView, SameBox
  <2>3. Painted(l) /\ SameView(l, q)
    BY <1>2, <1>3, <1>5, <1>7, <1>8, <2>1 DEF SameView, SameBox
  <2>4. Painted(q) /\ Shown(q) = Shown(l)
    BY <2>3, ViewKept
  <2>5. q.up = (q.scroll > 0) /\ q.down = (q.scroll + Shown(q) < q.n)
    BY <1>7, <1>8, <2>3, <2>4 DEF Painted, SameView, SameBox
  <2>6. q.glow = q.button
    BY <2>1, <2>2 DEF Right, SameBox
  <2>7. Right(q)
    BY <2>4, <2>5, <2>6 DEF Right, Painted
  <2> QED
    BY <1>8, <1>9, <2>2, <2>7 DEF Holds, Showing, Listed, SameBox
<1> QED
  BY <1>10, <1>11

\* In a choice, to a row on the screen: the arrows stay.
LEMMA ListMoves ==
    ASSUME NEW m, Holds(m), m.open = "list", NEW row \in Int, row \in 0..Shown(m) - 1,
           NEW q, q = Touched(Lit([Unlit(m) EXCEPT !.choice = row]))
    PROVE  Holds(q)
<1>0. m \in Lists /\ Painted(m)
  BY DEF Holds, Listed
<1>1. PICK u : u = Unlit(m)
  OBVIOUS
<1>2. /\ u \in Lists /\ u.since = m.since
      /\ Dark(u) /\ SameBox(m, u) /\ u.scroll = m.scroll /\ u.up = m.up /\ u.down = m.down
  BY <1>0, <1>1, UnlitDark
<1>3. PICK p : p = [u EXCEPT !.choice = row]
  OBVIOUS
<1>4. Shown(u) = Shown(m)
  BY <1>2, SameShown
<1>5. Follows(u, p) /\ p.scroll = u.scroll /\ p.up = u.up /\ p.down = u.down
  BY <1>2, <1>3, <1>4, ChoiceMoved
<1>6. p \in Lists /\ p.since = u.since /\ Dark(p) /\ SameBox(u, p)
  BY <1>2, <1>5 DEF Follows
<1>7. PICK l : l = Lit(p)
  OBVIOUS
<1>8. /\ l \in Lists /\ l.since = p.since /\ Painted(l) /\ SameBox(p, l) /\ l.scroll = p.scroll
      /\ l.up = p.up /\ l.down = p.down
  BY <1>6, <1>7, LitPainted
<1>9. /\ q \in Lists /\ SameView(l, q) /\ q.up = l.up /\ q.down = l.down
      /\ q.since # "opened" /\ (q.since = "resized" <=> l.since = "resized")
  BY <1>1, <1>3, <1>7, <1>8, TouchedParts
<1>10. SameBox(m, q) /\ q.scroll = m.scroll /\ q.up = m.up /\ q.down = m.down
  BY <1>2, <1>5, <1>6, <1>8, <1>9 DEF SameView, SameBox
<1>11. Painted(q) /\ Shown(q) = Shown(m)
  BY <1>8, <1>9, <1>10, SameShown, ViewKept
<1>12. ASSUME q.since # "resized" PROVE Right(q)
  <2>1. Right(m)
    BY <1>2, <1>6, <1>8, <1>9, <1>12 DEF Holds, Showing
  <2> QED
    BY <1>10, <1>11, <2>1 DEF Right, Painted, SameBox
<1> QED
  BY <1>9, <1>10, <1>11, <1>12 DEF Holds, Showing, Listed, SameBox

\* In a choice, past its first or last row: the row that comes free is written
\* once, with the highlight.
LEMMA WrittenOver ==
    ASSUME NEW m \in Lists, NEW index \in 0..m.n - 1, NEW row
    PROVE  PrintItem(PrintItem(m, index, row, FALSE), index, row, TRUE) = PrintItem(m, index, row, TRUE)
<1>0. PICK f \in Screens : f = m.screen
  BY DEF Lists
<1>1. PICK a, b : a = [item |-> index, lit |-> FALSE] /\ b = [item |-> index, lit |-> TRUE]
  OBVIOUS
<1>2. PICK g, h : g = [f EXCEPT ![row] = a] /\ h = [f EXCEPT ![row] = b]
  OBVIOUS
<1>3. [g EXCEPT ![row] = b] = h
  BY <1>2
<1>4. PICK p : p = [m EXCEPT !.screen = g]
  OBVIOUS
<1>5. p.n = m.n /\ p.screen = g /\ [p EXCEPT !.screen = h] = [m EXCEPT !.screen = h]
  BY <1>4 DEF Lists
<1>6. PrintItem(m, index, row, FALSE) = p
  BY <1>0, <1>1, <1>2, <1>4 DEF PrintItem
<1>7. PrintItem(p, index, row, TRUE) = [p EXCEPT !.screen = h]
  BY <1>0, <1>1, <1>3, <1>5 DEF PrintItem
<1>8. PrintItem(m, index, row, TRUE) = [m EXCEPT !.screen = h]
  BY <1>0, <1>1, <1>2 DEF PrintItem
<1> QED
  BY <1>5, <1>6, <1>7, <1>8

LEMMA ListEnds ==
    ASSUME NEW m, Holds(m), m.open = "list", NEW p \in Lists, Dark(p), SameBox(m, p), p.since = m.since,
           (p.rows < p.n /\ p.scroll + p.choice < p.n - 1) <=> (p.scroll + Shown(p) < p.n),
           NEW q, q = Touched(ListArrows(Lit(p)))
    PROVE  Holds(q)
<1>1. PICK l : l = Lit(p)
  OBVIOUS
<1>2. l \in Lists /\ l.since = p.since /\ Painted(l) /\ SameBox(p, l) /\ l.scroll = p.scroll /\ l.choice = p.choice
  BY <1>1, LitPainted
<1>3. PICK a : a = ListArrows(l)
  OBVIOUS
<1>4. /\ a \in Lists /\ a.since = l.since /\ SameView(l, a)
      /\ a.up = (l.scroll > 0) /\ a.down = (l.rows < l.n /\ l.scroll + l.choice < l.n - 1)
  BY <1>2, <1>3, ListArrowsParts
<1>5. /\ q \in Lists /\ SameView(a, q) /\ q.up = a.up /\ q.down = a.down
      /\ q.since # "opened" /\ (q.since = "resized" <=> a.since = "resized")
  BY <1>1, <1>3, <1>4, TouchedParts
<1>6. SameBox(m, q) /\ SameView(l, q) /\ SameBox(p, q) /\ q.scroll = p.scroll
  BY <1>2, <1>4, <1>5 DEF SameView, SameBox
<1>7. Painted(q) /\ Shown(q) = Shown(p)
  BY <1>2, <1>6, SameShown, ViewKept
<1>8. q.up = (q.scroll > 0)
  BY <1>4, <1>5, <1>6 DEF SameView
<1>9. q.down = (q.scroll + Shown(q) < q.n)
  <2>1. q.down = (p.rows < p.n /\ p.scroll + p.choice < p.n - 1)
    BY <1>2, <1>4, <1>5 DEF SameBox
  <2>2. q.down = (p.scroll + Shown(p) < p.n)
    BY <2>1
  <2> QED
    BY <1>6, <1>7, <2>2 DEF SameBox
<1>10. ASSUME q.since # "resized" PROVE Right(q)
  <2>1. Right(m)
    BY <1>2, <1>4, <1>5, <1>10 DEF Holds, Showing
  <2> QED
    BY <1>6, <1>7, <1>8, <1>9, <2>1 DEF Right, Painted, SameBox
<1> QED
  BY <1>5, <1>6, <1>7, <1>10 DEF Holds, Showing, Listed, SameBox

LEMMA ListPastTop ==
    ASSUME NEW m, Holds(m), m.open = "list", m.choice = 0, m.scroll > 0,
           NEW q, q = Touched(ListArrows(Lit(DoScroll(Unlit(m), -1))))
    PROVE  Holds(q)
<1>0. m \in Lists /\ Painted(m)
  BY DEF Holds, Listed
<1>1. PICK u : u = Unlit(m)
  OBVIOUS
<1>2. /\ u \in Lists /\ u.since = m.since
      /\ Dark(u) /\ SameBox(m, u) /\ u.scroll = m.scroll /\ u.choice = m.choice
  BY <1>0, <1>1, UnlitDark
<1>3. /\ u.scroll \in Nat /\ u.n \in Nat /\ u.rows \in Nat /\ Shown(u) \in Nat
      /\ u.scroll > 0 /\ u.choice = 0 /\ u.n > 0 /\ u.scroll + Shown(u) <= u.n /\ 0 < Shown(u)
  BY <1>2, ShownOf DEF Lists, Dark, Fits
<1>4. PICK d : d = DoScroll(u, -1)
  OBVIOUS
<1>5. d \in Lists /\ SameBox(u, d) /\ d.choice = u.choice /\ d.scroll = u.scroll - 1
  <2>1. u.scroll + (-1) >= 0 /\ u.scroll + (-1) = u.scroll - 1 /\ -1 \in Int
    BY <1>3
  <2> QED
    BY <1>2, <1>4, <2>1, DoScrollParts
<1>6. PICK p : p = PrintItem(d, u.scroll - 1, 0, FALSE)
  OBVIOUS
<1>7. Follows(u, p) /\ p.scroll = u.scroll - 1 /\ p.choice = u.choice
  BY <1>2, <1>3, <1>4, <1>6, ScrolledUp
<1>8. p \in Lists /\ p.since = u.since /\ Dark(p) /\ SameBox(u, p)
  BY <1>2, <1>7 DEF Follows
<1>9. Lit(d) = Lit(p)
  <2>1. PICK index \in 0..d.n - 1 : index = u.scroll - 1
    BY <1>3, <1>5 DEF SameBox
  <2>2. d.scroll + d.choice = index /\ p.scroll + p.choice = index /\ d.choice = 0 /\ p.choice = 0
    BY <1>3, <1>5, <1>7, <2>1
  <2>3. Lit(d) = PrintItem(d, index, 0, TRUE) /\ Lit(p) = PrintItem(p, index, 0, TRUE)
    BY <2>2 DEF Lit
  <2>4. PrintItem(PrintItem(d, index, 0, FALSE), index, 0, TRUE) = PrintItem(d, index, 0, TRUE)
    BY <1>5, WrittenOver
  <2> QED
    BY <1>6, <2>1, <2>3, <2>4
<1>10. Shown(p) = Shown(u) /\ p.n = u.n /\ p.rows = u.rows
  BY <1>8, SameShown DEF SameBox
<1>11. (p.rows < p.n /\ p.scroll + p.choice < p.n - 1) <=> (p.scroll + Shown(p) < p.n)
  <2>1. Shown(u) = IF u.rows <= u.n THEN u.rows ELSE u.n
    BY <1>2, ShownOf
  <2> QED
    BY <1>3, <1>7, <1>10, <2>1
<1>12. SameBox(m, p) /\ p.since = m.since
  BY <1>2, <1>8 DEF SameBox
<1> QED
  BY <1>1, <1>4, <1>8, <1>9, <1>11, <1>12, ListEnds

LEMMA ListPastBottom ==
    ASSUME NEW m, Holds(m), m.open = "list", m.choice = Shown(m) - 1, m.scroll + m.choice < m.n - 1,
           NEW q, q = Touched(ListArrows(Lit(DoScroll(Unlit(m), 1))))
    PROVE  Holds(q)
<1>0. m \in Lists /\ Painted(m)
  BY DEF Holds, Listed
<1>1. PICK u : u = Unlit(m)
  OBVIOUS
<1>2. /\ u \in Lists /\ u.since = m.since
      /\ Dark(u) /\ SameBox(m, u) /\ u.scroll = m.scroll /\ u.choice = m.choice
  BY <1>0, <1>1, UnlitDark
<1>3. /\ u.scroll \in Nat /\ u.n \in Nat /\ u.rows \in Nat /\ Shown(u) \in Nat
      /\ u.choice = Shown(u) - 1 /\ u.scroll + Shown(u) < u.n /\ 0 < Shown(u)
  <2>1. u.scroll \in Nat /\ u.n \in Nat /\ u.rows \in Nat /\ Shown(u) \in Nat /\ Shown(u) = Shown(m) /\ u.n = m.n
    BY <1>2, ShownOf, SameShown DEF Lists, SameBox
  <2> QED
    BY <1>2, <2>1 DEF Dark, Fits
<1>4. PICK d : d = DoScroll(u, 1)
  OBVIOUS
<1>5. d \in Lists /\ SameBox(u, d) /\ d.choice = u.choice /\ d.scroll = u.scroll + 1
  <2>1. u.scroll + 1 >= 0
    BY <1>3
  <2> QED
    BY <1>2, <1>4, <2>1, DoScrollParts
<1>6. PICK p : p = PrintItem(d, u.scroll + Shown(u), Shown(u) - 1, FALSE)
  OBVIOUS
<1>7. Follows(u, p) /\ p.scroll = u.scroll + 1 /\ p.choice = u.choice
  BY <1>2, <1>3, <1>4, <1>6, ScrolledDown
<1>8. p \in Lists /\ p.since = u.since /\ Dark(p) /\ SameBox(u, p)
  BY <1>2, <1>7 DEF Follows
<1>9. Lit(d) = Lit(p)
  <2>1. PICK index \in 0..d.n - 1 : index = u.scroll + Shown(u)
    BY <1>3, <1>5 DEF SameBox
  <2>2. PICK row : row = Shown(u) - 1
    OBVIOUS
  <2>3. d.scroll + d.choice = index /\ p.scroll + p.choice = index /\ d.choice = row /\ p.choice = row
    BY <1>3, <1>5, <1>7, <2>1, <2>2
  <2>4. Lit(d) = PrintItem(d, index, row, TRUE) /\ Lit(p) = PrintItem(p, index, row, TRUE)
    BY <2>3 DEF Lit
  <2>5. PrintItem(PrintItem(d, index, row, FALSE), index, row, TRUE) = PrintItem(d, index, row, TRUE)
    BY <1>5, WrittenOver
  <2> QED
    BY <1>6, <2>1, <2>2, <2>4, <2>5
<1>10. Shown(p) = Shown(u) /\ p.n = u.n /\ p.rows = u.rows
  BY <1>8, SameShown DEF SameBox
<1>11. (p.rows < p.n /\ p.scroll + p.choice < p.n - 1) <=> (p.scroll + Shown(p) < p.n)
  <2>1. Shown(u) = IF u.rows <= u.n THEN u.rows ELSE u.n
    BY <1>2, ShownOf
  <2> QED
    BY <1>3, <1>7, <1>10, <2>1
<1>12. SameBox(m, p) /\ p.since = m.since
  BY <1>2, <1>8 DEF SameBox
<1> QED
  BY <1>1, <1>4, <1>8, <1>9, <1>11, <1>12, ListEnds

-----------------------------------------------------------------------------
(* Drawing *)

\* Two states of one list whose place differs.
SameFrame(m, p) ==
    /\ p.open = m.open /\ p.n = m.n /\ p.rows = m.rows /\ p.want = m.want /\ p.since = m.since
    /\ p.button = m.button /\ p.glow = m.glow /\ p.saved = m.saved

PlacedAt(m, scroll, first, choice) == [m EXCEPT !.scroll = scroll, !.first = first, !.choice = choice]
LEMMA Placed ==
    ASSUME NEW m \in Lists, NEW scroll \in Nat, NEW first \in Int, NEW choice \in Int,
           NEW p, p = PlacedAt(m, scroll, first, choice)
    PROVE  /\ p \in Lists /\ SameFrame(m, p) /\ Shown(p) = Shown(m)
           /\ p.scroll = scroll /\ p.first = first /\ p.choice = choice
<1>1. p \in Lists /\ SameFrame(m, p) /\ p.scroll = scroll /\ p.first = first /\ p.choice = choice
  BY DEF Lists, SameFrame, PlacedAt
<1> QED
  BY <1>1 DEF SameFrame, Shown

LEMMA FocusedParts ==
    ASSUME NEW m \in Lists, NEW p, p = Focused(m)
    PROVE  /\ p \in Lists /\ SameFrame(m, p) /\ Shown(p) = Shown(m) /\ p.scroll = m.scroll /\ p.first = m.first
           /\ p.choice = IF m.want = NoItem THEN m.choice ELSE m.want
<1>1. m.want \in Int /\ m.choice \in Int /\ m.first \in Int /\ m.scroll \in Nat
  BY DEF Lists
<1>2. PICK choice \in Int : choice = IF m.want = NoItem THEN m.choice ELSE m.want
  BY <1>1
<1>3. p = PlacedAt(m, m.scroll, m.first, choice)
  <2>1. m = [m EXCEPT !.scroll = m.scroll, !.first = m.first, !.choice = m.choice]
    BY DEF Lists
  <2>2. [m EXCEPT !.choice = choice] = [m EXCEPT !.scroll = m.scroll, !.first = m.first, !.choice = choice]
    BY DEF Lists
  <2> QED
    BY <1>2, <2>1, <2>2 DEF Focused, PlacedAt
<1> QED
  BY <1>1, <1>2, <1>3, Placed

LEMMA RestoredParts ==
    ASSUME NEW m \in Lists, NEW p, p = Restored(m)
    PROVE  /\ p \in Lists /\ SameFrame(m, p) /\ Shown(p) = Shown(m)
           /\ \/ /\ m.saved <= m.choice /\ m.saved + Shown(m) > m.choice /\ m.saved + Shown(m) <= m.n
                 /\ p.scroll = m.saved /\ p.first = m.saved /\ p.choice = m.choice - m.saved
              \/ p.scroll = 0 /\ p.first = m.first /\ p.choice = m.choice
<1>1. m.choice \in Int /\ m.first \in Int /\ m.saved \in Nat /\ m.scroll \in Nat
  BY DEF Lists
<1> DEFINE C == m.saved <= m.choice /\ m.saved + Shown(m) > m.choice /\ m.saved + Shown(m) <= m.n
<1>2. CASE C
  <2>1. PICK choice \in Int : choice = m.choice - m.saved
    BY <1>1
  <2>2. p = PlacedAt(m, m.saved, m.saved, choice)
    BY <1>2, <2>1 DEF Restored, PlacedAt
  <2>3. /\ p \in Lists /\ SameFrame(m, p) /\ Shown(p) = Shown(m)
        /\ p.scroll = m.saved /\ p.first = m.saved /\ p.choice = choice
    BY <1>1, <2>2, Placed
  <2> QED
    BY <1>2, <2>1, <2>3
<1>3. CASE ~C
  <2>1. p = [m EXCEPT !.scroll = 0]
    BY <1>3 DEF Restored
  <2>2. p = PlacedAt(m, 0, m.first, m.choice)
    BY <2>1 DEF Lists, PlacedAt
  <2> QED
    BY <1>1, <2>2, Placed
<1> QED
  BY <1>2, <1>3

LEMMA CentredParts ==
    ASSUME NEW m \in Lists, NEW p, p = Centred(m)
    PROVE  /\ p \in Lists /\ SameFrame(m, p) /\ Shown(p) = Shown(m)
           /\ m.choice < Shown(m) => p.scroll = m.scroll /\ p.first = m.first /\ p.choice = m.choice
           /\ m.choice >= Shown(m) =>
                 /\ p.first = p.scroll /\ p.choice = m.choice - p.scroll
                 /\ p.scroll = IF m.choice >= m.n - Shown(m) \div 2 THEN m.n - Shown(m)
                               ELSE m.choice - Shown(m) \div 2
<1>1. /\ m.choice \in Int /\ m.n \in Nat /\ m.rows \in Nat /\ Shown(m) \in Nat
      /\ Shown(m) = (IF m.rows <= m.n THEN m.rows ELSE m.n)
  BY ShownOf DEF Lists
<1>2. CASE m.choice < Shown(m)
  <2>1. p = m
    BY <1>2 DEF Centred
  <2> QED
    BY <1>1, <1>2, <2>1 DEF SameFrame
<1>3. CASE ~(m.choice < Shown(m))
  <2>1. PICK half \in Nat : half = Shown(m) \div 2 /\ half <= Shown(m)
    BY <1>1
  <2>2. PICK top \in Nat : top = IF m.choice >= m.n - half THEN m.n - Shown(m) ELSE m.choice - half
    BY <1>1, <1>3, <2>1
  <2>3. PICK choice \in Int : choice = m.choice - top
    BY <1>1
  <2>4. p = PlacedAt(m, top, top, choice)
    BY <1>3, <2>1, <2>2, <2>3 DEF Centred, PlacedAt
  <2>5. /\ p \in Lists /\ SameFrame(m, p) /\ Shown(p) = Shown(m)
        /\ p.scroll = top /\ p.first = top /\ p.choice = choice
    BY <2>4, Placed
  <2> QED
    BY <1>1, <1>3, <2>1, <2>2, <2>3, <2>5
<1> QED
  BY <1>2, <1>3

\* A place for the list: on entries only, with the highlight on one, and on the
\* one wanted.
Placing(m) ==
    /\ m.first = m.scroll /\ m.scroll + Shown(m) <= m.n
    /\ m.choice >= 0 /\ (m.n > 0 => m.choice < Shown(m))
Aimed(m) == m.want # NoItem => m.want \in 0..m.n - 1 /\ m.scroll + m.choice = m.want

\* What dialog_menu works out from the entry wanted and the position saved.
Place(m) == Centred(Restored(Focused(m)))
LEMMA PlaceTypes ==
    ASSUME NEW m \in Lists, NEW p, p = Place(m)
    PROVE  p \in Lists /\ SameFrame(m, p)
<1>1. PICK f : f = Focused(m)
  OBVIOUS
<1>2. PICK r : r = Restored(f)
  OBVIOUS
<1>3. f \in Lists /\ SameFrame(m, f)
  BY <1>1, FocusedParts
<1>4. r \in Lists /\ SameFrame(f, r)
  BY <1>2, <1>3, RestoredParts
<1>5. p \in Lists /\ SameFrame(r, p)
  BY <1>1, <1>2, <1>4, CentredParts DEF Place
<1> QED
  BY <1>3, <1>4, <1>5 DEF SameFrame

LEMMA PlaceFits ==
    ASSUME NEW m \in Lists, m.rows >= 1, m.choice = 0, m.scroll = 0, m.first = 0,
           m.want = NoItem \/ m.want \in 0..m.n - 1, NEW p, p = Place(m)
    PROVE  Placing(p) /\ Aimed(p)
<1>1. PICK f : f = Focused(m)
  OBVIOUS
<1>2. PICK r : r = Restored(f)
  OBVIOUS
<1>3. /\ f \in Lists /\ SameFrame(m, f) /\ Shown(f) = Shown(m) /\ f.scroll = 0 /\ f.first = 0
      /\ f.choice = IF m.want = NoItem THEN 0 ELSE m.want
  BY <1>1, FocusedParts
<1>4. /\ r \in Lists /\ SameFrame(f, r) /\ Shown(r) = Shown(f)
      /\ \/ /\ f.saved <= f.choice /\ f.saved + Shown(f) > f.choice /\ f.saved + Shown(f) <= f.n
            /\ r.scroll = f.saved /\ r.first = f.saved /\ r.choice = f.choice - f.saved
         \/ r.scroll = 0 /\ r.first = f.first /\ r.choice = f.choice
  BY <1>2, <1>3, RestoredParts
<1>5. /\ p \in Lists /\ SameFrame(r, p) /\ Shown(p) = Shown(r)
      /\ r.choice < Shown(r) => p.scroll = r.scroll /\ p.first = r.first /\ p.choice = r.choice
      /\ r.choice >= Shown(r) =>
            /\ p.first = p.scroll /\ p.choice = r.choice - p.scroll
            /\ p.scroll = IF r.choice >= r.n - Shown(r) \div 2 THEN r.n - Shown(r)
                          ELSE r.choice - Shown(r) \div 2
  BY <1>1, <1>2, <1>4, CentredParts DEF Place
<1>6. p.n = m.n /\ p.want = m.want /\ r.n = m.n /\ f.n = m.n /\ Shown(p) = Shown(m) /\ Shown(r) = Shown(m)
  BY <1>3, <1>4, <1>5 DEF SameFrame
<1>7. PICK n \in Nat, s \in Nat : n = m.n /\ s = Shown(m) /\ s <= n /\ (n > 0 => s > 0)
  BY ShownOf DEF Lists
<1>8. PICK want \in Int : want = f.choice /\ want >= 0 /\ (n > 0 => want < n) /\ (n = 0 => want = 0)
                          /\ (m.want # NoItem => want = m.want)
  BY <1>3, <1>7 DEF Lists
<1>9. f.saved \in Nat /\ p.scroll \in Nat /\ p.choice \in Int
  BY <1>3, <1>5 DEF Lists
<1>10. CASE r.choice < Shown(r)
  <2>1. p.scroll = r.scroll /\ p.first = r.first /\ p.choice = r.choice /\ r.choice < s
    BY <1>5, <1>6, <1>7, <1>10
  <2>2. /\ p.first = p.scroll /\ p.scroll + s <= n /\ p.choice >= 0 /\ p.choice < s
        /\ p.scroll + p.choice = want
    BY <1>3, <1>4, <1>6, <1>7, <1>8, <1>9, <2>1
  <2> QED
    BY <1>6, <1>7, <1>8, <2>2 DEF Placing, Aimed
<1>11. CASE ~(r.choice < Shown(r))
  <2>1. r.choice = want /\ want >= s
    BY <1>3, <1>4, <1>6, <1>7, <1>8, <1>9, <1>11
  <2>2. /\ p.first = p.scroll /\ p.choice = want - p.scroll
        /\ p.scroll = IF want >= n - s \div 2 THEN n - s ELSE want - s \div 2
    BY <1>5, <1>6, <1>7, <2>1
  <2>3. PICK half \in Nat : half = s \div 2 /\ half + half <= s /\ s <= half + half + 1
    BY <1>7
  <2>4. /\ p.scroll + s <= n /\ p.choice >= 0 /\ (n > 0 => p.choice < s)
        /\ p.scroll + p.choice = want
    <3>1. CASE want >= n - half
      <4>1. p.scroll = n - s /\ p.choice = want - p.scroll
        BY <2>2, <2>3, <3>1
      <4>2. half + half <= s
        BY <2>3
      <4> QED
        BY <1>7, <1>8, <2>1, <3>1, <4>1, <4>2
    <3>2. CASE ~(want >= n - half)
      <4>1. p.scroll = want - half /\ p.choice = want - p.scroll
        BY <2>2, <2>3, <3>2
      <4>2. half + half <= s /\ s <= half + half + 1
        BY <2>3
      <4> QED
        BY <1>7, <1>8, <2>1, <3>2, <4>1, <4>2
    <3> QED
      BY <3>1, <3>2
  <2> QED
    BY <1>6, <1>7, <1>8, <2>2, <2>4 DEF Placing, Aimed
<1> QED
  BY <1>10, <1>11

LEMMA PrintAllParts ==
    ASSUME NEW m \in Lists, NEW p, p = PrintAll(m)
    PROVE  /\ p \in Lists /\ p.since = m.since /\ p.open \in {m.open, "crashed"}
           /\ m.first + Shown(m) <= m.n =>
                 /\ SameBox(m, p) /\ p.scroll = m.scroll /\ p.choice = m.choice
                 /\ DOMAIN p.screen = 0..m.rows - 1
                 /\ \A r \in 0..m.rows - 1 :
                       p.screen[r] = IF r < Shown(m) THEN [item |-> m.first + r, lit |-> r = m.choice] ELSE Blank
<1>1. m.first \in Int /\ m.n \in Nat /\ m.rows \in Nat /\ Shown(m) \in Nat
  BY ShownOf DEF Lists
<1>2. CASE m.first + Shown(m) > m.n
  <2>1. p = Crashed(m)
    BY <1>2 DEF PrintAll
  <2> QED
    BY <1>1, <1>2, <2>1, CrashedIsList
<1>3. CASE ~(m.first + Shown(m) > m.n)
  <2>1. PICK g : g = [r \in 0..m.rows - 1 |->
                         IF r < Shown(m) THEN [item |-> m.first + r, lit |-> r = m.choice] ELSE Blank]
    OBVIOUS
  <2>2. g \in [0..m.rows - 1 -> Cells]
    <3>1. \A r \in 0..m.rows - 1 : m.first + r \in Int
      BY <1>1
    <3> QED
      BY <2>1, <3>1 DEF Cells, Blank, NoItem
  <2>3. g \in Screens
    BY <1>1, <2>2 DEF Screens
  <2>4. p = [m EXCEPT !.screen = g]
    BY <1>3, <2>1 DEF PrintAll
  <2>5. /\ p \in Lists /\ p.since = m.since /\ p.screen = g /\ p.scroll = m.scroll /\ p.choice = m.choice
        /\ SameBox(m, p)
    BY <2>3, <2>4 DEF Lists, SameBox
  <2> QED
    BY <2>1, <2>5 DEF SameBox
<1> QED
  BY <1>2, <1>3

\* All the rows painted, at a place for the list.
LEMMA Drawn ==
    ASSUME NEW m \in Lists, m.rows >= 1, Placing(m), NEW p, p = PrintAll(m)
    PROVE  /\ p \in Lists /\ p.since = m.since /\ SameBox(m, p) /\ p.scroll = m.scroll /\ p.choice = m.choice
           /\ Fits(p) /\ RowsAre(p, p.choice) /\ (Aimed(m) => Focus(p))
<1>1. /\ m.scroll \in Nat /\ m.choice \in Int /\ m.n \in Nat /\ m.rows \in Nat /\ Shown(m) \in Nat
      /\ Shown(m) = (IF m.rows <= m.n THEN m.rows ELSE m.n)
      /\ m.first = m.scroll /\ m.scroll + Shown(m) <= m.n
      /\ m.choice >= 0 /\ (m.n > 0 => m.choice < Shown(m))
  BY ShownOf DEF Lists, Placing
<1>2. /\ p \in Lists /\ p.since = m.since
      /\ SameBox(m, p) /\ p.scroll = m.scroll /\ p.choice = m.choice
      /\ DOMAIN p.screen = 0..m.rows - 1
      /\ \A r \in 0..m.rows - 1 :
            p.screen[r] = IF r < Shown(m) THEN [item |-> m.scroll + r, lit |-> r = m.choice] ELSE Blank
  <2>1. m.first + Shown(m) <= m.n
    BY <1>1
  <2>2. /\ p \in Lists /\ p.since = m.since /\ p.open \in {m.open, "crashed"}
        /\ m.first + Shown(m) <= m.n =>
              /\ SameBox(m, p) /\ p.scroll = m.scroll /\ p.choice = m.choice
              /\ DOMAIN p.screen = 0..m.rows - 1
              /\ \A r \in 0..m.rows - 1 :
                    p.screen[r] = IF r < Shown(m) THEN [item |-> m.first + r, lit |-> r = m.choice] ELSE Blank
    BY PrintAllParts
  <2>3. m.first = m.scroll
    BY <1>1
  <2> QED
    BY <2>1, <2>2, <2>3
<1>3. Shown(p) = Shown(m) /\ p.rows = m.rows /\ p.n = m.n /\ p.want = m.want
  BY <1>2, SameShown DEF SameBox
<1>4. Fits(p)
  BY <1>1, <1>2, <1>3 DEF Fits
<1>5. RowsAre(p, p.choice)
  BY <1>2, <1>3 DEF RowsAre
<1>6. ASSUME Aimed(m) PROVE Focus(p)
  <2>1. ASSUME m.want # NoItem PROVE \E r \in DOMAIN p.screen : p.screen[r] = [item |-> p.want, lit |-> TRUE]
    <3>1. m.n > 0
      BY <1>1, <1>6, <2>1 DEF Aimed
    <3>2. m.choice \in 0..m.rows - 1 /\ m.choice < Shown(m)
      BY <1>1, <3>1
    <3>3. p.screen[m.choice] = [item |-> m.scroll + m.choice, lit |-> m.choice = m.choice]
      BY <1>2, <3>2
    <3>4. p.screen[m.choice] = [item |-> p.want, lit |-> TRUE]
      <4>1. (m.choice = m.choice) = TRUE
        OBVIOUS
      <4>2. m.scroll + m.choice = p.want
        BY <1>1, <1>3, <1>6, <2>1 DEF Aimed
      <4> QED
        BY <3>3, <4>1, <4>2
    <3> QED
      BY <1>2, <3>2, <3>4
  <2>2. ASSUME NEW r \in DOMAIN p.screen, p.screen[r].item = NoItem PROVE p.n < p.rows
    <3>1. r \in 0..m.rows - 1
      BY <1>2
    <3>2. CASE r < Shown(m)
      <4>1. p.screen[r] = [item |-> m.scroll + r, lit |-> r = m.choice]
        BY <1>2, <3>1, <3>2
      <4>2. p.screen[r].item = m.scroll + r
        BY <4>1
      <4> QED
        BY <1>1, <2>2, <3>1, <4>2 DEF NoItem
    <3>3. CASE ~(r < Shown(m))
      BY <1>1, <1>3, <3>1, <3>3
    <3> QED
      BY <3>2, <3>3
  <2> QED
    BY <1>3, <2>1, <2>2 DEF Focus
<1> QED
  BY <1>2, <1>4, <1>5, <1>6

LEMMA DrawMenuKeeps ==
    ASSUME NEW m \in Lists, m.rows >= 1, m.open = "menu", NEW q, q = DrawMenu(m),
           \/ m.since = "resized"
           \/ /\ m.choice = 0 /\ m.scroll = 0 /\ m.first = 0 /\ m.glow = m.button
              /\ m.want = NoItem \/ m.want \in 0..m.n - 1
    PROVE  Holds(q)
<1>1. PICK c : c = Place(m)
  OBVIOUS
<1>2. PICK p : p = PrintAll(c)
  OBVIOUS
<1>3. c \in Lists /\ SameFrame(m, c)
  BY <1>1, PlaceTypes
<1>4. p \in Lists /\ p.since = c.since /\ p.open \in {c.open, "crashed"}
  BY <1>2, <1>3, PrintAllParts
<1>5. /\ q \in Lists /\ q.since = p.since /\ SameView(p, q)
      /\ Fits(p) => q.up = (p.scroll > 0) /\ q.down = (p.scroll + Shown(p) < p.n)
  BY <1>1, <1>2, <1>4, MenuArrowsParts DEF DrawMenu, Place
<1>6. q.since = m.since /\ q.open \in {"menu", "crashed"}
  BY <1>3, <1>4, <1>5 DEF SameFrame, SameView, SameBox
<1>7. CASE m.since = "resized"
  BY <1>5, <1>6, <1>7 DEF Holds, Showing, Listed
<1>8. CASE m.since # "resized"
  <2>1. Placing(c) /\ Aimed(c)
    BY <1>1, <1>8, PlaceFits
  <2>2. SameBox(c, p) /\ Fits(p) /\ RowsAre(p, p.choice) /\ Focus(p)
    BY <1>2, <1>3, <1>8, <2>1, Drawn DEF SameFrame
  <2>3. Fits(q) /\ RowsAre(q, q.choice) /\ Focus(q) /\ Shown(q) = Shown(p)
    BY <1>5, <2>2, ViewKept
  <2>4. q.open = "menu" /\ q.glow = q.button
    BY <1>3, <1>5, <1>8, <2>2 DEF SameFrame, SameView, SameBox
  <2>5. q.up = (q.scroll > 0) /\ q.down = (q.scroll + Shown(q) < q.n)
    BY <1>5, <2>2, <2>3 DEF SameView, SameBox
  <2> QED
    BY <1>5, <2>3, <2>4, <2>5 DEF Holds, Showing, Listed, Right
<1> QED
  BY <1>7, <1>8

\* What dialog_checklist works out, from the entry wanted at first and from
\* the row highlighted after a resize.
Lined(m) == [Scrolled(m) EXCEPT !.first = Scrolled(m).scroll]
LEMMA ScrolledParts ==
    ASSUME NEW m \in Lists, m.rows >= 1, m.choice >= 0,
           NEW p, p = Lined(m)
    PROVE  /\ p \in Lists /\ SameFrame(m, p) /\ Shown(p) = Shown(m) /\ p.first = p.scroll
           /\ m.choice < m.rows => p.scroll = m.scroll /\ p.choice = m.choice
           /\ m.choice >= m.rows => p.scroll = m.choice - m.rows + 1 /\ p.choice = m.rows - 1
<1>1. m.rows \in Nat /\ m.choice \in Int /\ m.scroll \in Nat
  BY DEF Lists
<1>2. CASE m.choice < m.rows
  <2>1. Scrolled(m) = m
    BY <1>2 DEF Scrolled
  <2>2. p = PlacedAt(m, m.scroll, m.scroll, m.choice)
    BY <2>1 DEF Lined, PlacedAt, Lists
  <2>3. /\ p \in Lists /\ SameFrame(m, p) /\ Shown(p) = Shown(m)
        /\ p.scroll = m.scroll /\ p.first = m.scroll /\ p.choice = m.choice
    BY <1>1, <2>2, Placed
  <2> QED
    BY <1>1, <1>2, <2>3
<1>3. CASE ~(m.choice < m.rows)
  <2>1. PICK scroll \in Nat : scroll = m.choice - m.rows + 1
    BY <1>1, <1>3
  <2>2. PICK choice \in Int : choice = m.rows - 1
    BY <1>1
  <2>3. PICK x : x = [m EXCEPT !.scroll = scroll, !.choice = choice]
    OBVIOUS
  <2>4. Scrolled(m) = x
    BY <1>3, <2>1, <2>2, <2>3 DEF Scrolled
  <2>5. x.scroll = scroll
    BY <2>3 DEF Lists
  <2>6. p = PlacedAt(m, scroll, scroll, choice)
    BY <2>3, <2>4, <2>5 DEF Lined, PlacedAt, Lists
  <2>7. /\ p \in Lists /\ SameFrame(m, p) /\ Shown(p) = Shown(m)
        /\ p.scroll = scroll /\ p.first = scroll /\ p.choice = choice
    BY <2>6, Placed
  <2> QED
    BY <1>1, <1>3, <2>1, <2>2, <2>7
<1> QED
  BY <1>2, <1>3

LEMMA DrawListKeeps ==
    ASSUME NEW m \in Lists, m.rows >= 1, m.open = "list", m.n > 0, NEW q, q = DrawList(m),
           \/ m.since = "resized" /\ m.scroll + Shown(m) <= m.n /\ m.choice \in 0..Shown(m) - 1
           \/ /\ m.choice = m.want /\ m.want \in 0..m.n - 1 /\ m.scroll = 0 /\ m.glow = m.button
    PROVE  Holds(q)
<1>0. /\ m.n \in Nat /\ m.rows \in Nat /\ m.choice \in Int /\ m.scroll \in Nat /\ Shown(m) \in Nat
      /\ Shown(m) = (IF m.rows <= m.n THEN m.rows ELSE m.n) /\ m.choice >= 0
  BY ShownOf DEF Lists
<1>1. PICK c : c = Lined(m)
  OBVIOUS
<1>2. PICK p : p = PrintAll(c)
  OBVIOUS
<1>3. /\ c \in Lists /\ SameFrame(m, c) /\ Shown(c) = Shown(m) /\ c.first = c.scroll
      /\ m.choice < m.rows => c.scroll = m.scroll /\ c.choice = m.choice
      /\ m.choice >= m.rows => c.scroll = m.choice - m.rows + 1 /\ c.choice = m.rows - 1
  BY <1>0, <1>1, ScrolledParts
<1>4. Placing(c)
  <2>1. c.scroll + Shown(c) <= m.n /\ c.choice >= 0 /\ c.choice < Shown(c)
    BY <1>0, <1>3
  <2> QED
    BY <1>3, <2>1 DEF Placing, SameFrame
<1>5. /\ p \in Lists /\ p.since = c.since /\ SameBox(c, p) /\ p.scroll = c.scroll /\ p.choice = c.choice
      /\ Fits(p) /\ RowsAre(p, p.choice) /\ (Aimed(c) => Focus(p))
  BY <1>2, <1>3, <1>4, Drawn DEF SameFrame
<1>6. /\ q \in Lists /\ q.since = p.since /\ SameView(p, q)
      /\ q.up = (p.scroll > 0) /\ q.down = (p.rows < p.n /\ p.scroll + p.choice < p.n - 1)
  BY <1>1, <1>2, <1>5, ListArrowsParts DEF DrawList, Lined
<1>7. /\ Fits(q) /\ RowsAre(q, q.choice) /\ (Focus(p) => Focus(q)) /\ Shown(q) = Shown(p)
  BY <1>5, <1>6, ViewKept
<1>8. /\ q.since = m.since /\ q.open = "list" /\ q.n = m.n /\ q.rows = m.rows /\ q.want = m.want
      /\ q.button = m.button /\ q.glow = m.glow /\ q.scroll = c.scroll /\ q.choice = c.choice
  BY <1>3, <1>5, <1>6 DEF SameFrame, SameView, SameBox
<1>9. Painted(q)
  BY <1>7, <1>8 DEF Painted
<1>10. ASSUME q.since # "resized" PROVE Right(q) /\ Focus(q)
  <2>1. m.choice = m.want /\ m.want \in 0..m.n - 1 /\ m.scroll = 0 /\ m.glow = m.button
    BY <1>8, <1>10
  <2>2. c.scroll + c.choice = m.want
    BY <1>0, <1>3, <2>1
  <2>3. Aimed(c)
    BY <1>3, <2>1, <2>2 DEF Aimed, SameFrame
  <2>4. q.down = (q.scroll + Shown(q) < q.n)
    <3>1. Shown(q) = Shown(m) /\ p.rows = m.rows /\ p.n = m.n /\ p.scroll = c.scroll /\ p.choice = c.choice
      BY <1>3, <1>5, <1>7, SameShown DEF SameFrame, SameBox
    <3>2. (m.rows < m.n /\ c.scroll + c.choice < m.n - 1) <=> (c.scroll + Shown(m) < m.n)
      <4>1. CASE m.choice < m.rows
        BY <1>0, <1>3, <2>1, <4>1
      <4>2. CASE ~(m.choice < m.rows)
        BY <1>0, <1>3, <2>1, <4>2
      <4> QED
        BY <4>1, <4>2
    <3>3. q.down = (m.rows < m.n /\ c.scroll + c.choice < m.n - 1)
      BY <1>6, <3>1
    <3>4. q.down = (c.scroll + Shown(m) < m.n)
      BY <3>2, <3>3
    <3> QED
      BY <1>8, <3>1, <3>4
  <2>5. q.up = (q.scroll > 0) /\ q.glow = q.button
    BY <1>6, <1>8, <2>1 DEF SameView
  <2> QED
    BY <1>5, <1>7, <2>3, <2>4, <2>5 DEF Right
<1> QED
  BY <1>6, <1>8, <1>9, <1>10 DEF Holds, Showing, Listed

-----------------------------------------------------------------------------
(* The steps *)

\* A list that is closed is as good as a new one.
LEMMA ClosedHolds ==
    ASSUME NEW saved \in Nat, NEW q, q = [Shut EXCEPT !.saved = saved]
    PROVE  Holds(q)
<1>1. q \in Lists /\ q.open = "no"
  BY ShutIsList DEF Lists
<1> QED
  BY <1>1 DEF Holds, Showing, Listed

\* Another button painted as selected.
LEMMA ButtonHolds ==
    ASSUME NEW m, Holds(m), NEW b \in Int, NEW q, q = Touched([m EXCEPT !.button = b, !.glow = b])
    PROVE  Holds(q)
<1>0. m \in Lists
  BY DEF Holds
<1>1. PICK p : p = [m EXCEPT !.button = b, !.glow = b]
  OBVIOUS
<1>2. /\ p \in Lists /\ p.since = m.since /\ p.open = m.open /\ p.n = m.n /\ p.rows = m.rows
      /\ p.scroll = m.scroll /\ p.choice = m.choice /\ p.screen = m.screen /\ p.up = m.up /\ p.down = m.down
      /\ p.button = b /\ p.glow = b
  BY <1>0, <1>1 DEF Lists
<1>3. /\ q \in Lists /\ SameView(p, q) /\ q.up = p.up /\ q.down = p.down
      /\ q.since # "opened" /\ (q.since = "resized" <=> p.since = "resized")
  BY <1>1, <1>2, TouchedParts
<1>4. Shown(q) = Shown(m) /\ Shown(p) = Shown(m)
  BY <1>2, <1>3 DEF Shown, SameView, SameBox
<1>5. (Fits(m) => Fits(q)) /\ (RowsAre(m, m.choice) => RowsAre(q, q.choice))
  BY <1>2, <1>3, <1>4 DEF Fits, RowsAre, SameView, SameBox
<1>6. Right(m) => Right(q)
  BY <1>2, <1>3, <1>4, <1>5 DEF Right, SameView, SameBox
<1> QED
  BY <1>2, <1>3, <1>5, <1>6 DEF Holds, Showing, Listed, Painted, SameView, SameBox

\* A list to be redrawn after a resize.
Resized(m, rows) == [m EXCEPT !.rows = rows, !.glow = 0, !.since = "resized"]
LEMMA ResizedParts ==
    ASSUME NEW m \in Lists, NEW rows \in Nat,
           NEW p, p = Resized(m, rows)
    PROVE  /\ p \in Lists /\ p.open = m.open /\ p.n = m.n /\ p.rows = rows /\ p.since = "resized"
           /\ p.scroll = m.scroll /\ p.choice = m.choice
<1>1. PICK glow \in Int : glow = 0
  OBVIOUS
<1>2. PICK since \in Since : since = "resized"
  BY DEF Since
<1>3. p = [m EXCEPT !.rows = rows, !.glow = glow, !.since = since]
  BY <1>1, <1>2 DEF Resized
<1>4. /\ p \in Lists /\ p.open = m.open /\ p.n = m.n /\ p.rows = rows /\ p.since = since
      /\ p.scroll = m.scroll /\ p.choice = m.choice
  BY <1>3 DEF Lists
<1> QED
  BY <1>2, <1>4

LEMMA ShutHolds == Holds(Shut)
  BY ShutIsList DEF Holds, Showing, Listed

LEMMA MenuInductive == MenuInv /\ [MenuNext]_mb => MenuInv'
<1> SUFFICES ASSUME Holds(mb), [MenuNext]_mb PROVE Holds(mb')
  BY DEF MenuInv, Holds, Showing, Listed, Right, Painted, Focus, Fits, RowsAre, Shown
<1> USE MenuAssumption
<1>1. /\ mb \in Lists /\ Showing(mb) /\ mb.n \in Nat /\ mb.rows \in Nat /\ mb.scroll \in Nat /\ mb.choice \in Int
      /\ mb.saved \in Nat /\ mb.button \in Int /\ Shown(mb) \in Nat
  BY ShownOf DEF Lists, Holds
<1>2. PICK u : u = Unlit(mb)
  OBVIOUS
<1>3. u \in Lists /\ (Painted(mb) => Dark(u) /\ SameBox(mb, u))
  BY <1>1, <1>2, UnlitDark
<1>4. CASE OpenMenu
  <2>1. PICK n \in 0..MaxItems, rows \in MenuRows, saved \in {0, mb.saved} :
           \E want \in {NoItem} \cup 0..n - 1 :
              mb' = DrawMenu([Shut EXCEPT !.open = "menu", !.n = n, !.rows = rows,
                                          !.want = want, !.saved = saved])
    BY <1>4 DEF OpenMenu
  <2>2. PICK want \in {NoItem} \cup 0..n - 1 :
              mb' = DrawMenu([Shut EXCEPT !.open = "menu", !.n = n, !.rows = rows,
                                          !.want = want, !.saved = saved])
    BY <2>1
  <2>3. PICK m : m = [Shut EXCEPT !.open = "menu", !.n = n, !.rows = rows, !.want = want, !.saved = saved]
    OBVIOUS
  <2>4. n \in Nat /\ rows \in Nat /\ rows >= 1 /\ saved \in Nat /\ want \in Int
    BY <1>1 DEF NoItem
  <2>5. /\ m \in Lists /\ m.open = "menu" /\ m.n = n /\ m.rows = rows /\ m.want = want
        /\ m.choice = 0 /\ m.scroll = 0 /\ m.first = 0 /\ m.glow = m.button
    BY <2>3, <2>4, ShutIsList DEF Lists
  <2> QED
    BY <2>2, <2>3, <2>4, <2>5, DrawMenuKeeps
<1>5. CASE KeyUp
  <2>1. Follows(u, LineUp(u))
    BY <1>3, LineUpFollows
  <2> QED
    BY <1>1, <1>2, <1>5, <2>1, MenuMoves DEF KeyUp, InMenu, MoveTo
<1>6. CASE KeyDown
  <2>1. Follows(u, LineDown(u))
    BY <1>3, LineDownFollows
  <2> QED
    BY <1>1, <1>2, <1>6, <2>1, MenuMoves DEF KeyDown, InMenu, MoveTo
<1>7. CASE KeyPageUp
  <2>1. Follows(u, PageUp(u))
    BY <1>3, PageUpFollows
  <2> QED
    BY <1>1, <1>2, <1>7, <2>1, MenuMoves DEF KeyPageUp, InMenu, MoveTo
<1>8. CASE KeyPageDown
  <2>1. Follows(u, PageDown(u))
    BY <1>3, PageDownFollows
  <2> QED
    BY <1>1, <1>2, <1>8, <2>1, MenuMoves DEF KeyPageDown, InMenu, MoveTo
<1>9. CASE HotKey
  <2>1. PICK row \in 0..Shown(mb) - 1 : mb' = Touched(MenuArrows(Lit([u EXCEPT !.choice = row])))
    BY <1>2, <1>9 DEF HotKey, MoveTo
  <2>2. PICK p : p = [u EXCEPT !.choice = row]
    OBVIOUS
  <2>3. mb.n # 0 /\ mb.open = "menu" /\ row \in Int
    BY <1>1, <1>9, ShownOf DEF HotKey, InMenu
  <2>4. Follows(u, p)
    <3>1. Dark(u) => row \in 0..Shown(u) - 1
      BY <1>1, <1>2, UnlitShown
    <3> QED
      BY <1>3, <2>2, <2>3, <3>1, ChoiceMoved
  <2> QED
    BY <1>1, <1>2, <2>1, <2>2, <2>3, <2>4, MenuMoves
<1>10. CASE MenuButton
  <2>1. PICK b \in {(mb.button + 1) % 5, (mb.button + 4) % 5} : mb' = Touched([mb EXCEPT !.button = b, !.glow = b])
    BY <1>10 DEF MenuButton
  <2>2. b \in Int
    BY <1>1
  <2> QED
    BY <2>1, <2>2, ButtonHolds
<1>11. CASE MenuReturn
  BY <1>1, <1>11, ClosedHolds DEF MenuReturn
<1>12. CASE MenuEscape
  BY <1>12, ShutHolds DEF MenuEscape
<1>13. CASE MenuResize
  <2>1. CASE mb' = Shut
    BY <2>1, ShutHolds
  <2>2. ASSUME NEW rows \in MenuRows, mb' = DrawMenu([mb EXCEPT !.rows = rows, !.glow = 0, !.since = "resized"])
        PROVE  Holds(mb')
    <3>1. PICK m : m = Resized(mb, rows)
      OBVIOUS
    <3>2. rows \in Nat /\ rows >= 1
      OBVIOUS
    <3>3. /\ m \in Lists /\ m.open = mb.open /\ m.n = mb.n /\ m.rows = rows /\ m.since = "resized"
          /\ m.scroll = mb.scroll /\ m.choice = mb.choice
      <4>1. mb \in Lists /\ rows \in Nat
        BY <1>1, <3>2
      <4> QED
        BY <3>1, <4>1, ResizedParts
    <3> QED
      BY <1>13, <2>2, <3>1, <3>2, <3>3, DrawMenuKeeps DEF MenuResize, InMenu, Resized
  <2> QED
    BY <1>13, <2>1, <2>2 DEF MenuResize
<1>14. CASE OpenList
  <2>1. PICK n \in 1..MaxItems : \E want \in 0..n - 1 :
           mb' = DrawList([Shut EXCEPT !.open = "list", !.n = n, !.rows = ListRows,
                                       !.want = want, !.choice = want, !.saved = mb.saved])
    BY <1>14 DEF OpenList
  <2>2. PICK want \in 0..n - 1 :
           mb' = DrawList([Shut EXCEPT !.open = "list", !.n = n, !.rows = ListRows,
                                       !.want = want, !.choice = want, !.saved = mb.saved])
    BY <2>1
  <2>3. PICK m : m = [Shut EXCEPT !.open = "list", !.n = n, !.rows = ListRows,
                                  !.want = want, !.choice = want, !.saved = mb.saved]
    OBVIOUS
  <2>4. n \in Nat /\ n > 0 /\ ListRows \in Nat /\ ListRows >= 1 /\ want \in Int
    OBVIOUS
  <2>5. /\ m \in Lists /\ m.open = "list" /\ m.n = n /\ m.rows = ListRows /\ m.want = want
        /\ m.choice = want /\ m.scroll = 0 /\ m.glow = m.button
    BY <1>1, <2>3, <2>4, ShutIsList DEF Lists
  <2> QED
    BY <2>2, <2>3, <2>4, <2>5, DrawListKeeps
<1>15. CASE ListUp
  <2>1. CASE mb.choice > 0 /\ ListGo(mb.choice - 1)
    <3>1. mb.open = "list" /\ Painted(mb)
      BY <1>15 DEF ListUp, InList, Holds, Listed
    <3>2. PICK row \in Int : row = mb.choice - 1 /\ row \in 0..Shown(mb) - 1
      BY <1>1, <2>1, <3>1 DEF Painted, Fits
    <3> QED
      BY <2>1, <3>1, <3>2, ListMoves DEF ListGo
  <2>2. CASE /\ mb.choice = 0 /\ mb.scroll > 0
             /\ mb' = Touched(ListArrows(Lit(DoScroll(Unlit(mb), -1))))
    BY <1>15, <2>2, ListPastTop DEF ListUp, InList
  <2> QED
    BY <1>15, <2>1, <2>2 DEF ListUp
<1>16. CASE ListDown
  <2>1. CASE mb.choice < Shown(mb) - 1 /\ ListGo(mb.choice + 1)
    <3>1. mb.open = "list" /\ Painted(mb)
      BY <1>16 DEF ListDown, InList, Holds, Listed
    <3>2. PICK row \in Int : row = mb.choice + 1 /\ row \in 0..Shown(mb) - 1
      BY <1>1, <2>1, <3>1 DEF Painted, Fits
    <3> QED
      BY <2>1, <3>1, <3>2, ListMoves DEF ListGo
  <2>2. CASE /\ mb.choice = Shown(mb) - 1 /\ mb.scroll + mb.choice < mb.n - 1
             /\ mb' = Touched(ListArrows(Lit(DoScroll(Unlit(mb), 1))))
    BY <1>16, <2>2, ListPastBottom DEF ListDown, InList
  <2> QED
    BY <1>16, <2>1, <2>2 DEF ListDown
<1>17. CASE ListHotKey
  <2>1. PICK row \in 0..Shown(mb) - 1 : ListGo(row)
    BY <1>17 DEF ListHotKey
  <2> QED
    BY <1>17, <2>1, ListMoves DEF ListHotKey, InList, ListGo
<1>18. CASE ListButton
  <2>1. PICK b \in Int : b = 1 - mb.button
    BY <1>1
  <2>2. mb' = Touched([mb EXCEPT !.button = b, !.glow = b])
    BY <1>18, <2>1 DEF ListButton
  <2> QED
    BY <2>2, ButtonHolds
<1>19. CASE ListClose
  BY <1>1, <1>19, ClosedHolds DEF ListClose
<1>20. CASE ListResize
  <2>0. PICK m : m = Resized(mb, mb.rows)
    OBVIOUS
  <2>1. m = [mb EXCEPT !.glow = 0, !.since = "resized"]
    BY <1>1, <2>0 DEF Lists, Resized
  <2>2. /\ m \in Lists /\ m.open = mb.open /\ m.n = mb.n /\ m.rows = mb.rows /\ m.since = "resized"
        /\ m.scroll = mb.scroll /\ m.choice = mb.choice
    <3>1. mb \in Lists /\ mb.rows \in Nat
      BY <1>1
    <3> QED
      BY <2>0, <3>1, ResizedParts
  <2>3. Shown(m) = Shown(mb)
    BY <2>2 DEF Shown
  <2>4. m.open = "list" /\ m.n > 0 /\ m.rows >= 1 /\ m.scroll + Shown(m) <= m.n /\ m.choice \in 0..Shown(m) - 1
    BY <1>1, <1>20, <2>2, <2>3 DEF ListResize, InList, Holds, Listed, Painted, Fits
  <2> QED
    BY <1>20, <2>1, <2>2, <2>4, DrawListKeeps DEF ListResize
<1>21. CASE UNCHANGED mb
  BY <1>21
<1> QED
  BY <1>4, <1>5, <1>6, <1>7, <1>8, <1>9, <1>10, <1>11, <1>12, <1>13, <1>14, <1>15, <1>16, <1>17, <1>18,
     <1>19, <1>20, <1>21 DEF MenuNext

LEMMA MenuShows == MenuInv => ScreenShowsMenu
<1> SUFFICES ASSUME MenuInv, mb.open # "no", mb.since # "resized"
             PROVE  mb.open # "crashed" /\ RowsRight /\ (mb.since = "opened" => FocusKept)
  BY DEF ScreenShowsMenu
<1>1. mb.open \in {"menu", "list"} /\ Right(mb) /\ (mb.since = "opened" => Focus(mb))
  BY DEF MenuInv, Holds, Showing
<1>2. RowsRight
  BY <1>1 DEF RowsRight, Right, Fits, RowsAre
<1> QED
  BY <1>1, <1>2 DEF FocusKept, Focus

\* In dialog_menu and dialog_checklist the screen shows the list, whatever its
\* length, the height of the window, the keys pressed and the position saved by
\* the menus before: the rows that a scroll moves and the one or two repainted
\* after it are together what repainting everything would give, and no row past
\* the last entry is printed.
THEOREM ScreenIsRight == MenuSpec => []ScreenShowsMenu
<1>1. MenuInit => MenuInv
  BY ShutHolds DEF MenuInit, MenuInv
<1>2. MenuInv /\ [MenuNext]_mb => MenuInv'
  BY MenuInductive
<1>3. MenuInv => ScreenShowsMenu
  BY MenuShows
<1> QED
  BY <1>1, <1>2, <1>3, PTL DEF MenuSpec

=============================================================================
