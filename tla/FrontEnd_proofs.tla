-------------------------- MODULE FrontEnd_proofs --------------------------
(***************************************************************************)
(* A session of mconf or nconf loses nothing without a word, for every set *)
(* of file names and configurations and any depth of calls; and the menus  *)
(* of nconf, for every number of entries and every terminal: the current   *)
(* entry is on the page however the list was rebuilt, and a search goes to *)
(* the nearest match.                                                      *)
(***************************************************************************)
EXTENDS EditorSession, NconfMenu, TLAPS, WellFoundedInduction

(***************************************************************************)
(* The session                                                             *)
(***************************************************************************)

Values == Contents \cup {NoFile}
Callable ==
    {"conf", "choice", "string", "search", "save", "load", "results", "exit", "interrupt", "stuck"}
Sessions ==
    [front : {"none", "mconf", "nconf"}, calls : Seq(Callable), mem : Values, changed : BOOLEAN,
     disk : [Files -> Values], filename : Files, forgotten : BOOLEAN,
     over : {"not started", "no", "quietly", "not saved"}]

\* what every state of a session is
Formed(e) == e \in Sessions

\* NothingLostSilently of a state
Kept(e) == (~e.changed \/ e.over = "quietly") /\ ~e.forgotten => e.disk[e.filename] = e.mem

SessionInv == Formed(ed) /\ Kept(ed)

LEMMA Fields ==
    ASSUME NEW e, Formed(e)
    PROVE  /\ e.calls \in Seq(Callable) /\ e.mem \in Values /\ e.changed \in BOOLEAN
           /\ e.disk \in [Files -> Values] /\ e.filename \in Files /\ e.forgotten \in BOOLEAN
BY DEF Formed, Sessions

LEMMA Appends == ASSUME NEW S, NEW s \in Seq(S), NEW c \in S PROVE Append(s, c) \in Seq(S)
OBVIOUS

LEMMA Fronts == ASSUME NEW S, NEW s \in Seq(S) PROVE Front(s) \in Seq(S)
BY DEF Front

LEMMA OneCall == <<>> \in Seq(Callable) /\ <<"conf">> \in Seq(Callable)
<1>1. "conf" \in Callable /\ <<>> \in Seq(Callable)
  BY DEF Callable
<1>2. Append(<<>>, "conf") \in Seq(Callable)
  BY <1>1, Appends
<1>3. Append(<<>>, "conf") = <<"conf">>
  OBVIOUS
<1> QED
  BY <1>1, <1>2, <1>3

\* A call or a return changes neither the values nor the files.
LEMMA CallsOnly ==
    ASSUME NEW e, NEW calls \in Seq(Callable), Formed(e), Kept(e)
    PROVE  Formed([e EXCEPT !.calls = calls]) /\ Kept([e EXCEPT !.calls = calls])
BY DEF Formed, Sessions, Kept

LEMMA Calling ==
    ASSUME NEW e, NEW call \in Callable, Formed(e), Kept(e)
    PROVE  Formed(Called(e, call)) /\ Kept(Called(e, call))
<1>1. Called(e, call) = [e EXCEPT !.calls = Append(e.calls, call)]
  BY DEF Called, Formed, Sessions
<1>2. Append(e.calls, call) \in Seq(Callable)
  BY Fields, Appends
<1> QED
  BY <1>1, <1>2, CallsOnly

LEMMA Returning ==
    ASSUME NEW e, Formed(e), Kept(e)
    PROVE  Formed(Returned(e)) /\ Kept(Returned(e))
<1>1. Returned(e) = [e EXCEPT !.calls = Front(e.calls)]
  BY DEF Returned, Formed, Sessions
<1>2. Front(e.calls) \in Seq(Callable)
  BY Fields, Fronts
<1> QED
  BY <1>1, <1>2, CallsOnly

\* The program may end without a word when nothing changed, and with one always.
LEMMA Ending ==
    ASSUME NEW e, Formed(e), Kept(e), e.over = "no"
    PROVE  /\ ~e.changed => Formed(Over(e, "quietly")) /\ Kept(Over(e, "quietly"))
           /\ Formed(Over(e, "not saved")) /\ Kept(Over(e, "not saved"))
<1>1. <<>> \in Seq(Callable)
  OBVIOUS
<1>2. Formed(Over(e, "quietly")) /\ Formed(Over(e, "not saved"))
  BY <1>1 DEF Formed, Sessions, Over
<1>3. Kept(Over(e, "not saved"))
  BY DEF Formed, Sessions, Over, Kept
<1>4. ~e.changed => Kept(Over(e, "quietly"))
  BY DEF Formed, Sessions, Over, Kept
<1> QED
  BY <1>2, <1>3, <1>4

LEMMA AskingKeeps ==
    ASSUME NEW e, NEW call \in Callable, Formed(e), Kept(e), e.over = "no"
    PROVE  Formed(Asking(e, call)) /\ Kept(Asking(e, call))
BY Calling, Ending DEF Asking

\* A value that changes is counted.
LEMMA Valuing ==
    ASSUME NEW e, NEW mem \in Values, Formed(e), Kept(e), e.over = "no"
    PROVE  Formed(Valued(e, mem)) /\ Kept(Valued(e, mem))
<1>1. Formed(Valued(e, mem))
  BY DEF Formed, Sessions, Valued
<1>2. Kept(Valued(e, mem))
  BY DEF Formed, Sessions, Valued, Kept
<1> QED
  BY <1>1, <1>2

\* Writing the file of the title, or a file that becomes the title.
LEMMA Writing ==
    ASSUME NEW e, NEW name \in Files, Formed(e), e.over = "no"
    PROVE  /\ name = e.filename => Kept(Written(e, name))
           /\ Formed(Written(e, name)) /\ ~Written(e, name).changed /\ Written(e, name).over = "no"
           /\ Formed(Saved(e, name)) /\ Kept(Saved(e, name))
<1>1. [e.disk EXCEPT ![name] = e.mem] \in [Files -> Values] /\ [e.disk EXCEPT ![name] = e.mem][name] = e.mem
  BY Fields
<1>2. Written(e, name) = [e EXCEPT !.disk = [e.disk EXCEPT ![name] = e.mem], !.changed = FALSE, !.forgotten = FALSE]
  BY DEF Written, Formed, Sessions
<1>3. Formed(Written(e, name)) /\ ~Written(e, name).changed /\ Written(e, name).over = "no"
  BY <1>1, <1>2 DEF Formed, Sessions
<1>4. name = e.filename => Kept(Written(e, name))
  BY <1>1, <1>2 DEF Formed, Sessions, Kept
<1>5. Front(e.calls) \in Seq(Callable)
  BY Fields, Fronts
<1>6. Saved(e, name) = [e EXCEPT !.disk = [e.disk EXCEPT ![name] = e.mem], !.changed = FALSE, !.forgotten = FALSE,
                                 !.calls = Front(e.calls), !.filename = name]
  BY <1>2 DEF Saved, Returned, Formed, Sessions
<1>7. Formed(Saved(e, name)) /\ Kept(Saved(e, name))
  BY <1>1, <1>5, <1>6 DEF Formed, Sessions, Kept
<1> QED
  BY <1>3, <1>4, <1>7

\* A write that failed is as if not tried, or makes the count tell of it.
LEMMA Failing ==
    ASSUME NEW e, NEW name \in Files, NEW u \in Unwritten(e, name), Formed(e), Kept(e), e.over = "no"
    PROVE  Formed(u) /\ Kept(u) /\ u.over = "no"
<1>1. CASE u = e
  BY <1>1
<1>2. CASE \E kept \in {NoFile, e.disk[name]} :
              u = [e EXCEPT !.disk[name] = kept, !.changed = TRUE, !.forgotten = FALSE]
  <2>1. PICK kept \in {NoFile, e.disk[name]} :
              u = [e EXCEPT !.disk[name] = kept, !.changed = TRUE, !.forgotten = FALSE]
    BY <1>2
  <2>2. kept \in Values /\ [e.disk EXCEPT ![name] = kept] \in [Files -> Values]
    BY Fields DEF Values
  <2>3. u = [e EXCEPT !.disk = [e.disk EXCEPT ![name] = kept], !.changed = TRUE, !.forgotten = FALSE]
    BY <2>1 DEF Formed, Sessions
  <2> QED
    BY <2>2, <2>3 DEF Formed, Sessions, Kept
<1> QED
  BY <1>1, <1>2 DEF Unwritten

\* A load makes the count tell of it, or the state of what it made forget.
LEMMA Loading ==
    ASSUME NEW e, NEW name \in Files, Formed(e), Kept(e), e.over = "no"
    PROVE  /\ Formed(Loaded(e, name)) /\ Kept(Loaded(e, name))
           /\ Formed(Unloaded(e)) /\ Kept(Unloaded(e))
<1>1. Front(e.calls) \in Seq(Callable) /\ e.disk[name] \in Values
  BY Fields, Fronts
<1>2. Loaded(e, name) = [e EXCEPT !.calls = Front(e.calls), !.mem = e.disk[name], !.filename = name,
                                  !.changed = TRUE, !.forgotten = FALSE]
  BY DEF Loaded, Returned, Formed, Sessions
<1>3. Formed(Loaded(e, name)) /\ Kept(Loaded(e, name))
  BY <1>1, <1>2 DEF Formed, Sessions, Kept
<1>4. Unloaded(e) = [e EXCEPT !.changed = FALSE, !.forgotten = e.forgotten \/ e.changed]
  BY DEF Unloaded, Formed, Sessions
<1>5. Formed(Unloaded(e))
  BY <1>4 DEF Formed, Sessions
<1>6. Kept(Unloaded(e))
  BY <1>4 DEF Formed, Sessions, Kept
<1> QED
  BY <1>3, <1>5, <1>6

LEMMA WritingOver ==
    ASSUME NEW e, NEW w \in WrittenOver(e), Formed(e), Kept(e), e.over = "no"
    PROVE  Formed(w) /\ Kept(w)
<1>1. e.filename \in Files
  BY Fields
<1>2. CASE w = Over(Written(e, e.filename), "quietly")
  BY <1>1, <1>2, Writing, Ending
<1>3. CASE \E u \in Unwritten(e, e.filename) : w = Over(u, "not saved")
  BY <1>1, <1>3, Failing, Ending
<1> QED
  BY <1>2, <1>3 DEF WrittenOver

\* SessionInv holds at the start and through every step.
LEMMA SessionInductive == SessionInv /\ [SessionNext]_ed => SessionInv'
<1> SUFFICES ASSUME SessionInv, [SessionNext]_ed PROVE SessionInv'
  OBVIOUS
<1> USE DEF SessionInv
<1>1. CASE Main
  <2>1. PICK front \in {"mconf", "nconf"}, mem \in Contents, disk \in [Files -> Contents \cup {NoFile}] :
            \E changed \in {TRUE, disk[Config] # mem} :
               ed' = [ed EXCEPT !.front = front, !.calls = <<"conf">>, !.mem = mem, !.changed = changed,
                                !.disk = disk, !.filename = Config, !.over = "no"]
    BY <1>1 DEF Main
  <2>2. PICK changed \in {TRUE, disk[Config] # mem} :
               ed' = [ed EXCEPT !.front = front, !.calls = <<"conf">>, !.mem = mem, !.changed = changed,
                                !.disk = disk, !.filename = Config, !.over = "no"]
    BY <2>1
  <2>3. mem \in Values /\ changed \in BOOLEAN /\ disk \in [Files -> Values]
    BY SessionAssumption DEF Values
  <2>4. Formed(ed')
    BY <2>2, <2>3, OneCall, SessionAssumption DEF Formed, Sessions
  <2>5. ed'.mem = mem /\ ed'.changed = changed /\ ed'.disk = disk /\ ed'.over = "no" /\ ed'.filename = Config
    BY <2>2 DEF Formed, Sessions
  <2> QED
    BY <2>4, <2>5 DEF Kept
<1>2. CASE Call \/ CallKey \/ JumpTo \/ TooSmall
  BY <1>2, Calling DEF Call, CallKey, JumpTo, TooSmall, Callable
<1>3. CASE LeaveCall \/ LeaveSubmenu
  BY <1>3, Returning DEF LeaveCall, LeaveSubmenu
<1>4. CASE Found
  BY <1>4, Returning, Calling DEF Found, Callable
<1>5. CASE SetTristate
  BY <1>5, Valuing DEF SetTristate, Running, Values
<1>6. CASE SetChoice \/ SetString
  BY <1>6, Valuing, Returning DEF SetChoice, SetString, Running, Values
<1>7. CASE Save
  BY <1>7, Writing, Failing DEF Save, Running
<1>8. CASE Load
  BY <1>8, Loading DEF Load, Running
<1>9. CASE LeaveMconf \/ LeaveNroot
  <2>1. Formed([ed EXCEPT !.calls = <<>>]) /\ Kept([ed EXCEPT !.calls = <<>>]) /\ [ed EXCEPT !.calls = <<>>].over = "no"
    BY <1>9, OneCall, CallsOnly DEF LeaveMconf, LeaveNroot, On, Formed, Sessions
  <2> QED
    BY <1>9, <2>1, AskingKeeps DEF LeaveMconf, LeaveNroot, Callable
<1>10. CASE Interrupt \/ ExitKey
  BY <1>10, AskingKeeps DEF Interrupt, ExitKey, On, Callable
<1>11. CASE AnswerMconf
  <2>1. ed.over = "no" /\ <<"conf">> \in Seq(Callable)
    BY <1>11, OneCall DEF AnswerMconf, On
  <2>2. CASE ed' \in WrittenOver(ed) \/ ed' = Over(ed, "not saved")
    BY <2>1, <2>2, WritingOver, Ending
  <2>3. CASE ed' = [ed EXCEPT !.calls = <<"conf">>]
    BY <2>1, <2>3, CallsOnly
  <2> QED
    BY <1>11, <2>2, <2>3 DEF AnswerMconf
<1>12. CASE AnswerNconf
  <2>1. ed.over = "no" /\ <<"conf">> \in Seq(Callable) /\ Front(ed.calls) \in Seq(Callable)
    BY <1>12, OneCall, Fields, Fronts DEF AnswerNconf, On
  <2>2. CASE ed' \in WrittenOver(ed) \/ ed' = Over(ed, "not saved")
    BY <2>1, <2>2, WritingOver, Ending
  <2>3. CASE ed' = [ed EXCEPT !.calls = IF Len(@) = 1 THEN <<"conf">> ELSE Front(@)]
    <3>1. ed' = [ed EXCEPT !.calls = IF Len(ed.calls) = 1 THEN <<"conf">> ELSE Front(ed.calls)]
      BY <2>3 DEF Formed, Sessions
    <3> QED
      BY <2>1, <3>1, CallsOnly
  <2> QED
    BY <1>12, <2>2, <2>3 DEF AnswerNconf
<1>13. CASE UNCHANGED ed
  BY <1>13
<1> QED
  BY <1>1, <1>2, <1>3, <1>4, <1>5, <1>6, <1>7, <1>8, <1>9, <1>10, <1>11, <1>12, <1>13 DEF SessionNext

\* While the change count is zero, and when the program ended without a word,
\* the file of the title holds the values on the screen, unless a load failed:
\* what the question at the end of mconf and nconf relies on.
THEOREM NothingIsLost == SessionSpec => []NothingLostSilently
<1>1. ASSUME SessionInit PROVE SessionInv
  <2>1. Formed(ed)
    BY <1>1, OneCall, SessionAssumption DEF SessionInit, Formed, Sessions, Values
  <2>2. Kept(ed)
    BY <1>1, SessionAssumption DEF SessionInit, Kept
  <2> QED
    BY <2>1, <2>2 DEF SessionInv
<1>2. SessionInv => NothingLostSilently
  BY DEF SessionInv, Kept, NothingLostSilently
<1> QED
  BY <1>1, <1>2, SessionInductive, PTL DEF SessionSpec

(***************************************************************************)
(* The menus of nconf                                                      *)
(***************************************************************************)

Flags  == {"tinker down", "tinker up", "next down", "next up"}
States == {"no", "conf", "choice", "endless", "crashed"}
Hits   == SUBSET Int
Asks   == [from : Int, dir : {"up", "down"}, next : BOOLEAN]

\* what every state of a menu is
Menus ==
    [open : States, n : Nat, lines : Int, format : Nat, top : Int, at : Int, index : Int, row : Int,
     searching : BOOLEAN, hits : Hits, dir : Flags, asked : Asks, fresh : BOOLEAN]

\* The first row of a list with entries, which leaves no row of the page empty
\* while the terminal has room for one.
TopFits(m) ==
    /\ m.n >= 1 /\ m.format >= 1 /\ m.top \in 0..m.n - 1
    /\ m.lines > 0 => m.format = m.lines /\ m.top \in 0..m.n - Rows(m)

\* A list with entries on the screen: one is current, and on the page if the
\* terminal has room for it.
OnPage(m) ==
    /\ TopFits(m)
    /\ m.at \in 0..m.n - 1
    /\ m.lines > 0 => m.at \in m.top..m.top + Rows(m) - 1

Emptied(m) == m.n = 0 /\ m.at = None /\ m.top = None

\* What the pattern matches are entries, and a list just shown is at the entry
\* that was remembered.
Remembers(m) ==
    /\ m.hits \subseteq 0..m.n - 1
    /\ m.n > 0 /\ m.fresh /\ m.index \in 0..m.n - 1 => m.at = m.index

\* How far it is from one entry to another, going round, and from where a search
\* started: all the way when it was for the next match.
Way(n, from, dir, to) == IF dir = "up" THEN (from - to + n) % n ELSE (to - from + n) % n
WaySearched(m, to) ==
    IF m.asked.next /\ to = m.asked.from THEN m.n ELSE Way(m.n, m.asked.from, m.asked.dir, to)

\* SearchFinds of a state.
Finds(m) ==
    m.asked # NoSearch =>
        /\ m.open = "endless" =>
              /\ m.hits = {} /\ m.asked.next
              /\ m.asked.from = IF m.asked.dir = "up" THEN 0 ELSE m.n - 1
        /\ m.hits = {} => m.at = m.asked.from
        /\ m.hits # {} => m.at \in m.hits /\ \A other \in m.hits : WaySearched(m, m.at) <= WaySearched(m, other)

NconfInv ==
    /\ nm \in Menus
    /\ nm.open \in {"conf", "choice"} => (OnPage(nm) \/ Emptied(nm)) /\ Remembers(nm)
    /\ nm.open = "crashed" => nm.n = 0 \/ nm.index = None
    /\ Finds(nm)

-----------------------------------------------------------------------------
(* Numbers *)

LEMMA MinOfTwo == ASSUME NEW a \in Int, NEW b \in Int PROVE Min({a, b}) = IF a <= b THEN a ELSE b
  BY DEF Min

LEMMA MaxOfTwo == ASSUME NEW a \in Int, NEW b \in Int PROVE Max({a, b}) = IF a >= b THEN a ELSE b
  BY DEF Max

\* A set of natural numbers has a least one, which Min chooses.
LEMMA LeastNumber ==
    ASSUME NEW T, T \subseteq Nat, T # {}
    PROVE  Min(T) \in T /\ \A y \in T : Min(T) <= y
<1> DEFINE R == {ss \in Nat \X Nat : ss[1] < ss[2]}
<1>1. IsWellFoundedOn(R, Nat)
  BY NatLessThanWellFounded DEF OpToRel
<1> HIDE DEF R
<1>2. PICK x \in T : \A y \in T : ~(<<y, x>> \in R)
  BY <1>1, WFMin
<1>3. \A y \in T : ~(y < x)
  BY <1>2 DEF R
<1>4. \A y \in T : x <= y
  BY <1>3
<1> QED
  BY <1>4 DEF Min

\* What remains of a number less than three times the divisor.
LEMMA Remainder ==
    ASSUME NEW n \in Nat \ {0}, NEW a \in 0..3 * n - 1
    PROVE  a % n = IF a < n THEN a ELSE IF a < 2 * n THEN a - n ELSE a - 2 * n
  OBVIOUS

LEMMA RowsOf ==
    ASSUME NEW m \in Menus
    PROVE  Rows(m) = IF m.format <= m.n THEN m.format ELSE m.n
  BY MinOfTwo DEF Rows, Menus

-----------------------------------------------------------------------------
(* The page *)

\* Two states of one list: only the place in it may differ.
SameList(m, p) ==
    /\ p \in Menus
    /\ p.open = m.open /\ p.n = m.n /\ p.lines = m.lines /\ p.format = m.format /\ p.index = m.index
    /\ p.searching = m.searching /\ p.hits = m.hits /\ p.dir = m.dir
    /\ p.asked = m.asked /\ p.fresh = m.fresh

LEMMA SameRows == ASSUME NEW m, NEW p, SameList(m, p) PROVE Rows(p) = Rows(m)
  BY DEF SameList, Rows

LEMMA SameTwice ==
    ASSUME NEW m, NEW p, NEW q, SameList(m, p), SameList(p, q)
    PROVE  SameList(m, q)
  BY DEF SameList

\* The list at another place, and with another row remembered.
Place(m, top, at) == [m EXCEPT !.top = top, !.at = at]
Keep(m, row)      == [m EXCEPT !.row = row]

LEMMA Placed ==
    ASSUME NEW m \in Menus, NEW top \in Int, NEW at \in Int
    PROVE  SameList(m, Place(m, top, at)) /\ Place(m, top, at).top = top /\ Place(m, top, at).at = at
  BY DEF SameList, Menus, Place

LEMMA RowKept ==
    ASSUME NEW m \in Menus, NEW row \in Int
    PROVE  SameList(m, Keep(m, row)) /\ Keep(m, row).top = m.top /\ Keep(m, row).at = m.at
  BY DEF SameList, Menus, Keep

LEMMA NewItemsOnPage ==
    ASSUME NEW m \in Menus, m.n >= 1, m.format >= 1, m.lines > 0 => m.format = m.lines
    PROVE  OnPage(NewItems(m)) /\ SameList(m, NewItems(m))
<1>0. NewItems(m) = Place(m, 0, 0)
  BY DEF NewItems, Place, Menus
<1>1. SameList(m, NewItems(m)) /\ NewItems(m).top = 0 /\ NewItems(m).at = 0
  BY <1>0, Placed
<1>2. OnPage(NewItems(m))
  BY <1>1, SameRows, RowsOf DEF OnPage, TopFits, SameList, Menus
<1> QED
  BY <1>1, <1>2

\* A row the library takes as the first is on a full page, and current.
LEMMA SetTopOnPage ==
    ASSUME NEW m \in Menus, NEW row \in Int, OnPage(m)
    PROVE  OnPage(SetTop(m, row)) /\ SameList(m, SetTop(m, row))
<1>1. CASE row # m.top /\ row \in 0..m.n - Rows(m)
  <2>0. SetTop(m, row) = Place(m, row, row)
    BY <1>1 DEF SetTop, Place, OnPage, TopFits, Menus
  <2>1. /\ SameList(m, SetTop(m, row))
        /\ SetTop(m, row).top = row /\ SetTop(m, row).at = row
    BY <2>0, Placed
  <2> QED
    BY <1>1, <2>1, SameRows, RowsOf DEF OnPage, TopFits, SameList, Menus
<1>2. CASE ~(row # m.top /\ row \in 0..m.n - Rows(m))
  <2>1. SetTop(m, row) = m
    BY <1>2 DEF SetTop
  <2> QED
    BY <2>1 DEF SameList
<1> QED
  BY <1>1, <1>2

\* Turning to an entry shows it on a full page, wherever the library was.
LEMMA TurnedOnPage ==
    ASSUME NEW m \in Menus, NEW at \in 0..m.n - 1, TopFits(m)
    PROVE  OnPage(Turned(m, at)) /\ SameList(m, Turned(m, at)) /\ Turned(m, at).at = at
<1> DEFINE top == IF at < m.top THEN at ELSE IF at >= m.top + Rows(m) THEN at - Rows(m) + 1 ELSE m.top
<1>1. /\ Rows(m) \in Int /\ top \in Int /\ at \in Int
      /\ top \in 0..m.n - 1 /\ at \in top..top + Rows(m) - 1
      /\ m.lines > 0 => top \in 0..m.n - Rows(m)
  BY RowsOf DEF TopFits, Menus
<1>2. Turned(m, at) = Place(m, top, at)
  BY DEF Turned, Place, Menus
<1> HIDE DEF top
<1>3. SameList(m, Turned(m, at)) /\ Turned(m, at).at = at /\ Turned(m, at).top = top
  BY <1>1, <1>2, Placed
<1> QED
  BY <1>1, <1>3, SameRows DEF OnPage, TopFits, SameList

\* set_current_item: as long as there is room for a row, the entry has to be on
\* the page before.
LEMMA SetCurrentOnPage ==
    ASSUME NEW m \in Menus, NEW at \in Int, OnPage(m),
           m.lines > 0 /\ at \in 0..m.n - 1 => at \in m.top..m.top + Rows(m) - 1
    PROVE  /\ OnPage(SetCurrent(m, at)) /\ SameList(m, SetCurrent(m, at))
           /\ at \in 0..m.n - 1 => SetCurrent(m, at).at = at
<1>1. CASE at \in 0..m.n - 1 /\ at # m.at
  <2> DEFINE top == IF at < m.top THEN at ELSE IF at < m.top + Rows(m) THEN m.top
                    ELSE IF at < m.n - m.top THEN at ELSE m.n - Rows(m)
  <2>1. Rows(m) \in 1..m.n /\ m.top \in Int /\ m.n \in Nat
    BY RowsOf DEF OnPage, TopFits, Menus
  <2>2. top \in 0..m.n - 1 /\ (m.lines > 0 => top = m.top)
    BY <1>1, <2>1 DEF OnPage, TopFits
  <2>3. SetCurrent(m, at) = Place(m, top, at)
    BY <1>1 DEF SetCurrent, Brought, Place, Menus
  <2> HIDE DEF top
  <2>4. /\ SameList(m, SetCurrent(m, at))
        /\ SetCurrent(m, at).at = at /\ SetCurrent(m, at).top = top
    BY <2>2, <2>3, Placed
  <2> QED
    BY <1>1, <2>2, <2>4, SameRows DEF OnPage, TopFits, SameList
<1>2. CASE ~(at \in 0..m.n - 1 /\ at # m.at)
  BY <1>2 DEF SetCurrent, SameList
<1> QED
  BY <1>1, <1>2

\* The row center_item asks for is a number, which may be no row.
LEMMA HalfOf ==
    ASSUME NEW k \in Int
    PROVE  Half(k) \in Int /\ (k >= 0 => 0 <= Half(k) /\ 2 * Half(k) <= k)
<1>1. CASE k >= 0
  BY <1>1 DEF Half
<1>2. CASE k < 0
  BY <1>2 DEF Half
<1> QED
  BY <1>1, <1>2

LEMMA PageForIsRow ==
    ASSUME NEW m \in Menus, NEW sel \in Int
    PROVE  /\ PageFor(m, sel) \in Int
           /\ sel < m.top \/ sel >= m.top + m.lines =>
                 LET middle == IF sel - Half(m.lines) >= 0 THEN sel - Half(m.lines) ELSE 0
                 IN  PageFor(m, sel) = IF middle <= m.n - m.lines THEN middle ELSE m.n - m.lines
           /\ ~(sel < m.top \/ sel >= m.top + m.lines) => PageFor(m, sel) = m.top
<1> DEFINE mid == sel - Half(m.lines)
           middle == IF mid >= 0 THEN mid ELSE 0
<1>1. mid \in Int /\ m.n - m.lines \in Int
  BY HalfOf DEF Menus
<1> HIDE DEF mid
<1>2. Max({mid, 0}) = middle /\ middle \in Int
  BY <1>1, MaxOfTwo
<1> HIDE DEF middle
<1>3. Min({Max({mid, 0}), m.n - m.lines}) = IF middle <= m.n - m.lines THEN middle ELSE m.n - m.lines
  BY <1>1, <1>2, MinOfTwo
<1>4. (IF middle <= m.n - m.lines THEN middle ELSE m.n - m.lines) \in Int
  BY <1>1, <1>2
<1>5. m.top \in Int
  BY DEF Menus
<1> QED
  BY <1>3, <1>4, <1>5 DEF PageFor, mid, middle

\* The page center_item asks for holds the entry.
LEMMA PageForHolds ==
    ASSUME NEW m \in Menus, OnPage(m), m.lines > 0, NEW sel \in 0..m.n - 1
    PROVE  sel \in SetTop(m, PageFor(m, sel)).top..SetTop(m, PageFor(m, sel)).top + Rows(m) - 1
<1> DEFINE row == PageFor(m, sel)
<1>1. /\ Rows(m) = IF m.lines <= m.n THEN m.lines ELSE m.n
      /\ m.n \in Nat /\ m.lines \in Nat /\ m.n >= 1
      /\ m.top \in 0..m.n - Rows(m) /\ m.top \in Int /\ sel \in Int
  BY RowsOf DEF OnPage, TopFits, Menus
<1>2. CASE sel < m.top \/ sel >= m.top + m.lines
  <2>1. m.lines < m.n /\ Rows(m) = m.lines
    BY <1>1, <1>2
  <2>2. PICK h \in Int : h = Half(m.lines) /\ 0 <= h /\ 2 * h <= m.lines
    BY <1>1, HalfOf
  <2>3. row = IF (IF sel - h >= 0 THEN sel - h ELSE 0) <= m.n - m.lines
              THEN (IF sel - h >= 0 THEN sel - h ELSE 0) ELSE m.n - m.lines
    BY <1>1, <1>2, <2>2, PageForIsRow
  <2> HIDE DEF row
  <2>4. row \in 0..m.n - m.lines /\ sel \in row..row + m.lines - 1
    BY <1>1, <2>1, <2>2, <2>3
  <2>5. SetTop(m, row).top = row
    BY <1>1, <2>1, <2>4 DEF SetTop, Menus
  <2> QED
    BY <2>1, <2>4, <2>5 DEF row
<1>3. CASE ~(sel < m.top \/ sel >= m.top + m.lines)
  <2>1. row = m.top
    BY <1>1, <1>3, PageForIsRow
  <2> HIDE DEF row
  <2>2. SetTop(m, row).top = m.top
    BY <2>1 DEF SetTop
  <2>3. sel \in m.top..m.top + Rows(m) - 1
    BY <1>1, <1>3
  <2> QED
    BY <2>2, <2>3 DEF row
<1> QED
  BY <1>2, <1>3

\* center_item: whatever row was remembered, the entry is current and the page
\* full, if there is such an entry.
LEMMA CenterOnPage ==
    ASSUME NEW m \in Menus, NEW sel \in Int, OnPage(m)
    PROVE  /\ OnPage(Center(m, sel)) /\ SameList(m, Center(m, sel))
           /\ sel \in 0..m.n - 1 => Center(m, sel).at = sel
<1> DEFINE p == SetTop(m, m.row)
           q == SetTop(p, PageFor(p, sel))
           r == SetCurrent(q, sel)
<1>1. m.row \in Int
  BY DEF Menus
<1>2. OnPage(p) /\ SameList(m, p)
  BY <1>1, SetTopOnPage
<1>3. p \in Menus /\ p.n = m.n /\ p.lines = m.lines
  BY <1>2 DEF SameList
<1>4. PageFor(p, sel) \in Int
  BY <1>3, PageForIsRow
<1>5. OnPage(q) /\ SameList(p, q)
  BY <1>2, <1>3, <1>4, SetTopOnPage
<1>6. q \in Menus /\ q.n = m.n /\ q.lines = m.lines /\ Rows(q) = Rows(p)
  BY <1>2, <1>5, SameRows DEF SameList
<1>7. q.lines > 0 /\ sel \in 0..q.n - 1 => sel \in q.top..q.top + Rows(q) - 1
  BY <1>2, <1>3, <1>6, PageForHolds
<1>8. OnPage(r) /\ SameList(q, r) /\ (sel \in 0..m.n - 1 => r.at = sel)
  <2> HIDE DEF q
  <2> QED
    BY <1>5, <1>6, <1>7, SetCurrentOnPage
<1>9. Center(m, sel) = Keep(r, PageFor(p, sel))
  BY DEF Center, Moved, Keep
<1> HIDE DEF r, q, p
<1>10. r \in Menus /\ SameList(m, r)
  BY <1>2, <1>5, <1>8, SameTwice DEF SameList
<1>11. SameList(r, Center(m, sel)) /\ Center(m, sel).at = r.at /\ Center(m, sel).top = r.top
  BY <1>4, <1>9, <1>10, RowKept
<1>12. OnPage(Center(m, sel))
  BY <1>8, <1>11, SameRows DEF OnPage, TopFits, SameList
<1> QED
  BY <1>8, <1>10, <1>11, <1>12, SameTwice

\* A list that was just built is at the entry that was remembered.
LEMMA ShowMenuOnPage ==
    ASSUME NEW m \in Menus, m.n >= 1, m.format >= 1, m.lines > 0 => m.format = m.lines,
           m.hits \subseteq 0..m.n - 1
    PROVE  /\ ShowMenu(m) \in Menus /\ OnPage(ShowMenu(m)) /\ Remembers(ShowMenu(m))
           /\ ShowMenu(m).asked = m.asked /\ ShowMenu(m).open = m.open
<1> DEFINE p == NewItems(m)
           q == Center(p, m.index)
<1>1. OnPage(p) /\ SameList(m, p)
  BY NewItemsOnPage
<1>2. p \in Menus /\ m.index \in Int /\ p.n = m.n
  BY <1>1 DEF SameList, Menus
<1>3. OnPage(q) /\ SameList(p, q) /\ (m.index \in 0..m.n - 1 => q.at = m.index)
  BY <1>1, <1>2, CenterOnPage
<1>4. ShowMenu(m) = [q EXCEPT !.fresh = TRUE]
  BY DEF ShowMenu
<1> HIDE DEF p, q
<1>5. SameList(m, q) /\ q \in Menus
  BY <1>1, <1>3, SameTwice DEF SameList
<1>6. /\ ShowMenu(m) \in Menus
      /\ ShowMenu(m).n = q.n /\ ShowMenu(m).lines = q.lines /\ ShowMenu(m).format = q.format
      /\ ShowMenu(m).top = q.top /\ ShowMenu(m).open = q.open
      /\ ShowMenu(m).at = q.at /\ ShowMenu(m).index = q.index /\ ShowMenu(m).hits = q.hits
      /\ ShowMenu(m).asked = q.asked
  BY <1>4, <1>5 DEF Menus
<1>7. OnPage(ShowMenu(m))
  BY <1>3, <1>6 DEF OnPage, TopFits, Rows
<1>8. Remembers(ShowMenu(m)) /\ ShowMenu(m).asked = m.asked /\ ShowMenu(m).open = m.open
  BY <1>3, <1>5, <1>6 DEF Remembers, SameList
<1> QED
  BY <1>6, <1>7, <1>8

\* An empty list is shown without a current entry.
LEMMA ShowMenuEmptied ==
    ASSUME NEW m \in Menus, m.n = 0, m.hits \subseteq 0..m.n - 1
    PROVE  /\ ShowMenu(m) \in Menus /\ Emptied(ShowMenu(m)) /\ Remembers(ShowMenu(m))
           /\ ShowMenu(m).asked = m.asked /\ ShowMenu(m).open = m.open
<1> DEFINE p == NewItems(m)
           row == PageFor(p, m.index)
<1>1. p = Place(m, None, None) /\ None \in Int
  BY DEF NewItems, Place, None
<1>2. SameList(m, p) /\ p.top = None /\ p.at = None
  BY <1>1, Placed
<1>3. p \in Menus /\ p.n = 0 /\ m.index \in Int
  BY <1>2 DEF SameList, Menus
<1> HIDE DEF p
<1>4. row \in Int
  BY <1>3, PageForIsRow
<1>5. \A k \in Int : SetTop(p, k) = p /\ SetCurrent(p, k) = p
  BY <1>3 DEF SetTop, SetCurrent
<1>6. p.row \in Int
  BY <1>3 DEF Menus
<1>7. Center(p, m.index) = Keep(p, row)
  BY <1>3, <1>4, <1>5, <1>6 DEF Center, Moved, Keep
<1>8. ShowMenu(m) = [Keep(p, row) EXCEPT !.fresh = TRUE]
  BY <1>7 DEF ShowMenu, p
<1>9. SameList(p, Keep(p, row)) /\ Keep(p, row).top = None /\ Keep(p, row).at = None
  BY <1>2, <1>3, <1>4, RowKept
<1>10. PICK k \in Menus : k = Keep(p, row)
  BY <1>9 DEF SameList
<1>11. /\ ShowMenu(m) \in Menus
       /\ ShowMenu(m).n = k.n /\ ShowMenu(m).top = k.top /\ ShowMenu(m).open = k.open
       /\ ShowMenu(m).at = k.at /\ ShowMenu(m).hits = k.hits /\ ShowMenu(m).asked = k.asked
  BY <1>8, <1>10 DEF Menus
<1> QED
  BY <1>2, <1>9, <1>10, <1>11 DEF Emptied, Remembers, SameList

\* The keys of the library stay on the page they turn to.
LEMMA DrivenOnPage ==
    ASSUME NEW m \in Menus, OnPage(m), NEW p \in Paged(m) \cup Stepped(m)
    PROVE  OnPage(p) /\ SameList(m, p)
<1> DEFINE down == Max({0, Min({Rows(m), m.n - Rows(m) - m.top})})
           up   == Min({Rows(m), m.top})
<1>0. Rows(m) \in 1..m.n /\ m.n \in Nat /\ m.n >= 1 /\ m.top \in Nat /\ m.top <= m.n - 1 /\ m.at \in 0..m.n - 1
  BY RowsOf DEF OnPage, TopFits, Menus
<1>1. /\ down \in Int /\ 0 <= down /\ (down = 0 \/ m.top + down + Rows(m) <= m.n)
      /\ up \in Int /\ 0 <= up /\ 0 <= m.top - up
  <2>1. PICK k \in Int : k = Min({Rows(m), m.n - Rows(m) - m.top}) /\ k <= m.n - Rows(m) - m.top
    BY <1>0, MinOfTwo
  <2>2. down = IF 0 >= k THEN 0 ELSE k
    <3>1. down = Max({0, k})
      BY <2>1
    <3>2. Max({0, k}) = IF 0 >= k THEN 0 ELSE k
      BY MaxOfTwo
    <3> HIDE DEF down
    <3> QED
      BY <3>1, <3>2
  <2>3. up = IF Rows(m) <= m.top THEN Rows(m) ELSE m.top
    BY <1>0, MinOfTwo
  <2> QED
    BY <1>0, <2>1, <2>2, <2>3
<1>2. /\ Max({0, m.at - 1}) \in 0..m.n - 1 /\ Min({m.n - 1, m.at + 1}) \in 0..m.n - 1
      /\ 0 \in 0..m.n - 1 /\ m.n - 1 \in 0..m.n - 1
  BY <1>0, MinOfTwo, MaxOfTwo
<1>3. \/ p \in {PageTurned(m, down), PageTurned(m, -up)}
      \/ \E at \in 0..m.n - 1 : p = Turned(m, at)
  BY <1>2 DEF Paged, Stepped
<1> HIDE DEF down, up
<1>4. CASE \E at \in 0..m.n - 1 : p = Turned(m, at)
  BY <1>4, TurnedOnPage DEF OnPage
<1>5. CASE p \in {PageTurned(m, down), PageTurned(m, -up)}
  <2>1. PICK d \in Int : /\ p = PageTurned(m, d)
                         /\ 0 <= m.top + d
                         /\ d <= 0 \/ m.top + d + Rows(m) <= m.n
    BY <1>0, <1>1, <1>5
  <2> DEFINE q  == Place(m, m.top + d, m.at)
             at == Max({0, Min({m.n - 1, m.at + d})})
  <2>2. at \in 0..m.n - 1
    <3>1. PICK k \in Int : k = Min({m.n - 1, m.at + d}) /\ k <= m.n - 1
      BY <1>0, MinOfTwo
    <3>2. at = IF 0 >= k THEN 0 ELSE k
      <4>1. at = Max({0, k})
        BY <3>1
      <4>2. Max({0, k}) = IF 0 >= k THEN 0 ELSE k
        BY MaxOfTwo
      <4> HIDE DEF at
      <4> QED
        BY <4>1, <4>2
    <3> QED
      BY <1>0, <3>1, <3>2
  <2>3. p = Turned(q, at)
    BY <2>1 DEF PageTurned, Place, Menus
  <2>4. SameList(m, q) /\ q.top = m.top + d
    BY <1>0, <2>1, Placed
  <2> HIDE DEF q, at
  <2>5. q \in Menus /\ q.n = m.n /\ q.lines = m.lines /\ q.format = m.format /\ Rows(q) = Rows(m)
    BY <2>4, SameRows DEF SameList
  <2>6. TopFits(q)
    BY <1>0, <2>1, <2>4, <2>5 DEF OnPage, TopFits
  <2>7. OnPage(p) /\ SameList(q, p)
    BY <2>2, <2>3, <2>5, <2>6, TurnedOnPage
  <2> QED
    BY <2>4, <2>7, SameTwice
<1> QED
  BY <1>3, <1>4, <1>5

LEMMA EndedParts ==
    ASSUME NEW m \in Menus
    PROVE  /\ Ended(m) \in Menus
           /\ Ended(m).open = m.open /\ Ended(m).n = m.n
           /\ Ended(m).lines = m.lines /\ Ended(m).format = m.format
           /\ Ended(m).top = m.top /\ Ended(m).at = m.at /\ Ended(m).index = m.index
           /\ Ended(m).hits = {} /\ Ended(m).asked = NoSearch /\ Ended(m).fresh = FALSE
<1>1. {} \in Hits /\ NoSearch \in Asks
  BY DEF Hits, Asks, NoSearch, None
<1> QED
  BY <1>1 DEF Ended, Menus

-----------------------------------------------------------------------------
(* The search *)

\* How many entries are looked at before one.
Steps(m, flag, to) ==
    CASE flag = "next down" -> (IF to = m.at THEN m.n ELSE Way(m.n, m.at, "down", to)) - 1
      [] flag = "next up"   -> (IF to = m.at THEN m.n ELSE Way(m.n, m.at, "up", to)) - 1
      [] OTHER -> Way(m.n, m.at, IF Upwards(flag) THEN "up" ELSE "down", to)
LookedAt(m, flag, k) == Visited(m, flag, StartOf(m, flag), k)

\* The steps of the loop in get_mext_match and the way to an entry are inverse
\* to each other, also when the loop starts before the first entry or behind
\* the last one.
LEMMA StepsReach ==
    ASSUME NEW m \in Menus, OnPage(m), NEW flag \in Flags
    PROVE  /\ \A k \in 0..m.n - 1 :
                 LookedAt(m, flag, k) \in 0..m.n - 1 /\ Steps(m, flag, LookedAt(m, flag, k)) = k
           /\ \A to \in 0..m.n - 1 :
                 Steps(m, flag, to) \in 0..m.n - 1 /\ LookedAt(m, flag, Steps(m, flag, to)) = to
<1> DEFINE n == m.n
           at == m.at
<1>1. n \in Nat \ {0} /\ at \in 0..n - 1
  BY DEF OnPage, TopFits, Menus
<1> HIDE DEF n, at
<1>2. \A a \in 0..3 * n - 1 : a % n = IF a < n THEN a ELSE IF a < 2 * n THEN a - n ELSE a - 2 * n
  BY <1>1, Remainder
<1>3. \A to \in 0..n - 1 :
         /\ Way(n, at, "down", to) = IF to < at THEN to - at + n ELSE to - at
         /\ Way(n, at, "up", to) = IF at < to THEN at - to + n ELSE at - to
  <2> TAKE to \in 0..n - 1
  <2>1. PICK a \in 0..3 * n - 1, b \in 0..3 * n - 1 : a = to - at + n /\ b = at - to + n
    BY <1>1
  <2>2. /\ a % n = IF a < n THEN a ELSE IF a < 2 * n THEN a - n ELSE a - 2 * n
        /\ b % n = IF b < n THEN b ELSE IF b < 2 * n THEN b - n ELSE b - 2 * n
    BY <1>2
  <2>3. Way(n, at, "down", to) = a % n /\ Way(n, at, "up", to) = b % n
    BY <2>1 DEF Way
  <2>4. a % n = IF to < at THEN to - at + n ELSE to - at
    BY <1>1, <2>1, <2>2
  <2>5. b % n = IF at < to THEN at - to + n ELSE at - to
    BY <1>1, <2>1, <2>2
  <2> QED
    BY <2>3, <2>4, <2>5
<1>4. CASE flag = "tinker down"
  <2>0. \A k \in 0..n - 1 : LookedAt(m, flag, k) = (at + k) % n
    BY <1>4 DEF LookedAt, Visited, StartOf, Upwards, n, at
  <2>1. \A k \in 0..n - 1 : LookedAt(m, flag, k) = IF at + k < n THEN at + k ELSE at + k - n
    <3> TAKE k \in 0..n - 1
    <3>1. PICK a \in 0..3 * n - 1 : a = at + k
      BY <1>1
    <3>2. a % n = IF a < n THEN a ELSE IF a < 2 * n THEN a - n ELSE a - 2 * n
      BY <1>2
    <3> QED
      BY <1>1, <2>0, <3>1, <3>2
  <2>2. \A to \in 0..n - 1 : Steps(m, flag, to) = Way(n, at, "down", to)
    BY <1>4 DEF Steps, Upwards, n, at
  <2> QED
    BY <1>1, <1>3, <2>1, <2>2 DEF n
<1>5. CASE flag = "tinker up"
  <2>0. \A k \in 0..n - 1 : LookedAt(m, flag, k) = (at - k + 2 * n) % n
    BY <1>5 DEF LookedAt, Visited, StartOf, Upwards, n, at
  <2>1. \A k \in 0..n - 1 : LookedAt(m, flag, k) = IF k <= at THEN at - k ELSE at - k + n
    <3> TAKE k \in 0..n - 1
    <3>1. PICK a \in 0..3 * n - 1 : a = at - k + 2 * n
      BY <1>1
    <3>2. a % n = IF a < n THEN a ELSE IF a < 2 * n THEN a - n ELSE a - 2 * n
      BY <1>2
    <3> QED
      BY <1>1, <2>0, <3>1, <3>2
  <2>2. \A to \in 0..n - 1 : Steps(m, flag, to) = Way(n, at, "up", to)
    BY <1>5 DEF Steps, Upwards, n, at
  <2> QED
    BY <1>1, <1>3, <2>1, <2>2 DEF n
<1>6. CASE flag = "next down"
  <2>0. \A k \in 0..n - 1 : LookedAt(m, flag, k) = (at + 1 + k) % n
    BY <1>6 DEF LookedAt, Visited, StartOf, Upwards, n, at
  <2>1. \A k \in 0..n - 1 : LookedAt(m, flag, k) = IF at + 1 + k < n THEN at + 1 + k ELSE at + 1 + k - n
    <3> TAKE k \in 0..n - 1
    <3>1. PICK a \in 0..3 * n - 1 : a = at + 1 + k
      BY <1>1
    <3>2. a % n = IF a < n THEN a ELSE IF a < 2 * n THEN a - n ELSE a - 2 * n
      BY <1>2
    <3> QED
      BY <1>1, <2>0, <3>1, <3>2
  <2>2. \A to \in 0..n - 1 : Steps(m, flag, to) = (IF to = at THEN n ELSE Way(n, at, "down", to)) - 1
    BY <1>6 DEF Steps, Upwards, n, at
  <2> QED
    <3>1. \A to \in 0..n - 1 : Steps(m, flag, to) = IF to <= at THEN to - at + n - 1 ELSE to - at - 1
      BY <1>1, <1>3, <2>2
    <3> QED
      BY <1>1, <2>1, <3>1 DEF n
<1>7. CASE flag = "next up"
  <2>0. \A k \in 0..n - 1 : LookedAt(m, flag, k) = (at - 1 - k + 2 * n) % n
    BY <1>7 DEF LookedAt, Visited, StartOf, Upwards, n, at
  <2>1. \A k \in 0..n - 1 : LookedAt(m, flag, k) = IF k < at THEN at - 1 - k ELSE at - 1 - k + n
    <3> TAKE k \in 0..n - 1
    <3>1. PICK a \in 0..3 * n - 1 : a = at - 1 - k + 2 * n
      BY <1>1
    <3>2. a % n = IF a < n THEN a ELSE IF a < 2 * n THEN a - n ELSE a - 2 * n
      BY <1>2
    <3> QED
      BY <1>1, <2>0, <3>1, <3>2
  <2>2. \A to \in 0..n - 1 : Steps(m, flag, to) = (IF to = at THEN n ELSE Way(n, at, "up", to)) - 1
    BY <1>7 DEF Steps, Upwards, n, at
  <2> QED
    BY <1>1, <1>3, <2>1, <2>2 DEF n
<1> QED
  BY <1>4, <1>5, <1>6, <1>7 DEF Flags

\* get_mext_match stops at the nearest match, and never without one when it
\* looks for the next one from the last entry.
LEMMA SearchStops ==
    ASSUME NEW m \in Menus, OnPage(m), m.hits \subseteq 0..m.n - 1, m.open \in {"conf", "choice"},
           NEW flag \in Flags, NEW r, r = Search(m, flag, StartOf(m, flag))
    PROVE  /\ r \in Menus /\ r.n = m.n /\ r.hits = m.hits /\ r.index = m.index
           /\ (r.open = m.open /\ OnPage(r)) \/ r.open = "endless"
           /\ r.open = "endless" =>
                 /\ m.hits = {} /\ flag \in {"next up", "next down"}
                 /\ m.at = IF Upwards(flag) THEN 0 ELSE m.n - 1
           /\ m.hits = {} => r.at = m.at
           /\ m.hits # {} => /\ r.at \in m.hits
                             /\ \A other \in m.hits : Steps(m, flag, r.at) <= Steps(m, flag, other)
<1> DEFINE start == StartOf(m, flag)
           found == {k \in 0..m.n - 1 : LookedAt(m, flag, k) \in m.hits}
<1>1. r = IF found # {} THEN Center(m, LookedAt(m, flag, Min(found)))
          ELSE IF start \in 0..m.n - 1 THEN m ELSE [m EXCEPT !.open = "endless"]
  <2>1. m.n # 0
    BY DEF OnPage, TopFits, Menus
  <2> QED
    BY <2>1 DEF Search, LookedAt
<1>2. found \subseteq Nat /\ m.n \in Nat /\ m.at \in Int
  BY DEF Menus
<1>3. \A other \in m.hits : Steps(m, flag, other) \in found
  BY StepsReach
<1>4. CASE found # {}
  <2>1. Min(found) \in found /\ \A k \in found : Min(found) <= k
    BY <1>2, <1>4, LeastNumber
  <2>2. PICK k \in 0..m.n - 1 : k = Min(found) /\ LookedAt(m, flag, k) \in m.hits
    BY <2>1
  <2>3. PICK to \in 0..m.n - 1 : to = LookedAt(m, flag, k) /\ Steps(m, flag, to) = k
    BY <2>2, StepsReach
  <2>4. r = Center(m, to)
    BY <1>1, <1>4, <2>2, <2>3
  <2>5. OnPage(r) /\ SameList(m, r) /\ r.at = to
    BY <2>4, CenterOnPage
  <2>6. m.hits # {} /\ r.at \in m.hits /\ r.open # "endless"
    BY <2>2, <2>3, <2>5 DEF SameList
  <2>7. \A other \in m.hits : Steps(m, flag, r.at) <= Steps(m, flag, other)
    BY <1>3, <2>1, <2>2, <2>3, <2>5
  <2> QED
    BY <2>5, <2>6, <2>7 DEF SameList
<1>5. CASE found = {}
  <2>1. m.hits = {}
    BY <1>3, <1>5
  <2>2. CASE start \in 0..m.n - 1
    <3>1. r = m
      BY <1>1, <1>5, <2>2
    <3> QED
      BY <2>1, <3>1
  <2>3. CASE start \notin 0..m.n - 1
    <3>1. r = [m EXCEPT !.open = "endless"]
      BY <1>1, <1>5, <2>3
    <3>2. /\ r \in Menus /\ r.n = m.n /\ r.hits = m.hits /\ r.index = m.index
          /\ r.open = "endless" /\ r.at = m.at
      BY <3>1 DEF Menus, States
    <3>3. flag \in {"next up", "next down"} /\ m.at = IF Upwards(flag) THEN 0 ELSE m.n - 1
      <4>1. m.at \in 0..m.n - 1
        BY DEF OnPage
      <4>2. start = IF flag = "next down" THEN m.at + 1 ELSE IF flag = "next up" THEN m.at - 1 ELSE m.at
        BY DEF StartOf
      <4> HIDE DEF start
      <4> QED
        <5>1. CASE flag = "next down"
          <6>1. start = m.at + 1 /\ ~Upwards(flag)
            BY <4>2, <5>1 DEF Upwards
          <6>2. m.at = m.n - 1
            BY <1>2, <2>3, <4>1, <6>1
          <6> QED
            BY <5>1, <6>1, <6>2
        <5>2. CASE flag = "next up"
          <6>1. start = m.at - 1 /\ Upwards(flag)
            BY <4>2, <5>2 DEF Upwards
          <6>2. m.at = 0
            BY <1>2, <2>3, <4>1, <6>1
          <6> QED
            BY <5>2, <6>1, <6>2
        <5> QED
          BY <2>3, <4>1, <4>2, <5>1, <5>2
    <3> QED
      BY <2>1, <3>2, <3>3
  <2> QED
    BY <2>2, <2>3
<1> QED
  BY <1>4, <1>5

\* In an empty list the first letter, and the search for the next match, crash.
LEMMA EmptyMatchKeeps ==
    ASSUME NEW m \in Menus, Emptied(m), Remembers(m), NEW flag \in Flags, Match(m, flag)
    PROVE  NconfInv'
<1> DEFINE asked == Asked(m, flag)
<1>1. m.hits = {} /\ m.n = 0
  BY DEF Remembers, Emptied
<1>2. nm' = [[m EXCEPT !.open = "crashed"] EXCEPT !.dir = flag, !.asked = asked, !.fresh = FALSE]
  BY <1>1 DEF Match, Search
<1>3. asked \in Asks /\ asked.from = m.at
  BY DEF Asked, Asks, Menus
<1> HIDE DEF asked
<1>4. /\ nm' \in Menus /\ nm'.open = "crashed" /\ nm'.n = 0 /\ nm'.at = m.at
      /\ nm'.hits = {} /\ nm'.asked = asked
  BY <1>1, <1>2, <1>3 DEF Menus, States
<1> QED
  BY <1>3, <1>4 DEF NconfInv, Finds

LEMMA MatchKeeps ==
    ASSUME NEW m \in Menus, OnPage(m), Remembers(m), m.open \in {"conf", "choice"},
           NEW flag \in Flags, Match(m, flag)
    PROVE  NconfInv'
<1> DEFINE r == Search(m, flag, StartOf(m, flag))
           asked == Asked(m, flag)
<1>1. m.hits \subseteq 0..m.n - 1
  BY DEF Remembers
<1>2. /\ r \in Menus /\ r.n = m.n /\ r.hits = m.hits /\ r.index = m.index
      /\ (r.open = m.open /\ OnPage(r)) \/ r.open = "endless"
      /\ r.open = "endless" =>
            /\ m.hits = {} /\ flag \in {"next up", "next down"}
            /\ m.at = IF Upwards(flag) THEN 0 ELSE m.n - 1
      /\ m.hits = {} => r.at = m.at
      /\ m.hits # {} => /\ r.at \in m.hits
                        /\ \A other \in m.hits : Steps(m, flag, r.at) <= Steps(m, flag, other)
  BY <1>1, SearchStops
<1>3. nm' = [r EXCEPT !.dir = flag, !.asked = asked, !.fresh = FALSE]
  BY DEF Match
<1> HIDE DEF r
<1>4. /\ asked \in Asks
      /\ asked.from = m.at /\ asked.dir = IF Upwards(flag) THEN "up" ELSE "down"
      /\ asked.next = (flag \in {"next up", "next down"})
  BY DEF Asked, Asks, Menus
<1> HIDE DEF asked
<1>5. /\ nm' \in Menus
      /\ nm'.open = r.open /\ nm'.n = m.n /\ nm'.lines = r.lines /\ nm'.format = r.format
      /\ nm'.top = r.top /\ nm'.at = r.at
      /\ nm'.hits = m.hits /\ nm'.index = m.index /\ nm'.fresh = FALSE /\ nm'.asked = asked
  BY <1>2, <1>3, <1>4 DEF Menus
<1>6. nm'.open \in {"conf", "choice"} => OnPage(nm') /\ Remembers(nm')
  BY <1>2, <1>5 DEF OnPage, TopFits, Rows, Remembers
<1>7. Finds(nm')
  <2>1. \A to \in m.hits : Way(m.n, m.at, asked.dir, to) \in Int /\ m.n \in Int
    BY <1>1 DEF Way, Menus, OnPage, TopFits
  <2>2. \A to \in m.hits : WaySearched(nm', to) = IF asked.next THEN Steps(m, flag, to) + 1 ELSE Steps(m, flag, to)
    <3>1. \A to \in m.hits :
             WaySearched(nm', to) = IF asked.next /\ to = m.at THEN m.n ELSE Way(m.n, m.at, asked.dir, to)
      BY <1>4, <1>5 DEF WaySearched
    <3>2. CASE flag = "next down"
      <4>1. asked.dir = "down" /\ asked.next = TRUE
        BY <1>4, <3>2 DEF Upwards
      <4>2. \A to \in m.hits : Steps(m, flag, to) = (IF to = m.at THEN m.n ELSE Way(m.n, m.at, "down", to)) - 1
        BY <3>2 DEF Steps
      <4> QED
        BY <2>1, <3>1, <4>1, <4>2
    <3>3. CASE flag = "next up"
      <4>1. asked.dir = "up" /\ asked.next = TRUE
        BY <1>4, <3>3 DEF Upwards
      <4>2. \A to \in m.hits : Steps(m, flag, to) = (IF to = m.at THEN m.n ELSE Way(m.n, m.at, "up", to)) - 1
        BY <3>3 DEF Steps
      <4> QED
        BY <2>1, <3>1, <4>1, <4>2
    <3>4. CASE flag \notin {"next down", "next up"}
      BY <1>4, <3>1, <3>4 DEF Steps, Upwards
    <3> QED
      BY <3>2, <3>3, <3>4
  <2>3. \A to \in m.hits : Steps(m, flag, to) \in Int
    BY <1>1, StepsReach
  <2>4. m.hits # {} => /\ r.at \in m.hits
                       /\ \A other \in m.hits : WaySearched(nm', r.at) <= WaySearched(nm', other)
    <3> SUFFICES ASSUME m.hits # {}, NEW other \in m.hits
                 PROVE  r.at \in m.hits /\ WaySearched(nm', r.at) <= WaySearched(nm', other)
      OBVIOUS
    <3>1. r.at \in m.hits /\ Steps(m, flag, r.at) <= Steps(m, flag, other)
      BY <1>2
    <3> QED
      BY <2>2, <2>3, <3>1
  <2> QED
    BY <1>2, <1>4, <1>5, <2>4 DEF Finds
<1> QED
  BY <1>2, <1>5, <1>6, <1>7 DEF NconfInv

-----------------------------------------------------------------------------
(* The inductive invariant *)

\* A list that is built and shown, with no search in it, is all right, or the
\* menu crashed where it may.
LEMMA BuiltKeeps ==
    ASSUME NEW m \in Menus, m.open \in {"conf", "choice"}, m.hits = {}, m.asked = NoSearch,
           NEW n \in Nat, NEW index \in Int, NEW row \in Int, Built(m, n, index, row)
    PROVE  NconfInv'
<1>1. PICK lines \in PageLines : \E format \in Formats(lines) :
         LET list == [m EXCEPT !.n = n, !.lines = lines, !.format = format, !.index = index, !.row = row]
         IN  nm' = ShowMenu(list) \/ (index = None /\ nm' = [list EXCEPT !.open = "crashed"])
  BY DEF Built
<1>2. PICK format \in Formats(lines) : \E list :
         /\ list = [m EXCEPT !.n = n, !.lines = lines, !.format = format, !.index = index, !.row = row]
         /\ nm' = ShowMenu(list) \/ (index = None /\ nm' = [list EXCEPT !.open = "crashed"])
  BY <1>1
<1>3. PICK list :
         /\ list = [m EXCEPT !.n = n, !.lines = lines, !.format = format, !.index = index, !.row = row]
         /\ nm' = ShowMenu(list) \/ (index = None /\ nm' = [list EXCEPT !.open = "crashed"])
  BY <1>2
<1>4. lines \in Int /\ format \in Nat /\ format >= 1 /\ (lines > 0 => format = lines)
  BY NconfMenuAssumption DEF Formats
<1>5. /\ list \in Menus /\ list.n = n /\ list.lines = lines /\ list.format = format /\ list.index = index
      /\ list.open = m.open /\ list.hits = {} /\ list.asked = NoSearch
  BY <1>3, <1>4 DEF Menus
<1>6. CASE nm' = ShowMenu(list) /\ n >= 1
  <2>1. /\ ShowMenu(list) \in Menus /\ OnPage(ShowMenu(list)) /\ Remembers(ShowMenu(list))
        /\ ShowMenu(list).asked = NoSearch /\ ShowMenu(list).open = m.open
    BY <1>4, <1>5, <1>6, ShowMenuOnPage
  <2> QED
    BY <1>6, <2>1 DEF NconfInv, Finds
<1>7. CASE nm' = ShowMenu(list) /\ n = 0
  <2>1. /\ ShowMenu(list) \in Menus /\ Emptied(ShowMenu(list)) /\ Remembers(ShowMenu(list))
        /\ ShowMenu(list).asked = NoSearch /\ ShowMenu(list).open = m.open
    BY <1>5, <1>7, ShowMenuEmptied
  <2> QED
    BY <1>7, <2>1 DEF NconfInv, Finds
<1>8. CASE index = None /\ nm' = [list EXCEPT !.open = "crashed"]
  <2>1. nm' \in Menus /\ nm'.open = "crashed" /\ nm'.index = None /\ nm'.asked = NoSearch
    BY <1>5, <1>8 DEF Menus, States
  <2> QED
    BY <2>1 DEF NconfInv, Finds
<1> QED
  BY <1>3, <1>4, <1>6, <1>7, <1>8

LEMMA AwayIsMenu == Away \in Menus /\ Away.open = "no" /\ Away.hits = {} /\ Away.asked = NoSearch
<1>1. {} \in Hits /\ NoSearch \in Asks /\ None \in Int
  BY DEF Hits, Asks, NoSearch, None
<1> QED
  BY <1>1 DEF Away, Menus, States, Flags

LEMMA NconfStarts == NconfInit => NconfInv
  BY AwayIsMenu DEF NconfInit, NconfInv, Finds

LEMMA NconfInductive == NconfInv /\ [NconfNext]_nm => NconfInv'
<1> SUFFICES ASSUME NconfInv, [NconfNext]_nm PROVE NconfInv'
  OBVIOUS
<1> USE NconfMenuAssumption
<1>0. /\ nm \in Menus
      /\ AtKeys => (OnPage(nm) \/ Emptied(nm)) /\ Remembers(nm) /\ nm.open \in {"conf", "choice"}
  BY DEF NconfInv, AtKeys
<1>1. CASE OpenNconf
  <2>1. PICK n \in 0..MaxEntries :
           \/ \E open \in {"conf", "choice"} : Built([Away EXCEPT !.open = open], n, 0, 0)
           \/ \E value \in 0..n - 1, row \in 0..MaxEntries :
                 Built([Away EXCEPT !.open = "choice"], n, value, row)
    BY <1>1 DEF OpenNconf
  <2>2. PICK open \in {"conf", "choice"}, index \in Int, row \in Int :
           Built([Away EXCEPT !.open = open], n, index, row)
    <3>1. CASE \E open \in {"conf", "choice"} : Built([Away EXCEPT !.open = open], n, 0, 0)
      BY <3>1
    <3>2. CASE \E value \in 0..n - 1, row \in 0..MaxEntries :
                  Built([Away EXCEPT !.open = "choice"], n, value, row)
      BY <3>2
    <3> QED
      BY <2>1, <3>1, <3>2
  <2>3. PICK m : m = [Away EXCEPT !.open = open]
    OBVIOUS
  <2>4. m \in Menus /\ m.open = open /\ m.hits = {} /\ m.asked = NoSearch
    BY <2>3, AwayIsMenu DEF Menus, States
  <2>5. n \in Nat /\ Built(m, n, index, row)
    BY <2>2, <2>3
  <2> QED
    BY <2>4, <2>5, BuiltKeeps
<1>2. CASE Drive
  <2>1. PICK m : /\ nm' = Ended(m)
                 /\ \/ nm.n = 0 /\ m = nm
                    \/ nm.n # 0 /\ (m = Turned(nm, 0) \/ m \in Paged(nm) \cup Stepped(nm))
    BY <1>2 DEF Drive
  <2>2. CASE nm.n = 0 /\ m = nm
    <3>1. Emptied(nm)
      BY <1>0, <1>2, <2>2 DEF Drive, OnPage, TopFits
    <3>2. nm' \in Menus /\ Emptied(nm') /\ Remembers(nm')
      BY <1>0, <2>1, <2>2, <3>1, EndedParts DEF Emptied, Remembers
    <3> QED
      BY <1>0, <1>2, <2>1, <2>2, <3>2, EndedParts DEF NconfInv, Finds, Drive
  <2>3. CASE nm.n # 0 /\ (m = Turned(nm, 0) \/ m \in Paged(nm) \cup Stepped(nm))
    <3>1. OnPage(nm)
      BY <1>0, <1>2, <2>3 DEF Drive, Emptied
    <3>2. OnPage(m) /\ SameList(nm, m)
      <4>1. 0 \in 0..nm.n - 1
        BY <1>0, <2>3 DEF Menus
      <4> QED
        BY <1>0, <2>3, <3>1, <4>1, TurnedOnPage, DrivenOnPage DEF OnPage
    <3>3. m \in Menus
      BY <3>2 DEF SameList
    <3>4. OnPage(nm') /\ Remembers(nm')
      BY <2>1, <3>2, <3>3, EndedParts DEF OnPage, TopFits, Rows, Remembers
    <3>5. nm'.open = nm.open
      BY <2>1, <3>2, <3>3, EndedParts DEF SameList
    <3> QED
      BY <1>0, <1>2, <2>1, <3>3, <3>4, <3>5, EndedParts DEF NconfInv, Finds, Drive
  <2> QED
    BY <2>1, <2>2, <2>3
<1>3. CASE Again
  <2>1. PICK e : e = Ended(nm)
    OBVIOUS
  <2>2. e \in Menus /\ e.open \in {"conf", "choice"} /\ e.hits = {} /\ e.asked = NoSearch
    BY <1>0, <1>3, <2>1, EndedParts DEF Again
  <2>3. nm.at \in Int /\ nm.top \in Int /\ nm.row \in Int /\ Remembered \subseteq Int
    BY <1>0 DEF Menus, Remembered, None
  <2>4. PICK n \in 0..MaxEntries, index \in Int, row \in Int : Built(e, n, index, row)
    <3>1. PICK n \in 0..MaxEntries :
             \/ \E index \in Remembered : Built(e, n, index, nm.top)
             \/ \E value \in 0..n - 1, row \in IF nm.n = 0 THEN 0..MaxEntries ELSE {nm.top} :
                   Built(e, n, value, row)
             \/ \E row \in IF nm.n = 0 THEN None..MaxEntries ELSE {nm.row} : Built(e, n, None, row)
      BY <1>3, <2>1 DEF Again
    <3>2. CASE \E index \in Remembered : Built(e, n, index, nm.top)
      BY <2>3, <3>2
    <3>3. CASE \E value \in 0..n - 1, row \in IF nm.n = 0 THEN 0..MaxEntries ELSE {nm.top} :
                  Built(e, n, value, row)
      <4>1. (IF nm.n = 0 THEN 0..MaxEntries ELSE {nm.top}) \subseteq Int /\ 0..n - 1 \subseteq Int
        BY <2>3
      <4> QED
        BY <3>3, <4>1
    <3>4. CASE \E row \in IF nm.n = 0 THEN None..MaxEntries ELSE {nm.row} : Built(e, n, None, row)
      <4>1. (IF nm.n = 0 THEN None..MaxEntries ELSE {nm.row}) \subseteq Int /\ None \in Int
        BY <2>3 DEF None
      <4> QED
        BY <3>4, <4>1
    <3> QED
      BY <3>1, <3>2, <3>3, <3>4
  <2> QED
    BY <2>2, <2>4, BuiltKeeps
<1>4. CASE LeaveNconf
  BY <1>4, AwayIsMenu DEF LeaveNconf, NconfInv, Finds
<1>5. CASE SlashKey
  <2>1. PICK hits \in Hits :
           hits = (IF nm.searching THEN {} ELSE 0..nm.n - 1)
    <3>1. 0..nm.n - 1 \in Hits /\ {} \in Hits
      BY <1>0 DEF Hits, Menus
    <3> QED
      BY <3>1
  <2>2. nm' = [nm EXCEPT !.searching = ~@, !.hits = hits, !.dir = "tinker down", !.asked = NoSearch]
    BY <1>5, <2>1 DEF SlashKey
  <2>3. "tinker down" \in Flags /\ NoSearch \in Asks /\ (~nm.searching) \in BOOLEAN
    BY DEF Flags, Asks, NoSearch, None
  <2>4. /\ nm' \in Menus /\ nm'.open = nm.open /\ nm'.n = nm.n /\ nm'.lines = nm.lines
        /\ nm'.format = nm.format
        /\ nm'.top = nm.top /\ nm'.at = nm.at /\ nm'.index = nm.index /\ nm'.fresh = nm.fresh
        /\ nm'.hits = hits /\ nm'.asked = NoSearch
    BY <1>0, <2>2, <2>3 DEF Menus
  <2>5. (OnPage(nm') \/ Emptied(nm')) /\ Remembers(nm') /\ nm'.open # "crashed"
    BY <1>0, <1>5, <2>1, <2>4 DEF SlashKey, OnPage, TopFits, Emptied, Rows, Remembers
  <2> QED
    BY <2>4, <2>5 DEF NconfInv, Finds
<1>6. CASE TypePattern
  <2>1. PICK hits \in SUBSET nm.hits : Match([nm EXCEPT !.hits = hits], Adjusted(nm.dir))
    BY <1>6 DEF TypePattern
  <2>2. PICK m : m = [nm EXCEPT !.hits = hits]
    OBVIOUS
  <2>3. hits \in Hits
    BY <1>0 DEF Menus, Hits
  <2>4. /\ m \in Menus /\ m.open = nm.open /\ m.n = nm.n /\ m.lines = nm.lines /\ m.format = nm.format
        /\ m.top = nm.top /\ m.at = nm.at /\ m.index = nm.index /\ m.fresh = nm.fresh /\ m.hits = hits
    BY <1>0, <2>2, <2>3 DEF Menus
  <2>5. (OnPage(m) \/ Emptied(m)) /\ Remembers(m) /\ m.open \in {"conf", "choice"}
    BY <1>0, <1>6, <2>4 DEF TypePattern, Searching, OnPage, TopFits, Emptied, Rows, Remembers
  <2>6. Adjusted(nm.dir) \in Flags
    BY <1>0 DEF Menus, Adjusted, Flags
  <2> QED
    BY <2>1, <2>2, <2>4, <2>5, <2>6, MatchKeeps, EmptyMatchKeeps
<1>7. CASE NextMatch
  BY <1>0, <1>7, MatchKeeps, EmptyMatchKeeps DEF NextMatch, Searching, Flags
<1>8. CASE RubOut
  <2>1. PICK hits \in SUBSET (0..nm.n - 1) :
           nm' = [nm EXCEPT !.hits = hits, !.dir = Adjusted(@), !.asked = NoSearch]
    BY <1>8 DEF RubOut
  <2>2. hits \in Hits /\ Adjusted(nm.dir) \in Flags /\ NoSearch \in Asks
    <3>1. hits \in Hits
      BY DEF Hits
    <3>2. Adjusted(nm.dir) \in Flags
      BY <1>0 DEF Menus, Adjusted, Flags
    <3> QED
      BY <3>1, <3>2 DEF Asks, NoSearch, None
  <2>3. /\ nm' \in Menus /\ nm'.open = nm.open /\ nm'.n = nm.n /\ nm'.lines = nm.lines
        /\ nm'.format = nm.format
        /\ nm'.top = nm.top /\ nm'.at = nm.at /\ nm'.index = nm.index /\ nm'.fresh = nm.fresh
        /\ nm'.hits = hits /\ nm'.asked = NoSearch
    BY <1>0, <2>1, <2>2 DEF Menus
  <2>4. (OnPage(nm') \/ Emptied(nm')) /\ Remembers(nm') /\ nm'.open # "crashed"
    BY <1>0, <1>8, <2>3 DEF RubOut, Searching, OnPage, TopFits, Emptied, Rows, Remembers
  <2> QED
    BY <2>3, <2>4 DEF NconfInv, Finds
<1>9. CASE UNCHANGED nm
  BY <1>9 DEF NconfInv
<1> QED
  BY <1>1, <1>2, <1>3, <1>4, <1>5, <1>6, <1>7, <1>8, <1>9 DEF NconfNext

-----------------------------------------------------------------------------
(* The theorems *)

\* However many entries match and wherever they are, a search of nconf goes to
\* the nearest match in its direction, and the one case in which it does not end
\* is the one SearchFinds names.
THEOREM SearchIsRight == NconfSpec => []SearchFinds
<1>1. NconfInv => SearchFinds
  <2>1. ASSUME NconfInv PROVE SearchFinds
    <3>1. Finds(nm)
      BY <2>1 DEF NconfInv
    <3>2. \A to : WaySearched(nm, to) =
                    IF nm.asked.next THEN Farther(nm.asked.from, nm.asked.dir, to)
                    ELSE Distance(nm.asked.from, nm.asked.dir, to)
      BY DEF WaySearched, Way, Farther, Distance
    <3> QED
      BY <3>1, <3>2 DEF Finds, SearchFinds
  <2> QED
    BY <2>1
<1> QED
  BY <1>1, NconfStarts, NconfInductive, PTL DEF NconfSpec

\* However many entries a menu of nconf has, also none, whatever height the page
\* has, also none, and whether or not the value of a choice is still listed: after
\* every rebuilding of the list and every key an entry of a list that is not
\* empty is current, the remembered one if there is one of that number, and on a
\* full page as long as there is room for a row; and the menu crashes only where
\* it is empty or is shown at no entry.
THEOREM PageIsRight == NconfSpec => []PageHoldsCurrent
<1>1. NconfInv => PageHoldsCurrent
  <2> SUFFICES ASSUME NconfInv PROVE PageHoldsCurrent
    OBVIOUS
  <2>1. ASSUME nm.open \in {"conf", "choice"}, nm.n > 0
        PROVE  /\ nm.at \in 0..nm.n - 1
               /\ nm.fresh /\ nm.index \in 0..nm.n - 1 => nm.at = nm.index
               /\ nm.lines > 0 => /\ nm.at \in nm.top..nm.top + nm.lines - 1
                                  /\ nm.top + Min({nm.lines, nm.n}) <= nm.n
    <3>1. nm \in Menus /\ OnPage(nm) /\ Remembers(nm)
      BY <2>1 DEF NconfInv, Emptied
    <3>2. nm.lines > 0 => Min({nm.lines, nm.n}) = Rows(nm) /\ Rows(nm) <= nm.lines
      BY <3>1, RowsOf DEF OnPage, TopFits, Rows, Menus
    <3> QED
      BY <2>1, <3>1, <3>2, RowsOf DEF OnPage, TopFits, Remembers, Menus
  <2> QED
    BY <2>1 DEF NconfInv, PageHoldsCurrent
<1> QED
  BY <1>1, NconfStarts, NconfInductive, PTL DEF NconfSpec

=============================================================================
