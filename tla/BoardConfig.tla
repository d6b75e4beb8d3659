------------------------------ MODULE BoardConfig ------------------------------
(***************************************************************************)
(* How a developer configures and builds a board: the targets of the       *)
(* repository's Makefile (<board>-config, <board>, <board>-menuconfig) and *)
(* Buildroot's own "make", the Kconfig tools they run one after the other  *)
(* (conf --defconfig, --syncconfig, --savedefconfig and mconf), and the    *)
(* files these leave to each other.  A tool may be interrupted at any      *)
(* step, and Config.in may change between two targets.                     *)
(***************************************************************************)
EXTENDS KconfigSymbols, BoardFiles

CONSTANTS           \* Sources: see KconfigSymbols
    Changes(_, _), \* and which may replace which
    Entered,       \* the values a developer enters
    MaxEdits,      \* bounds what is entered in one menuconfig,
    MaxTargets,    \* the targets that are run
    MaxInterrupts, \* how often one is interrupted
    MaxUpgrades    \* and how often Config.in changes

VARIABLES
    mem,        \* the memory of the tool that runs
    work,       \* the entries of the menu conf has still to visit
    asked,      \* something was asked in this visit
    answered,   \* what was answered since conf started, with the entries a choice had
    saved,      \* the .config the defconfig was saved from, and its Config.in
    counts      \* see the bounds

tool    == <<mem, work, asked, answered>>
history == <<saved, counts>>
vars    == <<fileVars, tool, history>>

NoTool   == mem' = Parsed(source) /\ work' = <<>> /\ asked' = FALSE /\ answered' = {}
NotSaved == [k |-> {}, lines |-> <<>>]

Init ==
    /\ FilesInit
    /\ mem = Parsed(source) /\ work = <<>> /\ asked = FALSE /\ answered = {}
    /\ saved = NotSaved
    /\ counts = [edits |-> 0, targets |-> 0, interrupts |-> 0, upgrades |-> 0]

-----------------------------------------------------------------------------
(* The Makefiles *)

Run(t) ==
    /\ counts.targets < MaxTargets /\ StartTarget(t)
    /\ mem' = Parsed(source)
    /\ counts' = [counts EXCEPT !.targets = @ + 1, !.edits = 0]
    /\ UNCHANGED <<work, asked, answered, saved>>

Upgrade(k) ==
    /\ Changes(source, k) /\ counts.upgrades < MaxUpgrades
    /\ source' = k /\ ChangeSource
    /\ mem' = Parsed(k)
    /\ counts' = [counts EXCEPT !.upgrades = @ + 1]
    /\ UNCHANGED <<work, asked, answered, saved>>

\* the memory of a tool goes with it
Files ==
    /\ \/ MoveOld \/ PlaceNew \/ ExitUnsaved \/ OpenCopy \/ FillCopy
       \/ DropLocation \/ ReadMakefile \/ WriteAuto
    /\ IF tools' = tools THEN UNCHANGED tool ELSE NoTool
    /\ UNCHANGED history

\* what conf_write writes
WriteLines(m) ==
    /\ \E w \in {conf_write(m)} : mem' = w.m /\ out' = w.lines
    /\ UNCHANGED <<work, asked, answered>>

\* conf --defconfig
AllDefaults == conf_set_all_new_symbols(conf_read(mem, defconfig.lines), "default")

Defconfig ==
    /\ Running("defconfig") /\ StartWriting
    /\ WriteLines(AllDefaults)
    /\ UNCHANGED history

\* conf --savedefconfig
ReadConfig == IF config.there THEN conf_read(mem, config.lines) ELSE [mem EXCEPT !.changed = TRUE]
StartSave ==
    /\ OpenDefconfig
    /\ out' = conf_write_defconfig(ReadConfig).lines
    /\ UNCHANGED <<tool, history>>

EndSave ==
    /\ FillDefconfig /\ NoTool
    /\ saved' = [k |-> {source}, lines |-> config.lines]
    /\ UNCHANGED counts

\* of the lines that are being written the first ones stay
Interrupt ==
    /\ ~Idle /\ counts.interrupts < MaxInterrupts
    /\ counts' = [counts EXCEPT !.interrupts = @ + 1]
    /\ \E n \in 0..Cardinality(DOMAIN out) :
          LET cut == Torn([s \in ToSet(SubSeq(LinesOf(source, out), 1, n)) |-> out[s]])
          IN /\ at # "fill" => n = 0
             /\ bak' = IF at = "fill" /\ Running("cp") THEN cut ELSE bak
             /\ defconfig' = IF at = "fill" /\ Running("savedefconfig") THEN cut ELSE defconfig
    /\ Kill /\ NoTool
    /\ UNCHANGED saved

-----------------------------------------------------------------------------
(* mconf *)

\* drawing the menu computes what it shows; of a choice the entry that is chosen
RECURSIVE Shown(_, _)
EntriesDrawn(m, s) == IF ~IsChoice(s) THEN m.k.below[s]
                      ELSE IF m.chosen[s] = NoSym THEN <<>> ELSE m.k.below[m.chosen[s]]
ShownBelow(m, s) ==
    LET Draw(a) == FoldLeft(Shown, a, EntriesDrawn(a, s))
    IN Draw(FoldLeft(LAMBDA a, t : menu_is_visible(a, t).m, m, IF IsChoice(s) THEN m.k.below[s] ELSE <<>>))
ShownIfVisible(v, s) == IF v.yes THEN ShownBelow(v.m, s) ELSE v.m
Shown(m, s) == ShownIfVisible(menu_is_visible(m, s), s)
Drawn(m) == FoldLeft(Shown, m, m.k.below[Root])

OpenMenu ==
    /\ Work("mconf", "start", "edit")
    /\ mem' = Drawn(ReadConfig)
    /\ UNCHANGED <<work, asked, answered, history>>

\* keys on an entry of the menu, an entry picked in a choice, a number entered
Edit(s, v) ==
    /\ Running("mconf") /\ at = "edit" /\ counts.edits < MaxEdits
    /\ IsBool(s) => v \in {No, Yes}
    /\ IsMember(mem.k, s) => v = Yes /\ mem.curr[ChoiceOf(mem.k, s)] = Yes
    /\ menu_is_visible(mem, s).yes
    /\ \E set \in {set_value(mem, s, v)} : set.ok /\ mem' = Drawn(set.m)
    /\ counts' = [counts EXCEPT !.edits = @ + 1]
    /\ UNCHANGED <<fileVars, work, asked, answered, saved>>

SaveAndExit ==
    /\ Running("mconf") /\ mem.changed /\ StartWriting
    /\ WriteLines(mem)
    /\ UNCHANGED history

-----------------------------------------------------------------------------
(* conf --syncconfig: check_conf visits the menu for entries without a value, and *)
(* conf asks for every such entry of the whole menu; again until nothing was asked *)

Visit(what, ss) == [i \in DOMAIN ss |-> [do |-> what, s |-> ss[i]]]

IsNew(m, s) ==
    /\ s \notin m.has
    /\ sym_is_changable(m, s) \/ (IsChoice(s) /\ m.curr[s] = Yes)
VisibleEntries(m, c) ==
    LET Add(ss, v, t) == [m |-> v.m, ss |-> IF v.yes THEN Append(ss, t) ELSE ss]
    IN FoldLeft(LAMBDA f, t : Add(f.ss, menu_is_visible(f.m, t), t), [m |-> m, ss |-> <<>>], m.k.members[c])

Check(m, s, rest, asking) ==
    LET below == Visit("check", m.k.below[s])
    IN IF IsNew(m, s) THEN [m |-> m, asked |-> TRUE, work |-> Visit("conf", m.k.below[Root]) \o below \o rest]
       ELSE [m |-> m, asked |-> asking, work |-> below \o rest]

\* a choice that is not new keeps its entry, one with a single entry takes it
Choose(m, s, rest, asking) ==
    [m |-> set_value(m, s, Yes).m, asked |-> asking, work |-> Visit("conf", m.k.below[s]) \o rest]
EntryOfChoice(m, c, v, rest, asking) ==
    IF Len(v.ss) = 1 \/ c \in m.has
    THEN Choose(v.m, IF Len(v.ss) = 1 THEN v.ss[1] ELSE m.chosen[c], rest, asking)
    ELSE [m |-> v.m, asked |-> asking, work |-> Visit("ask", <<c>>) \o rest]
ConfChoice(m, c, rest, asking) ==
    IF m.curr[c] = No THEN [m |-> m, asked |-> asking, work |-> rest]
    ELSE EntryOfChoice(m, c, VisibleEntries(m, c), rest, asking)
Conf(m, s, rest, asking) ==
    LET quiet == ~sym_is_changable(m, s) \/ s \in m.has
    IN IF IsChoice(s) THEN ConfChoice(m, s, rest, asking)
       ELSE [m |-> m, asked |-> asking,
             work |-> (IF quiet THEN Visit("conf", m.k.below[s]) ELSE Visit("ask", <<s>>)) \o rest]

\* up to the next question
VisitEntry(c, s, v) ==
    IF ~v.yes THEN [c EXCEPT !.m = v.m, !.work = Tail(@)]
    ELSE IF Head(c.work).do = "check" THEN Check(v.m, s, Tail(c.work), c.asked)
    ELSE Conf(v.m, s, Tail(c.work), c.asked)
RECURSIVE UpToQuestion(_)
UpToQuestion(c) ==
    IF c.work = <<>> \/ Head(c.work).do = "ask" THEN c
    ELSE UpToQuestion(VisitEntry(c, Head(c.work).s, menu_is_visible(c.m, Head(c.work).s)))
Question == <<Head(work).s,
              IF IsChoice(Head(work).s) THEN ToSet(VisibleEntries(mem, Head(work).s).ss) ELSE {}>>
Continue(next) == \E c \in {next} : mem' = c.m /\ work' = c.work /\ asked' = c.asked

CheckMenu(m) == UpToQuestion([m |-> m, asked |-> FALSE, work |-> Visit("check", m.k.below[Root])])

StartSync ==
    /\ Work("syncconfig", "start", "ask")
    /\ Continue(CheckMenu(conf_read(mem, config.lines)))
    /\ UNCHANGED <<answered, history>>

\* a value that is not accepted is asked for again
Answer(s, v) ==
    /\ at = "ask" /\ work # <<>> /\ Head(work).s = s /\ ~IsChoice(s)
    /\ IsBool(s) => v \in {No, Yes}
    /\ \E set \in {set_value(mem, s, v)} :
          set.ok /\ Continue(UpToQuestion([m    |-> set.m, asked |-> asked,
                                           work |-> Visit("conf", mem.k.below[s]) \o Tail(work)]))
    /\ answered' = answered \union {<<s, {}>>}
    /\ UNCHANGED <<fileVars, history>>

AnswerChoice(s) ==
    /\ at = "ask" /\ work # <<>> /\ IsChoice(Head(work).s)
    /\ \E q \in {Question} : s \in q[2] /\ answered' = answered \union {q}
    /\ Continue(UpToQuestion(Choose(mem, s, Tail(work), asked)))
    /\ UNCHANGED <<fileVars, history>>

VisitAgain ==
    /\ at = "ask" /\ work = <<>> /\ asked
    /\ Continue(CheckMenu(mem))
    /\ UNCHANGED <<fileVars, answered, history>>

EndSync ==
    /\ at = "ask" /\ work = <<>> /\ ~asked
    /\ IF mem.changed THEN StartWriting /\ WriteLines(mem)
       ELSE Work("syncconfig", "ask", "auto") /\ UNCHANGED tool
    /\ UNCHANGED history

-----------------------------------------------------------------------------
Sync == \/ StartSync \/ VisitAgain \/ EndSync
        \/ \E s \in Symbols, v \in Entered : Answer(s, v)
        \/ \E s \in Symbols : AnswerChoice(s)
Mconf == \/ OpenMenu \/ SaveAndExit
         \/ \E s \in Symbols \ ChoiceSymbols, v \in Entered : Edit(s, v)
Next == \/ \E t \in Targets : Run(t)
        \/ \E k \in Sources : Upgrade(k)
        \/ Defconfig \/ Mconf \/ StartSave \/ EndSave \/ Files \/ Sync \/ Interrupt

Spec == Init /\ [][Next]_vars

-----------------------------------------------------------------------------
(* Properties *)

\* A build after <board>-menuconfig configures exactly what was saved there: the
\* defconfig that savedefconfig reduces to what differs from the defaults brings
\* the whole .config back.
RebuildsWhatWasSaved ==
    (target = "build" /\ used.there /\ defconfig.whole /\ saved.k = {source}) => used.lines = saved.lines

\* The build never waits for an answer unless Config.in has changed since the
\* .config was written: a .config that conf writes has a value for everything
\* conf_read and check_conf ask for.
AsksOnlyWhatIsNew == (at = "ask" /\ work # <<>>) => config.by # {source}

\* A build ends with the settings that .config then has: syncconfig, which runs when
\* the makefiles have read .config, changes nothing unless Config.in has changed.
BuildsWhatConfigSays ==
    (Idle /\ target \in {"build", "make"} /\ used.by = {source} /\ config.there) => used.lines = config.lines

\* conf goes over the menu until it has nothing left to ask, and gets there: what was
\* answered is not asked for again, a choice only when other entries are visible.
AsksOnce == (at = "ask" /\ work # <<>>) => Question \notin answered

=============================================================================
