----------------------------- MODULE KconfigSymbols -----------------------------
(***************************************************************************)
(* The symbols of a Kconfig tool in its memory: their values and flags     *)
(* (symbol.c), and reading and writing them (confdata.c).  A value is      *)
(* computed when it is asked for and kept while its symbol is VALID, so    *)
(* every function here takes the memory m and gives the memory it leaves.  *)
(* Buildroot has no tristate symbols and no "option modules", no imply and *)
(* no optional choice: a symbol is a bool, a choice or an int, modules_sym *)
(* stays n, and what Kconfig has for the others is left out.               *)
(***************************************************************************)
EXTENDS KconfigExpr, FiniteSets

CONSTANTS ChoiceSymbols,   \* the choices, among the bool symbols
          NumberOf   \* the value of each symbol that is a number

\* What the tool has parsed, k, has for every symbol the condition of its
\* prompt (n where there is none), defaults, select and own dependencies and range, for
\* every choice its members, the symbols below each, and the order of the table.
Constant(s)     == s \in Constants3 \/ s \in DOMAIN NumberOf
Symbols         == {s \in DOMAIN TypeOf : ~Constant(s)}
NoRange         == <<>>
Empty           == -1     \* the empty string
AsNumber(v)     == IF v = Empty THEN 0 ELSE v                    \* strtoll
Valid(v)        == v # Empty                                     \* sym_string_valid
IsBool(s)       == TypeOf[s] = "boolean"
IsChoice(s)     == s \in ChoiceSymbols
MembersOf(k, c) == ToSet(k.members[c])
IsMember(k, s)  == \E c \in ChoiceSymbols : s \in MembersOf(k, c)
ChoiceOf(k, s)  == CHOOSE c \in ChoiceSymbols : s \in MembersOf(k, c)

Nothing == [s \in Symbols |-> IF IsBool(s) THEN No ELSE Empty]

\* has: DEF_USER, need: NEED_SET_CHOICE_VALUES; user and curr are the entered and
\* the computed values, for a choice with pick and chosen; changed: unsaved
Parsed(k) ==
    [k |-> k, valid |-> {}, write |-> {}, has |-> {}, need |-> {},
     user |-> Nothing, pick |-> [c \in ChoiceSymbols |-> NoSym],
     curr |-> Nothing @@ NumberOf, chosen |-> [c \in ChoiceSymbols |-> NoSym],
     vis |-> [s \in Symbols |-> No], dir |-> [s \in Symbols |-> No],
     rev |-> [s \in Symbols |-> No], changed |-> FALSE]

Visible(m, s)         == m.vis[s] # No
sym_is_changable(m, s) == m.vis[s] > m.rev[s]
AsBool(v)             == IF v = Mod THEN Yes ELSE v

sym_clear_all_valid(m) == [m EXCEPT !.valid = {}, !.changed = TRUE]

\* entries of the choice without a value are n; the choice is entered
set_all_choice_values(m, c) ==
    [m EXCEPT !.user  = [s \in Symbols |-> IF s \in MembersOf(m.k, c) \ m.has THEN No ELSE @[s]],
              !.has   = @ \union {c},
              !.valid = @ \ {c},
              !.need  = @ \ {c}]

-----------------------------------------------------------------------------
(* Values *)

\* the symbols of an expression, in the order expr_calc_value meets them
RECURSIVE SymSeq(_)
SymSeq(e) ==
    CASE e.op \in Junctions -> FlattenSeq([i \in DOMAIN e.args |-> SymSeq(e.args[i])])
      [] e.op = "not"       -> SymSeq(e.e)
      [] e.op = "sym"       -> <<e.s>>
      [] e.op \in Relations -> <<e.l, e.r>>
      [] OTHER -> <<>>

RECURSIVE sym_calc_value(_, _)

ValueIn(m, e)       == ExprValue(e, m.curr)
AskedForValue(m, e) == LET Value(a) == [m |-> a, v |-> ValueIn(a, e)]
                       IN Value(FoldLeft(sym_calc_value, m, SymSeq(e)))

\* the conditions of the prompt, of what s depends on and of what selects it
sym_calc_visibility(m, s) ==
    LET Set(field, r) == [r.m EXCEPT ![field][s] = AsBool(r.v)]
    IN FoldLeft(LAMBDA a, field : Set(field, AskedForValue(a, a.k[field][s])), m,
                IF IsMember(m.k, s) THEN <<"vis">> ELSE <<"vis", "dir", "rev">>)

\* the first property of the sequence whose condition holds and which counts
NoProp == [e |-> Null, cond |-> Null]
FirstProp(m, props, Counts(_, _)) ==
    LET Take(p, c) == [m |-> c.m, prop |-> IF c.v # No /\ Counts(c.m, p) THEN p ELSE NoProp]
    IN FoldLeft(LAMBDA f, p : IF f.prop # NoProp THEN f ELSE Take(p, AskedForValue(f.m, p.cond)),
                [m |-> m, prop |-> NoProp], props)
Always(m, p) == TRUE
sym_get_default_prop(m, s) == FirstProp(m, m.k.defaults[s], Always)
sym_get_range_prop(m, s)   == FirstProp(m, m.k.range[s], Always)

FirstVisible(m, ss) ==
    IF \E i \in DOMAIN ss : Visible(m, ss[i])
    THEN ss[CHOOSE i \in DOMAIN ss : Visible(m, ss[i]) /\ \A j \in 1..(i - 1) : ~Visible(m, ss[j])]
    ELSE NoSym
\* a default counts when the entry it names is visible
sym_choice_default(m, c) ==
    LET Entry(f) == [m |-> f.m, s |-> IF f.prop # NoProp THEN f.prop.e.s ELSE FirstVisible(f.m, m.k.members[c])]
    IN Entry(FirstProp(m, m.k.defaults[c], LAMBDA a, p : Visible(a, p.e.s)))

\* the entry that was entered, or else the default
ChooseEntry(m, c) ==
    LET Default(d) == [d.m EXCEPT !.chosen[c] = d.s, !.curr[c] = IF d.s = NoSym THEN No ELSE @]
    IN IF m.pick[c] # NoSym /\ Visible(m, m.pick[c]) THEN [m EXCEPT !.chosen[c] = m.pick[c]]
       ELSE Default(sym_choice_default(m, c))
\* a choice with a visible entry that has no value is itself without a value
sym_calc_choice(m, c) ==
    LET Checked(a) == IF \A s \in MembersOf(a.k, c) : Visible(a, s) => s \in a.has
                      THEN a ELSE [a EXCEPT !.has = @ \ {c}]
    IN ChooseEntry(Checked(FoldLeft(sym_calc_visibility, m, m.k.members[c])), c)

\* the bound v is beyond, looked at in the order of the range, Empty if it is within
FirstBeyond(f, v) ==
    LET Beyond(side, b)   == IF side = "l" THEN v < b ELSE v > b
        Compared(a, s, side) == [m |-> a, bound |-> IF Beyond(side, AsNumber(a.curr[s]))
                                                    THEN AsNumber(a.curr[s]) ELSE Empty]
    IN FoldLeft(LAMBDA r, side : IF r.bound # Empty THEN r
                                 ELSE Compared(sym_calc_value(r.m, f.prop.e[side]), f.prop.e[side], side),
                [m |-> f.m, bound |-> Empty], IF f.prop = NoProp THEN <<>> ELSE <<"l", "r">>)
BoundBeyond(m, s, v) == FirstBeyond(sym_get_range_prop(m, s), v)

\* a value outside the range becomes the lower or the upper bound
sym_validate_range(m, s) ==
    LET Bounded(r) == IF r.bound = Empty THEN r.m ELSE [r.m EXCEPT !.curr[s] = r.bound]
    IN Bounded(BoundBeyond(m, s, AsNumber(m.curr[s])))

Written(m, s, yes) == IF yes THEN [m EXCEPT !.write = @ \union {s}] ELSE m

\* the default of a symbol, none for a choice
ValueOfDefault(d, s) ==
    LET Truth(r)  == [m |-> r.m, v |-> Min2(r.v, ValueIn(r.m, d.prop.cond)), given |-> TRUE]
        Number(a) == [m |-> a, v |-> a.curr[d.prop.e.s], given |-> TRUE]
    IN IF d.prop = NoProp THEN [m |-> d.m, v |-> Nothing[s], given |-> FALSE]
       ELSE IF IsBool(s) THEN Truth(AskedForValue(d.m, d.prop.e))
       ELSE Number(sym_calc_value(d.m, d.prop.e.s))
DefaultOf(m, s) ==
    IF IsChoice(s) THEN [m |-> m, v |-> No, given |-> FALSE]
    ELSE ValueOfDefault(sym_get_default_prop(m, s), s)

\* outside a choice: what was entered, or else the default; a bool is at least what
\* selects it, a number within its range
EnteredOrDefault(m, s) ==
    LET Default(r) == [Written(r.m, s, r.given /\ (IsBool(s) => r.v # No)) EXCEPT !.curr[s] = r.v]
    IN IF Visible(m, s) /\ s \in m.has
       THEN [m EXCEPT !.curr[s] = IF IsBool(s) THEN Min2(m.user[s], m.vis[s]) ELSE m.user[s]]
       ELSE Default(DefaultOf(Written(m, s, m.rev[s] # No), s))
Limited(m, s) == IF IsBool(s) THEN [m EXCEPT !.curr[s] = AsBool(Max2(@, m.rev[s]))]
                 ELSE sym_validate_range(m, s)

CalcMember(m, s) == [m EXCEPT !.curr[s] = IF m.chosen[ChoiceOf(m.k, s)] = s THEN Yes ELSE No]

CalcSymbol(m, s) ==
    IF IsMember(m.k, s) /\ Visible(m, s) THEN CalcMember(m, s) ELSE Limited(EnteredOrDefault(m, s), s)

CalcChoiceEntries(m, c) ==
    LET Write(a) == IF c \in a.write
                    THEN [a EXCEPT !.write = @ \union {s \in MembersOf(a.k, c) : Visible(a, s)}] ELSE a
    IN IF ~IsChoice(c) THEN m
       ELSE Write(IF m.curr[c] = Yes THEN sym_calc_choice(m, c) ELSE [m EXCEPT !.chosen[c] = NoSym])

sym_calc_value(m, s) ==
    LET Owed(a)    == IF IsMember(a.k, s) /\ s \in a.need
                      THEN sym_calc_value([a EXCEPT !.need = @ \ {s}], ChoiceOf(a.k, s)) ELSE a
        Fresh(a)   == [a EXCEPT !.valid = @ \union {s}, !.write = @ \ {s}]
        Seen(a)    == Written([a EXCEPT !.curr[s] = Nothing[s]], s, Visible(a, s))
        Settled(a) == IF s \in a.need THEN set_all_choice_values(a, s) ELSE a
    IN IF Constant(s) \/ s \in m.valid THEN m
       ELSE Settled(CalcChoiceEntries(CalcSymbol(Seen(sym_calc_visibility(Fresh(Owed(m)), s)), s), s))

\* with "is not set" for a bool that is n
sym_get_string_value(m, s) == m.curr[s]

\* the value the symbol would have if nothing were entered; ranges are not applied
sym_get_string_default(m, s) ==
    LET Least(r) == [m |-> r.m, v |-> IF IsBool(s) THEN AsBool(Max2(r.v, r.m.rev[s])) ELSE r.v]
    IN Least(DefaultOf(sym_calc_visibility(m, s), s))

-----------------------------------------------------------------------------
(* Entering a value: ok says whether it was accepted *)

sym_tristate_within_range(m, s, v) ==
    /\ m.vis[s] > m.rev[s]
    /\ IF IsMember(m.k, s) THEN v = Yes ELSE v >= m.rev[s] /\ v <= m.vis[s]

\* mutant: the answer that is the value already leaves no mark
SetOnlyChanges(m, s, v) ==
    IF m.curr[s] = v THEN [ok |-> TRUE, m |-> m]
    ELSE [ok |-> sym_tristate_within_range(m, s, v),
          m  |-> IF sym_tristate_within_range(m, s, v)
                 THEN sym_clear_all_valid([m EXCEPT !.has = @ \union {s}, !.user[s] = v]) ELSE m]
sym_set_tristate_value(m, s, v) ==
    LET old  == m.curr[s]
        all  == MembersOf(m.k, ChoiceOf(m.k, s))
        a    == [m EXCEPT !.has = @ \union {s}]
        b    == IF IsMember(m.k, s) /\ v = Yes
                THEN [a EXCEPT !.pick[ChoiceOf(m.k, s)] = s,
                               !.has = @ \union {ChoiceOf(m.k, s)} \union {t \in all : Visible(m, t)}]
                ELSE a
        c    == [b EXCEPT !.user[s] = v]
    IN IF old # v /\ ~sym_tristate_within_range(m, s, v) THEN [ok |-> FALSE, m |-> m]
       ELSE [ok |-> TRUE, m |-> IF old = v THEN c ELSE sym_clear_all_valid(c)]

sym_string_within_range(m, s, v) ==
    LET Within(r) == [ok |-> r.bound = Empty, m |-> r.m]
    IN IF ~Valid(v) THEN [ok |-> FALSE, m |-> m] ELSE Within(BoundBeyond(m, s, v))

\* what was already entered stays as it is, and what depends on it too
sym_set_string_value(m, s, v) ==
    LET Enter(a) == IF a.user[s] = v THEN a ELSE sym_clear_all_valid([a EXCEPT !.user[s] = v])
        Set(r)   == IF r.ok THEN [ok |-> TRUE, m |-> Enter([r.m EXCEPT !.has = @ \union {s}])] ELSE r
    IN Set(sym_string_within_range(m, s, v))

set_value(m, s, v) == IF IsBool(s) THEN sym_set_tristate_value(m, s, v) ELSE sym_set_string_value(m, s, v)

-----------------------------------------------------------------------------
(* The menu *)

Root == "root"
RECURSIVE EntriesBelow(_, _)
EntriesBelow(k, x) ==
    FlattenSeq([i \in DOMAIN k.below[x] |-> <<k.below[x][i]>> \o EntriesBelow(k, k.below[x][i])])
HasPrompt(k, s) == k.vis[s] # Sym("n")

\* an entry without a visible prompt shows while one below it does, and counts as entered
RECURSIVE menu_is_visible(_, _)
menu_is_visible(m, s) ==
    LET Try(f, t) == IF f.yes THEN f ELSE menu_is_visible(f.m, t)
        Below(b)  == IF b.yes THEN [b EXCEPT !.m.has = @ \union {s}] ELSE b
        Entry(a)  == IF Visible(a, s) \/ a.curr[s] = No THEN [m |-> a, yes |-> Visible(a, s)]
                     ELSE Below(FoldLeft(Try, [m |-> a, yes |-> FALSE], a.k.below[s]))
    IN IF ~HasPrompt(m.k, s) THEN [m |-> m, yes |-> FALSE] ELSE Entry(sym_calc_value(m, s))

-----------------------------------------------------------------------------
(* Files: the lines of a file are the symbols it has and their values, in the order of the menu *)

LinesOf(k, lines) == SelectSeq(EntriesBelow(k, Root), LAMBDA s : s \in DOMAIN lines)
Accepted(s, v)    == IsBool(s) \/ Valid(v)

\* the last of several chosen entries counts
conf_read_simple(m, lines) ==
    LET taken  == SelectSeq(LinesOf(m.k, lines), LAMBDA s : Accepted(s, lines[s]))
        On(c)  == SelectSeq(taken, LAMBDA s : s \in MembersOf(m.k, c) /\ lines[s] = Yes)
        user   == [s \in Symbols |->
                     CASE s \in ToSet(taken) -> lines[s]
                       [] IsChoice(s) -> IF On(s) = <<>> THEN No ELSE Yes
                       [] OTHER -> Nothing[s]]
    IN [m EXCEPT !.valid = {}, !.user = user, !.has = ChoiceSymbols \union ToSet(taken),
                 !.pick = [c \in ChoiceSymbols |-> IF On(c) = <<>> THEN NoSym ELSE Last(On(c))]]
\* a value the type does not allow, or a second entry of a choice
Warns(k, lines) ==
    \/ \E s \in DOMAIN lines : ~Accepted(s, lines[s])
    \/ \E c \in ChoiceSymbols : Cardinality({s \in MembersOf(k, c) \cap DOMAIN lines : lines[s] = Yes}) > 1

\* the value computed, or its absence, is not what the file has
Differs(m, s) ==
    /\ ~IsChoice(s)
    /\ IF s \in m.has /\ s \in m.write THEN m.user[s] # m.curr[s] ELSE s \in m.has \/ s \in m.write

\* drop the values of symbols that are not visible, and those out of range
Reset(r, s) ==
    LET Hide(a)   == IF ~Visible(a, s) /\ ~r.unsaved THEN [a EXCEPT !.has = @ \ {s}] ELSE a
        Ranged(t) == IF t.ok THEN [r EXCEPT !.m = t.m]
                     ELSE [m |-> [t.m EXCEPT !.valid = @ \ {s}, !.has = @ \ {s}], unsaved |-> TRUE]
    IN IF s \notin r.m.has \/ IsMember(r.m.k, s) THEN r
       ELSE IF IsBool(s) THEN [r EXCEPT !.m = Hide(@)]
       ELSE Ranged(sym_string_within_range(Hide(r.m), s, r.m.user[s]))

conf_read(m, lines) ==
    LET Compared(r, a, s) == [m |-> a, unsaved |-> r.unsaved \/ Differs(a, s)]
        Done(r) == [r.m EXCEPT !.changed = r.unsaved \/ Warns(m.k, lines)]
        Read(a) == [m |-> a, unsaved |-> FALSE]
    IN Done(FoldLeft(Reset, FoldLeft(LAMBDA r, s : Compared(r, sym_calc_value(r.m, s), s),
                                     Read(conf_read_simple(m, lines)), m.k.table), m.k.table))

AddLine(w, m, s) == [m |-> m, lines |-> w.lines @@ (s :> sym_get_string_value(m, s))]
\* mutant: a bool that is n is not worth a line
WriteSet(w, m, s) ==
    IF s \in m.write /\ ~(IsBool(s) /\ m.curr[s] = No) THEN AddLine(w, [m EXCEPT !.write = @ \ {s}], s)
    ELSE [w EXCEPT !.m = m]
\* each symbol is written once
WriteSymbol(w, m, s) ==
    IF s \in m.write THEN AddLine(w, [m EXCEPT !.write = @ \ {s}], s) ELSE [w EXCEPT !.m = m]
\* the lines one pass over the menu writes
conf_write(m) ==
    LET Start == [m |-> IF m.changed THEN m ELSE sym_clear_all_valid(m), lines |-> <<>>]
    IN [FoldLeft(LAMBDA w, s : IF IsChoice(s) THEN w ELSE WriteSymbol(w, sym_calc_value(w.m, s), s),
                 Start, EntriesBelow(m.k, Root))
          EXCEPT !.m.changed = FALSE]

\* mutant: the default of a choice is its first visible entry
FirstEntry(m, s) ==
    [m |-> m, yes |-> FirstVisible(m, m.k.members[ChoiceOf(m.k, s)]) = s /\ m.curr[s] = Yes]
\* the entry its choice would have by default is left out
ChoiceDefault(m, s) ==
    LET Same(d) == [m |-> d.m, yes |-> d.s = s /\ m.curr[s] = Yes]
    IN Same(sym_choice_default(m, ChoiceOf(m.k, s)))
\* a line for what differs from the default d, and one for a number or a bool of its own
LineUnlessDefault(w, s, d) ==
    LET Line(c) == IF c.yes THEN [w EXCEPT !.m = c.m] ELSE AddLine(w, c.m, s)
    IN IF sym_get_string_value(d.m, s) = d.v THEN [w EXCEPT !.m = d.m]
       ELSE Line(IF IsMember(d.m.k, s) THEN ChoiceDefault(d.m, s) ELSE [m |-> d.m, yes |-> FALSE])
SaveSymbol(w, m, s) ==
    LET Once(a) == [a EXCEPT !.write = @ \ {s}]
    IN IF s \notin m.write THEN [w EXCEPT !.m = m]
       ELSE IF ~sym_is_changable(m, s) THEN [w EXCEPT !.m = Once(m)]
       ELSE LineUnlessDefault(w, s, sym_get_string_default(Once(m), s))
conf_write_defconfig(m) ==
    FoldLeft(LAMBDA w, s : IF IsChoice(s) THEN w ELSE SaveSymbol(w, sym_calc_value(w.m, s), s),
             [m |-> sym_clear_all_valid(m), lines |-> <<>>], EntriesBelow(m.k, Root))

\* the modes of conf that give every new symbol a value; "default" gives none
conf_set_all_new_symbols(m, mode) ==
    LET new == {s \in Symbols : IsBool(s) /\ s \notin m.has \union m.valid}
        a   == IF mode = "default" THEN m
               ELSE [m EXCEPT !.has  = @ \union new,
                              !.user = [s \in Symbols |-> IF s \in new THEN ConstantValue(mode) ELSE @[s]]]
        b   == sym_clear_all_valid(a)
        c   == [b EXCEPT !.need = @ \union (ChoiceSymbols \ b.has) \union {s \in Symbols : IsMember(b.k, s)}]
    IN FoldLeft(LAMBDA w, s : IF s \in w.has THEN w ELSE set_all_choice_values(sym_calc_value(w, s), s),
                c, SelectSeq(m.k.table, IsChoice))

=============================================================================
