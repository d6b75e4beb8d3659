------------------------------ MODULE KconfigMenu ------------------------------
(***************************************************************************)
(* The menu tree of the Kconfig tools: what the parser makes of the        *)
(* statements of the Config.in files (menu_add_... of menu.c), how         *)
(* menu_finalize passes the dependencies down, builds submenus and         *)
(* flattens the rest, and how sym_check_deps of symbol.c looks for loops.  *)
(* A node of the tree is a number in the order of the file; 0 is the root  *)
(* menu.  list, next and parent are the pointers of struct menu.           *)
(***************************************************************************)
EXTENDS KconfigExpr, FiniteSets

CONSTANTS
    Symbols,      \* the symbols the configuration may define
    Selectable,   \* those of them that are selected or implied
    ConfigDeps,   \* "depends on" of a config, Null if it has none
    PromptConds,  \* "if" of its prompt
    PropConds,    \* "if" of its selects, implies and defaults
    BlockDeps,    \* expressions of menu, if and choice statements
    Defaults,     \* expressions of its defaults
    Valuations,   \* values of the symbols, to compare expressions under
    MaxNodes,     \* bound: statements of the file
    MaxProps      \* bound: selects, implies and defaults

\* The symbol of a choice has no name; once its type is known it is one of these.
ChoiceSym(type) == IF type = "tristate" THEN "choice3" ELSE "choice2"

ASSUME MenuAssumption == /\ Symbols \subseteq DOMAIN TypeOf /\ Selectable \subseteq Symbols
                         /\ TypeOf["choice2"] = "boolean" /\ TypeOf["choice3"] = "tristate"
                         /\ MaxNodes \in Nat /\ MaxProps \in Nat
\* with modules off no tristate is m
ASSUME ValuationsAssumption ==
    \A val \in Valuations : \A s \in DOMAIN val :
        CASE TypeOf[s] = "boolean"  -> val[s] \in {No, Yes}
          [] TypeOf[s] = "tristate" -> val[s] \in {No, Yes} \cup (IF ValueOf(ModulesSym, val) = No THEN {} ELSE {Mod})
          [] OTHER -> val[s] \in Nat

Nodes    == 0..MaxNodes
Nil      == -1
NoPrompt == [op |-> "noprompt"]
NoSymbol == "nosymbol"

VARIABLES
    menu,     \* the tree
    current,  \* current_menu; the last node is current_entry
    stage,    \* "parsing", "checking"
    parsed,   \* the tree as it was parsed
    check,    \* the state of the loop check: symbols still to be checked, the
              \* flags SYMBOL_CHECK and SYMBOL_CHECKED, what the last check
              \* returned, the symbols at which loops were reported
    errors    \* conf_parse counts an error

vars == <<menu, current, stage, parsed, check, errors>>

Init ==
    /\ menu = [n |-> 0,                                  \* nodes but the root
               kind   |-> [x \in Nodes |-> "menu"],
               sym    |-> [x \in Nodes |-> NoSymbol],
               list   |-> [x \in Nodes |-> Nil],
               next   |-> [x \in Nodes |-> Nil],
               parent |-> [x \in Nodes |-> Nil],
               dep    |-> [x \in Nodes |-> Null],
               prompt |-> [x \in Nodes |-> IF x = 0 THEN Null ELSE NoPrompt],
               written |-> [x \in Nodes |-> Null],        \* history: the conditions of prompts
               visibility |-> [x \in Nodes |-> Null],
               type   |-> "unknown",                     \* of the choice
               members |-> <<>>,                         \* of the choice
               props  |-> <<>>,
               rev     |-> [s \in Symbols |-> Null],     \* rev_dep.expr
               implied |-> [s \in Symbols |-> Null],
               dir     |-> [s \in Symbols |-> Null],
               choiceRev |-> Null]                       \* rev_dep.expr of the choice
    /\ current = 0 /\ stage = "parsing"
    /\ parsed = menu /\ errors = FALSE
    /\ check = [todo |-> {}, on |-> {}, seen |-> {}, ret |-> NoSymbol, printed |-> {}]

-----------------------------------------------------------------------------
(* Parsing *)

ChoiceNodes(m) == {x \in 1..m.n : m.kind[x] = "choice"}

\* the nodes around x
RECURSIVE Around(_, _)
Around(m, x) == IF x = 0 THEN {} ELSE {m.parent[x]} \cup Around(m, m.parent[x])

\* menu_add_entry: last_entry_ptr is the list of an empty current menu, or the
\* next of its last entry
menu_add_entry(m, kind, s) ==
    LET x    == m.n + 1
        last == {y \in 1..m.n : m.parent[y] = current /\ m.next[y] = Nil}
        new  == [m EXCEPT !.n = x, !.kind[x] = kind, !.sym[x] = s, !.parent[x] = current]
    IN IF last = {} THEN [new EXCEPT !.list[current] = x]
       ELSE [new EXCEPT !.next[CHOOSE y \in last : TRUE] = x]

menu_add_dep(m, e) == [m EXCEPT !.dep[m.n] = expr_alloc_and(m.dep[m.n], e)]

\* a prompt is visible only as all menus around it are ("visible if")
menu_add_prompt(m, type, cond) ==
    LET x       == m.n
        seen    == SelectSeq([k \in 1..x |-> x - k], LAMBDA y : y \in Around(m, x) /\ m.visibility[y] # Null)
        visible == FoldLeft(LAMBDA e, y : expr_alloc_and(e, m.visibility[y]), cond, seen)
    IN [m EXCEPT !.prompt[x] = IF type = "prompt" THEN visible ELSE cond, !.written[x] = cond]

menu_add_visibility(m, e) == [m EXCEPT !.visibility[m.n] = expr_alloc_and(m.visibility[m.n], e)]

\* the grammar: a menu or choice does not go right into a choice, but into an if
\* in it; bounds: one choice, and a choice has an entry
Open == stage = "parsing" /\ menu.n < MaxNodes

\* config: depends on, prompt ... if
ConfigStmt ==
    /\ Open
    /\ \E s \in Symbols, dep \in ConfigDeps, cond \in PromptConds \cup {NoPrompt} :
          LET m == menu_add_dep(menu_add_entry(menu, "config", s), dep)
          IN menu' = IF cond = NoPrompt THEN m ELSE menu_add_prompt(m, "prompt", cond)
    /\ UNCHANGED <<current, stage, parsed, check, errors>>

\* select, imply and default of the last config
Property ==
    /\ stage = "parsing" /\ menu.n > 0 /\ menu.kind[menu.n] = "config" /\ Len(menu.props) < MaxProps
    /\ menu.parent[menu.n] = current
    /\ \E cond \in PropConds :
          \/ \E type \in {"select", "imply"}, s \in Selectable :
                /\ s # menu.sym[menu.n]
                /\ menu' = [menu EXCEPT !.props = Append(@,
                      [type |-> type, node |-> menu.n, expr |-> Sym(s), cond |-> cond])]
          \/ \E e \in Defaults :
                menu' = [menu EXCEPT !.props = Append(@,
                      [type |-> "default", node |-> menu.n, expr |-> e, cond |-> cond])]
    /\ UNCHANGED <<current, stage, parsed, check, errors>>

\* menu: visible if, depends on; what follows lies in it (menu_add_menu)
MenuStmt ==
    /\ Open /\ menu.kind[current] # "choice"
    /\ \E dep \in BlockDeps, vis \in BlockDeps :
          /\ dep = Null \/ vis = Null
          /\ menu' = menu_add_dep(menu_add_visibility(
                       menu_add_prompt(menu_add_entry(menu, "menu", NoSymbol), "menu", Null), vis), dep)
    /\ current' = menu.n + 1
    /\ UNCHANGED <<stage, parsed, check, errors>>

IfStmt ==
    /\ Open
    /\ \E e \in BlockDeps \ {Null} :
          menu' = menu_add_dep(menu_add_entry(menu, "if", NoSymbol), e)
    /\ current' = menu.n + 1
    /\ UNCHANGED <<stage, parsed, check, errors>>

\* a choice may leave its type to its members
ChoiceStmt ==
    /\ Open /\ ChoiceNodes(menu) = {}
    /\ \E type \in {"unknown", "boolean", "tristate"}, dep \in BlockDeps :
          menu' = [menu_add_prompt(menu_add_dep(menu_add_entry(menu, "choice", NoSymbol), dep), "prompt", Null)
                     EXCEPT !.type = type]
    /\ current' = menu.n + 1
    /\ UNCHANGED <<stage, parsed, check, errors>>

\* endmenu, endif, endchoice: menu_end_menu
EndStmt ==
    /\ stage = "parsing" /\ current # 0 /\ (menu.kind[current] = "choice" => menu.list[current] # Nil)
    /\ current' = menu.parent[current]
    /\ UNCHANGED <<menu, stage, parsed, check, errors>>

-----------------------------------------------------------------------------
(* menu_finalize *)

RECURSIVE Entries(_, _)
Entries(m, x) == IF x = Nil THEN <<>> ELSE <<x>> \o Entries(m, m.next[x])

TypeAt(m, x) == IF m.kind[x] = "choice" THEN m.type
                ELSE IF m.kind[x] = "config" THEN TypeOf[m.sym[x]] ELSE "tristate"

\* a dependency passed down: rewritten, simplified, joined to the parent's
PassDown(base, e) == expr_eliminate_dups(expr_alloc_and(base, expr_transform(rewrite_m(e))))

\* ... to the prompt and the properties of x; selects and implies are noted at
\* their targets
Noted(m, x, deps, type) ==
    [s \in Symbols |->
       FoldLeft(LAMBDA e, p : expr_alloc_or(e, expr_alloc_and(Sym(m.sym[x]), p.cond)), deps[s],
                SelectSeq(m.props, LAMBDA p : p.node = x /\ p.type = type /\ p.expr = Sym(s)))]
Note(m, x) == [m EXCEPT !.rev = Noted(m, x, @, "select"), !.implied = Noted(m, x, @, "imply")]
\* a condition is the prompt's, with index 0, or that of a property
ToConditions(m, x, New(_)) ==
    LET At(i) == IF i = 0 THEN m.prompt[x] ELSE m.props[i].cond
        Applies(i) == IF i = 0 THEN m.prompt[x] # NoPrompt ELSE m.props[i].node = x
        Put(new) == [m EXCEPT !.prompt[x] = new[0],
                              !.props = [i \in DOMAIN @ |-> [@[i] EXCEPT !.cond = new[i]]]]
    IN Put([i \in 0..Len(m.props) |-> IF Applies(i) THEN New(At(i)) ELSE At(i)])
PropagateTo(m, x, parentdep) ==
    LET ForType(e) == IF TypeAt(m, x) # "tristate" THEN expr_trans_bool(e) ELSE e
        Conditions(t) == ToConditions(t, x, LAMBDA e : ForType(PassDown(t.dep[x], e)))
    IN Note(Conditions([m EXCEPT !.dep[x] = PassDown(parentdep, @)]), x)

\* the type of a choice without one is that of its first member
ResolveChoice(m, p) ==
    LET Typed(type) == [m EXCEPT !.type = type, !.sym[p] = ChoiceSym(type)]
        FirstType(configs) == IF m.type # "unknown" \/ configs = <<>> THEN m.type ELSE TypeOf[m.sym[configs[1]]]
    IN IF m.kind[p] # "choice" THEN m
       ELSE Typed(FirstType(SelectSeq(Entries(m, m.list[p]), LAMBDA x : m.kind[x] = "config")))

\* what an entry depends on where it is shown
DepOf(m, x) == IF m.prompt[x] # NoPrompt THEN m.prompt[x] ELSE m.dep[x]

Propagate(m0, p) ==
    LET ParentDep(m) == IF m.kind[p] = "choice" THEN Sym(m.sym[p]) ELSE DepOf(m, p)
        Down(m, parentdep) == FoldLeft(LAMBDA t, x : PropagateTo(t, x, parentdep), m, Entries(m, m.list[p]))
        To(m) == Down(m, ParentDep(m))
    IN To(ResolveChoice(m0, p))

Simplified(e) == expr_eliminate_dups(expr_transform(expr_trans_compare(e, "!=", "n")))

\* mutant: any dependency on s will do
AnyDependency(m, p, x) == expr_contains_symbol(DepOf(m, x), m.sym[p])
\* x, which comes after the symbol of p, goes into a submenu of p
BelongsBelow(m, p, x) ==
    LET Implies(both) == expr_is_yes(expr_eliminate_eq(both[2], both[1])[2])
        Prompted(y)   == IF m.prompt[y] # NoPrompt THEN m.prompt[y] ELSE Null
    IN /\ expr_contains_symbol(DepOf(m, x), m.sym[p])
       /\ \/ expr_depends_symbol(DepOf(m, x), m.sym[p])
          \/ Implies([i \in {1, 2} |-> Simplified(IF i = 1 THEN Prompted(p) ELSE DepOf(m, x))])

\* Flattening an "if", or undoing a submenu without a prompt: the entries of x
\* follow it in its parent's list.
\* mutant: the rest of the list is lost
SpliceOver(m, p, x) ==
    LET Up(inner) == [m EXCEPT !.parent = [y \in Nodes |-> IF Contains(inner, y) THEN p ELSE @[y]],
                               !.next[x] = inner[1], !.list[x] = Nil]
    IN IF m.list[x] = Nil \/ m.prompt[x] # NoPrompt THEN m ELSE Up(Entries(m, m.list[x]))
Splice(m, p, x) ==
    LET Up(inner) == [m EXCEPT !.parent = [y \in Nodes |-> IF Contains(inner, y) THEN p ELSE @[y]],
                               !.next[Last(inner)] = m.next[x], !.next[x] = inner[1], !.list[x] = Nil]
    IN IF m.list[x] = Nil \/ m.prompt[x] # NoPrompt THEN m ELSE Up(Entries(m, m.list[x]))

\* a member of a choice; a bool one of a tristate choice needs the choice at y
JoinChoice(m, p, x) ==
    LET NeedYes(t) == [ToConditions(t, x, LAMBDA e : expr_alloc_and(Comp("=", m.sym[p], "y"), e))
                         EXCEPT !.dep[x] = expr_alloc_and(Comp("=", m.sym[p], "y"), @)]
        Joined(t)  == IF m.type # "tristate" \/ TypeOf[m.sym[x]] = "tristate" THEN t ELSE NeedYes(t)
    IN IF m.kind[p] # "choice" \/ m.kind[x] # "config" \/ Contains(m.members, m.sym[x]) THEN m
       ELSE Joined([m EXCEPT !.members = Append(@, m.sym[x])])

RECURSIVE Settle(_, _, _)
Settle(m, p, x) ==
    LET On(t) == Settle(t, p, t.next[x])
    IN IF x = Nil THEN m ELSE On(Splice(JoinChoice(m, p, x), p, x))

\* a visible choice cannot be set to n (no choice here is "optional")
HoldChoice(m, p) ==
    IF m.kind[p] # "choice" THEN m
    ELSE [m EXCEPT !.choiceRev = expr_alloc_or(@, expr_alloc_and(m.prompt[p], Sym("m")))]

RECURSIVE menu_finalize(_, _), FinalizeFrom(_, _), Gather(_, _, _, _)
FinalizeFrom(m, x) ==
    LET On(t) == FinalizeFrom(t, t.next[x])
    IN IF x = Nil THEN m ELSE On(menu_finalize(m, x))

\* the entries after p that go into its submenu, up to the last
Gather(m, p, x, last) ==
    LET On(t) == Gather(t, p, t.next[x], x)
    IN IF x = Nil \/ ~BelongsBelow(m, p, x) THEN [m |-> m, last |-> last]
       ELSE On([menu_finalize(m, x) EXCEPT !.parent[x] = p])

AutoSubmenu(m, p) ==
    LET Cut(t, last) == IF last = Nil THEN t
                        ELSE [t EXCEPT !.list[p] = t.next[p], !.next[p] = t.next[last], !.next[last] = Nil]
        Made(g) == [Cut(g.m, g.last) EXCEPT !.dir[m.sym[p]] = expr_alloc_or(@, m.dep[p])]
    IN Made(Gather(m, p, m.next[p], Nil))

menu_finalize(m, p) ==
    LET Down(t) == FinalizeFrom(t, t.list[p])
        Done(t) == HoldChoice(Settle(t, p, t.list[p]), p)
    IN Done(CASE m.list[p] # Nil         -> Down(Propagate(m, p))
              [] m.list[p] = Nil /\ m.kind[p] = "config" -> AutoSubmenu(m, p)
              [] OTHER                   -> m)

-----------------------------------------------------------------------------
(* sym_check_deps *)

RECURSIVE SymsOf(_)
SymsOf(e) ==
    CASE e.op = "sym"       -> <<e.s>>
      [] e.op = "not"       -> SymsOf(e.e)
      [] e.op \in Junctions -> FlattenSeq([i \in DOMAIN e.args |-> SymsOf(e.args[i])])
      [] e.op \in Relations -> <<e.l, e.r>>
      [] OTHER              -> <<>>

ChoiceOf(m)  == {m.sym[x] : x \in ChoiceNodes(m)}
Places(m, s) == SelectSeq([x \in 1..m.n |-> x], LAMBDA x : m.sym[x] = s)

\* mutant: the selects of a symbol are not followed
WithoutSelects(m, s) ==
    FlattenSeq([i \in DOMAIN Places(m, s) |-> SymsOf(m.dep[Places(m, s)[i]])])
\* What the check follows from s, in its order: the reverse dependency, then the
\* conditions of its properties but for selects, and the default values.
CheckedDeps(m, s) ==
    LET Rev == IF s \in ChoiceOf(m) THEN m.choiceRev ELSE IF s \in Symbols THEN m.rev[s] ELSE Null
        Of(p) == <<p.cond>> \o (IF p.type = "default" THEN <<p.expr>> ELSE <<>>)
        At(x) == <<m.dep[x], m.prompt[x]>>
                 \o FlattenSeq([i \in DOMAIN m.props |->
                      IF m.props[i].node # x \/ m.props[i].type = "select" THEN <<>> ELSE Of(m.props[i])])
        In(es) == FlattenSeq([i \in DOMAIN es |-> SymsOf(es[i])])
    IN In(<<Rev>> \o FlattenSeq([i \in DOMAIN Places(m, s) |-> At(Places(m, s)[i])]))

RECURSIVE sym_check_deps(_, _, _), sym_check_sym_deps(_, _, _), sym_check_choice_deps(_, _, _)
sym_check_sym_deps(m, c, s) ==
    FoldLeft(LAMBDA d, t : IF d.ret # NoSymbol THEN d ELSE sym_check_deps(m, d, t),
             [c EXCEPT !.ret = NoSymbol], CheckedDeps(m, s))

\* a choice is checked together with its members
sym_check_choice_deps(m, c, s) ==
    LET members == ToSet(m.members)
        Done(d) == [d EXCEPT !.on = @ \ members, !.ret = IF @ \in members THEN s ELSE @]
        \* the choice first, then its members
        Try(d, t) == IF t # s /\ d.ret # NoSymbol THEN d
                     ELSE [sym_check_sym_deps(m, d, t) EXCEPT !.on = @ \ {s}]
    IN Done(FoldLeft(Try, [c EXCEPT !.on = @ \cup members \cup {s}, !.seen = @ \cup members \cup {s}],
                     <<s>> \o m.members))

sym_check_deps(m, c, s) ==
    LET Below(d) == [sym_check_sym_deps(m, d, s) EXCEPT !.on = @ \ {s}]
        Found(d) == IF d.ret = s THEN [d EXCEPT !.ret = NoSymbol] ELSE d
    IN CASE s \in c.on   -> [c EXCEPT !.ret = s, !.printed = @ \cup {s}]
         [] s \in c.seen /\ s \notin c.on -> [c EXCEPT !.ret = NoSymbol]
         [] OTHER ->
            Found(CASE Contains(m.members, s) -> sym_check_deps(m, c, CHOOSE t \in ChoiceOf(m) : TRUE)
                    [] s \in ChoiceOf(m)      -> sym_check_choice_deps(m, c, s)
                    [] OTHER -> Below([c EXCEPT !.on = @ \cup {s}, !.seen = @ \cup {s}]))

-----------------------------------------------------------------------------
(* conf_parse *)

Defined(m) == {m.sym[x] : x \in 1..m.n} \ {NoSymbol}

Finalize ==
    /\ stage = "parsing" /\ current = 0 /\ menu.n > 0
    /\ stage' = "checking" /\ parsed' = menu
    /\ menu' = menu_finalize(menu, 0)
    /\ check' = [check EXCEPT !.todo = Defined(menu')]
    /\ UNCHANGED <<current, errors>>

\* for_all_symbols goes by the hash of the names: any order
CheckSymbol ==
    /\ stage = "checking"
    /\ \E s \in check.todo :
          LET c == sym_check_deps(menu, check, s)
          IN /\ check' = [c EXCEPT !.todo = @ \ {s}]
             /\ errors' = (errors \/ c.ret # NoSymbol)
    /\ UNCHANGED <<menu, current, stage, parsed>>

Next ==
    \/ ConfigStmt \/ Property \/ MenuStmt \/ IfStmt \/ ChoiceStmt \/ EndStmt
    \/ Finalize \/ CheckSymbol

Spec == Init /\ [][Next]_vars

-----------------------------------------------------------------------------
(* Properties *)

Checked == stage = "checking" /\ check.todo = {}

RECURSIVE Shown(_, _)
Shown(m, x) == <<x>> \o FlattenSeq([i \in DOMAIN Entries(m, m.list[x]) |->
                                       Shown(m, Entries(m, m.list[x])[i])])

\* However menus, submenus and flattened blocks are nested, every entry of the
\* file is shown once and in the order of the file, and the parent pointers
\* agree with the lists (menu_finalize).
KeepsOrder ==
    Checked =>
        /\ Shown(menu, 0) = [i \in 1..(menu.n + 1) |-> i - 1]
        /\ \A x \in 0..menu.n : \A i \in DOMAIN Entries(menu, menu.list[x]) :
              menu.parent[Entries(menu, menu.list[x])[i]] = x

\* x is the entry that makes its symbol a member of the choice: the first one
\* right below it, and in no submenu (menu.c:499).
Joins(x) ==
    LET p == menu.parent[x]
    IN menu.kind[p] = "choice" /\ \A y \in 1..(x - 1) : menu.parent[y] = p => menu.sym[y] # menu.sym[x]

\* What the file says of the visibility of x, not simplified: its own conditions
\* and those of everything around it; a choice stands for all that is around it,
\* and a bool member of it needs it at y.
RECURSIVE Intended(_)
Intended(x) ==
    LET p      == parsed.parent[x]
        choice == ChoiceSym(menu.type)
        own    == expr_alloc_and(parsed.dep[x], parsed.written[x])
        member == IF Joins(x) /\ TypeAt(parsed, x) = "boolean" THEN Comp("=", choice, "y") ELSE Null
        around == IF p = 0 THEN Null ELSE IF parsed.kind[p] = "choice" THEN Sym(choice) ELSE Intended(p)
    IN expr_alloc_and(rewrite_m(own), expr_alloc_and(member, around))

\* A prompt is visible exactly when its own conditions and those of everything
\* around it hold, and every "visible if" around it unless it is a menu, under
\* all values of the symbols; for a tristate symbol it is so to the same degree
\* (rewrite_m, expr_transform, expr_eliminate_dups and expr_trans_bool, as
\* menu_finalize applies them).
PromptsKeepMeaning ==
    Checked =>
        \A x \in 1..menu.n : menu.prompt[x] # NoPrompt =>
            LET Visible(e, y) == IF menu.kind[x] = "menu" \/ y \notin Around(parsed, x) THEN e
                                 ELSE expr_alloc_and(e, parsed.visibility[y])
                intended == FoldLeft(Visible, Intended(x), [y \in 1..menu.n |-> y])
            IN
            \A val \in Valuations :
                LET visible == ExprValue(menu.prompt[x], val)
                IN IF TypeAt(parsed, x) = "tristate" THEN visible = ExprValue(intended, val)
                   ELSE visible = No <=> ExprValue(intended, val) = No

\* its conditions name a symbol that has an entry without a prompt
NamesHidden(x) ==
    \E q \in 1..menu.n : /\ menu.kind[q] = "config" /\ menu.prompt[q] = NoPrompt
                         /\ expr_contains_symbol(menu.prompt[x], menu.sym[q])

\* a bool member of a tristate choice: its "= y" comes after its submenu is made
NeedsYes(p) ==
    menu.type = "tristate" /\ TypeOf[menu.sym[p]] = "boolean" /\ Contains(menu.members, menu.sym[p])

\* An entry put into the submenu of a symbol can be reached (menu_is_visible):
\* when it is visible the symbol's own entry is visible or its value is not n.
\* Excepted are files with a loop; entries that name a promptless symbol, which
\* are put below it whatever they depend on, and with it into the submenu it is
\* in; and what lies below a bool member of a tristate choice.
SubmenusReachable ==
    Checked /\ check.printed = {} =>
        \A x \in 1..menu.n :
            LET p == menu.parent[x] IN
            menu.prompt[x] # NoPrompt /\ menu.kind[p] = "config" /\ ~NamesHidden(x) /\ ~NeedsYes(p) =>
                \A val \in Valuations :
                    ExprValue(menu.prompt[x], val) # No =>
                        \/ menu.prompt[p] # NoPrompt /\ ExprValue(menu.prompt[p], val) # No
                        \/ val[menu.sym[p]] # No

\* The symbols sym_calc_value computes the value of s from.  A member of a choice
\* has its value from the choice, and its reverse dependencies do not count; the
\* choice looks at the prompts of its members, which all depend on the choice.
ComputedFrom(m, s) ==
    LET In(es)     == UNION {ToSet(SymsOf(e)) : e \in es}
        Prompts(S) == {m.prompt[x] : x \in {y \in 1..m.n : m.sym[y] \in S}}
        OwnDefaults == {i \in DOMAIN m.props : m.props[i].type = "default" /\ m.sym[m.props[i].node] = s}
        own == In(Prompts({s}) \cup UNION {{m.props[i].cond, m.props[i].expr} : i \in OwnDefaults})
    IN IF s \in ChoiceOf(m) THEN own \cup In({m.choiceRev}) \cup (In(Prompts(ToSet(m.members))) \ {s})
       ELSE IF Contains(m.members, s) THEN own \cup ChoiceOf(m)
       ELSE IF s \in Symbols THEN own \cup In({m.rev[s], m.dir[s], m.implied[s]})
       ELSE {}
\* Two of these the check does not see: what implies s, which sym_check_sym_deps
\* does not follow, and what is in the choice but no member, because the choice is
\* not marked while its members are checked.
Followed(m, s) ==
    LET group == ChoiceOf(m) \cup ToSet(m.members)
    IN ComputedFrom([m EXCEPT !.implied = [t \in Symbols |-> Null]], s)
         \ (IF s \in group THEN {} ELSE ChoiceOf(m))

RECURSIVE Reached(_, _)
Reached(m, S) ==
    LET T == S \cup UNION {Followed(m, s) : s \in S}
    IN IF T = S THEN S ELSE Reached(m, T)

\* A file with a symbol, or a choice, whose value depends on itself is reported,
\* whatever the order of the check (sym_check_deps).  Excepted are loops that go
\* through an imply: of "config T, imply B if !B" nothing is reported, although B
\* is computed from itself; and loops from the choice to an entry that lies in it
\* without being a member, which are reported in some orders only.
LoopsReported ==
    Checked => ((\E s \in Defined(menu) : s \in Reached(menu, Followed(menu, s))) => check.printed # {})

=============================================================================
