------------------------------ MODULE KconfigExpr ------------------------------
(***************************************************************************)
(* The dependency expressions of the Kconfig tools Buildroot builds to     *)
(* read its Config.in files and the defconfigs of the remote (expr.c, and  *)
(* rewrite_m of menu.c): construction, simplification, comparison, value;  *)
(* KconfigLeaf has what it takes of this for symbols and comparisons.      *)
(* An && or || has the sequence of its operands: how they are paired "is   *)
(* irrelevant within a single level" (expr.c:215), and every function      *)
(* below visits them from left to right.                                   *)
(***************************************************************************)
EXTENDS KconfigLeaf, Sequences, SequencesExt

Junctions == {"and", "or"}

Operands(op, e) == IF e.op = op THEN e.args ELSE <<e>>
Join(op, e1, e2) == [op |-> op, args |-> Operands(op, e1) \o Operands(op, e2)]

expr_alloc_and(e1, e2) == IF e1 = Null THEN e2 ELSE IF e2 = Null THEN e1 ELSE Join("and", e1, e2)
expr_alloc_or(e1, e2)  == IF e1 = Null THEN e2 ELSE IF e2 = Null THEN e1 ELSE Join("or", e1, e2)

expr_is_yes(e) == e = Null \/ e = Sym("y")

\* op with one operand is that operand, with none its neutral element
Neutral(op)    == IF op = "and" THEN "y" ELSE "n"
Absorbing(op)  == IF op = "and" THEN "n" ELSE "y"
Junction(op, args) ==
    CASE Len(args) = 0 -> Sym(Neutral(op))
      [] Len(args) = 1 -> args[1]
      [] OTHER         -> [op |-> op, args |-> args]

RECURSIVE expr_eliminate_yn(_)
expr_eliminate_yn(e) ==
    LET Reduce(op, args) ==
            IF Contains(args, Sym(Absorbing(op))) THEN Sym(Absorbing(op))
            ELSE Junction(op, SelectSeq(args, LAMBDA a : a # Sym(Neutral(op))))
    IN IF e.op \notin Junctions THEN e
       ELSE Reduce(e.op, FlattenSeq([i \in DOMAIN e.args |-> Operands(e.op, expr_eliminate_yn(e.args[i]))]))

RECURSIVE expr_trans_bool(_)
expr_trans_bool(e) ==
    CASE e.op \in Junctions -> [e EXCEPT !.args = [i \in DOMAIN e.args |-> expr_trans_bool(e.args[i])]]
      [] e.op = "not"       -> Not(expr_trans_bool(e.e))
      [] OTHER -> BoolLeaf(e)

RECURSIVE rewrite_m(_)
rewrite_m(e) ==
    CASE e.op = "not"       -> Not(rewrite_m(e.e))
      [] e.op \in Junctions ->
            [e EXCEPT !.args = FlattenSeq([i \in DOMAIN e.args |-> Operands(e.op, rewrite_m(e.args[i]))])]
      [] e = Sym("m")       -> expr_alloc_and(e, Sym(ModulesSym))
      [] OTHER -> e

-----------------------------------------------------------------------------
(* Comparison *)

\* the index pairs of two sequences, the second index running faster
Pairs(m, n) == [k \in 1..(m * n) |-> <<((k - 1) \div n) + 1, ((k - 1) % n) + 1>>]

RECURSIVE expr_eq(_, _)

\* __expr_eliminate_eq: the operands e1 and e2 have in common become neutral
EliminateLeaves(op, e1, e2) ==
    LET Cancel(p, ij) ==
            IF \/ p[1][ij[1]] = p[2][ij[2]] /\ p[1][ij[1]] \in {Sym("y"), Sym("n")}
               \/ ~expr_eq(p[1][ij[1]], p[2][ij[2]])
            THEN p
            ELSE <<[p[1] EXCEPT ![ij[1]] = Sym(Neutral(op))], [p[2] EXCEPT ![ij[2]] = Sym(Neutral(op))]>>
        Meet(as, bs)   == FoldLeft(Cancel, <<as, bs>>, Pairs(Len(as), Len(bs)))
        Again(e, args) == IF e.op = op THEN [e EXCEPT !.args = args] ELSE args[1]
        Both(p)        == <<Again(e1, p[1]), Again(e2, p[2])>>
    IN Both(Meet(Operands(op, e1), Operands(op, e2)))

\* at the level of the first expression, then of the second if it has another
expr_eliminate_eq(e1, e2) ==
    LET AtLevel(p, i) == IF p[i].op \in Junctions /\ (i = 1 \/ p[1].op # p[2].op)
                         THEN EliminateLeaves(p[i].op, p[1], p[2]) ELSE p
        Reduced(p)    == [i \in {1, 2} |-> expr_eliminate_yn(p[i])]
    IN IF e1 = Null \/ e2 = Null THEN <<e1, e2>>
       ELSE Reduced(FoldLeft(AtLevel, <<e1, e2>>, <<1, 2>>))

expr_eq(e1, e2) ==
    CASE e1.op # e2.op         -> FALSE
      [] e1.op = "not"         -> expr_eq(e1.e, e2.e)
      [] e1.op \in Junctions   -> LET Same(p) == p[1].op = "sym" /\ p[1] = p[2]
                                  IN Same(expr_eliminate_eq(e1, e2))
      [] OTHER                 -> e1 = e2

-----------------------------------------------------------------------------
(* Simplification *)

\* expr_join_or and expr_join_and
JoinOperands(op, e1, e2) ==
    LET Joined(s) == CASE ~TestOne(s, e2) -> Null
                       [] op = "or"       -> OrOf(s, e1, e2)
                       [] op = "and"      -> AndOf(s, e1, e2)
    IN IF expr_eq(e1, e2) THEN e1 ELSE Joined(Tested(e1, TRUE))

\* expr_eliminate_dups1 of an expression with itself; done counts the joins
RECURSIVE DupsPass(_)
DupsPass(e) ==
    LET Put(p, i, j, inner, t) ==
            IF t = Null
            THEN [e |-> [p.e EXCEPT !.args[i] = inner.e], done |-> p.done + inner.done]
            ELSE [e    |-> [p.e EXCEPT !.args[i] = Sym(Neutral(e.op)), !.args[j] = t],
                  done |-> p.done + inner.done + 1]
        With(p, i, j, inner) == Put(p, i, j, inner, JoinOperands(e.op, inner.e, p.e.args[j]))
        Meet(p, ij) ==
            IF ij[1] = ij[2] THEN p
            ELSE With(p, ij[1], ij[2], IF p.e.args[ij[1]].op \in Junctions THEN DupsPass(p.e.args[ij[1]])
                                       ELSE [e |-> p.e.args[ij[1]], done |-> 0])
    IN FoldLeft(Meet, [e |-> e, done |-> 0], Pairs(Len(e.args), Len(e.args)))

RECURSIVE expr_eliminate_dups(_)
expr_eliminate_dups(e) ==
    LET Again(p) == IF p.done = 0 THEN p.e ELSE expr_eliminate_dups(expr_eliminate_yn(p.e))
    IN IF e.op \notin Junctions THEN e ELSE Again(DupsPass(e))

RECURSIVE expr_transform(_)
TransformNot(e) ==   \* e is the transformed operand
    CASE e.op = "not"        -> expr_transform(e.e)
      [] e.op \in Junctions  ->
            expr_transform([op   |-> IF e.op = "or" THEN "and" ELSE "or",
                            args |-> [i \in DOMAIN e.args |-> Not(e.args[i])]])
      [] OTHER -> NegatedLeaf(e)
expr_transform(e) ==
    CASE e.op \in Junctions ->
            [e EXCEPT !.args = FlattenSeq([i \in DOMAIN e.args |-> Operands(e.op, expr_transform(e.args[i]))])]
      [] e.op = "not" -> TransformNot(expr_transform(e.e))
      [] e.op \in {"=", "!="} /\ TypeOf[e.l] = "boolean" -> TransformBool(e)
      [] OTHER -> e

-----------------------------------------------------------------------------
(* Symbols of an expression *)

RECURSIVE expr_contains_symbol(_, _)
expr_contains_symbol(e, s) ==
    CASE e.op \in Junctions -> \E i \in DOMAIN e.args : expr_contains_symbol(e.args[i], s)
      [] e.op = "not"       -> expr_contains_symbol(e.e, s)
      [] e.op = "sym"       -> e.s = s
      [] e.op \in Relations -> s \in {e.l, e.r}
      [] OTHER -> FALSE

RECURSIVE expr_depends_symbol(_, _)
expr_depends_symbol(e, s) ==
    CASE e.op = "and" -> \E i \in DOMAIN e.args : expr_depends_symbol(e.args[i], s)
      [] e.op = "sym" -> e.s = s
      [] e.op = "="   -> e.l = s /\ e.r \in {"y", "m"}
      [] e.op = "!="  -> e.l = s /\ e.r = "n"
      [] OTHER -> FALSE

\* comparisons to s, which is "y" or "n", in place of the symbols
RECURSIVE expr_trans_compare(_, _, _)
expr_trans_compare(e, op, s) ==
    LET Negated(x) == IF op = "!=" THEN Not(x) ELSE x
        Swap(j)    == IF s = "y" THEN j ELSE IF j = "and" THEN "or" ELSE "and"
    IN CASE e = Null -> Negated(Sym(s))
         [] e.op \in Junctions ->
               Negated([op |-> Swap(e.op),
                        args |-> FlattenSeq([i \in DOMAIN e.args |->
                           Operands(Swap(e.op), expr_trans_compare(e.args[i], "=", s))])])
         [] e.op = "not" -> expr_trans_compare(e.e, Opposite[op], s)
         [] e.op = "sym" -> Comp(op, e.s, s)
         [] OTHER -> IF (op = "=") = (s = "y") THEN e ELSE Not(e)

-----------------------------------------------------------------------------
(* Value *)

\* expr_calc_value, for given values of the symbols
RECURSIVE ExprValue(_, _)
ExprValue(e, val) ==
    CASE e = Null    -> Yes
      [] e.op = "not" -> Yes - ExprValue(e.e, val)
      [] e.op = "and" -> FoldLeft(LAMBDA v, a : Min2(v, ExprValue(a, val)), Yes, e.args)
      [] e.op = "or"  -> FoldLeft(LAMBDA v, a : Max2(v, ExprValue(a, val)), No, e.args)
      [] OTHER        -> LeafValue(e, val)

=============================================================================
