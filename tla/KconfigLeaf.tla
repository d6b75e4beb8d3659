------------------------------ MODULE KconfigLeaf ------------------------------
(***************************************************************************)
(* The leaves of the Kconfig tools' dependency expressions: symbols, their *)
(* negations and comparisons; the rules of expr.c that join two of them or *)
(* rewrite one; and their values.                                          *)
(***************************************************************************)
EXTENDS Integers

CONSTANTS
    TypeOf,      \* the type of each symbol
    ModulesSym   \* the symbol with "option modules"

Types     == {"boolean", "tristate", "int", "unknown"}
Constants3 == {"y", "m", "n"}   \* symbol_yes, symbol_mod, symbol_no

ASSUME TypesAssumption == /\ \A s \in DOMAIN TypeOf : TypeOf[s] \in Types
                          /\ \A s \in Constants3 : TypeOf[s] = "tristate"
                          /\ ModulesSym \in DOMAIN TypeOf

Relations == {"=", "!=", "<", "<=", ">", ">="}

Null          == [op |-> "null"]              \* a NULL pointer: no expression
Sym(s)        == [op |-> "sym", s |-> s]
Not(e)        == [op |-> "not", e |-> e]
Comp(op, l, r) == [op |-> op, l |-> l, r |-> r]

-----------------------------------------------------------------------------
(* Rules *)

NoSym == "none"

\* the symbol an operand tests; only the first may be a negated comparison
Tested(e, first) ==
    CASE e.op = "sym"           -> e.s
      [] e.op \in {"=", "!="}   -> e.l
      [] e.op = "not" /\ e.e.op = "sym" -> e.e.s
      [] e.op = "not" /\ e.e.op \in {"=", "!="} /\ first -> e.e.l
      [] OTHER -> NoSym

\* both test one symbol that has a tristate value
TestOne(s, e2) == s # NoSym /\ s = Tested(e2, FALSE) /\ TypeOf[s] \in {"boolean", "tristate"}

\* a relation op of s to two of the constants, in either order
TwoOf(op, s, e1, e2) ==
    \E b, c \in Constants3 : b # c /\ e1 = Comp(op, s, b) /\ e2 = Comp(op, s, c)
Third(e1, e2) == CHOOSE d \in Constants3 : d \notin {e1.r, e2.r}

\* (a && b) || (a && c) is left alone; what is joined is listed; s is what e1 tests
OrOf(s, e1, e2) ==
    CASE TypeOf[s] = "tristate" /\ TwoOf("=", s, e1, e2) -> Comp("!=", s, Third(e1, e2))
      [] TypeOf[s] = "boolean" /\ {e1, e2} = {Sym(s), Not(Sym(s))} -> Sym("y")
      [] OTHER -> Null
\* mutant: what the comment at expr.c:561 says
AndComment(s, e1, e2) ==
    IF TypeOf[s] = "tristate" /\ TwoOf("!=", s, e1, e2) /\ {e1.r, e2.r} = {"m", "n"}
    THEN Comp("=", s, "m") ELSE Null
AndOf(s, e1, e2) ==
    CASE {e1, e2} = {Sym(s), Comp("=", s, "y")}  -> Comp("=", s, "y")
      [] {e1, e2} = {Sym(s), Comp("!=", s, "n")} -> Sym(s)
      [] {e1, e2} = {Sym(s), Comp("!=", s, "m")} -> Comp("=", s, "y")
      [] /\ TypeOf[s] = "tristate" /\ {e1.op, e2.op} = {"=", "!="}
         /\ e1.r \in Constants3 /\ e2.r \in Constants3 ->
            IF e1.r = e2.r THEN Sym("n") ELSE IF e1.op = "=" THEN e1 ELSE e2
      [] TypeOf[s] = "tristate" /\ TwoOf("!=", s, e1, e2) -> Comp("=", s, Third(e1, e2))
      [] OTHER -> Null

Opposite == [op \in Relations |->
    CASE op = "="  -> "!=" [] op = "!=" -> "="
      [] op = "<=" -> ">"  [] op = ">"  -> "<="
      [] op = "<"  -> ">=" [] op = ">=" -> "<"]

\* the negation of a comparison or a constant is again one
NegatedLeaf(e) ==
    CASE e.op \in Relations  -> Comp(Opposite[e.op], e.l, e.r)
      [] e = Sym("y") -> Sym("n")
      [] e = Sym("n") -> Sym("y")
      [] e = Sym("m") -> Sym("m")
      [] OTHER -> Not(e)

\* a bool symbol compared to a constant: itself, its negation or a constant
TransformBool(e) ==
    LET positive == e.op = "="
    IN CASE e.r = "m" -> Sym(IF positive THEN "n" ELSE "y")
         [] e.r = "y" -> IF positive THEN Sym(e.l) ELSE Not(Sym(e.l))
         [] e.r = "n" -> IF positive THEN Not(Sym(e.l)) ELSE Sym(e.l)
         [] OTHER     -> e

\* where a bool is asked for, a tristate that is not n will do
BoolLeaf(e) == IF e.op = "!=" /\ TypeOf[e.l] = "tristate" /\ e.r = "n" THEN Sym(e.l) ELSE e

-----------------------------------------------------------------------------
(* Value *)

\* A value is a number: 0, 1, 2 stand for n, m and y.  An undefined symbol is n,
\* but compares as the string of its own name, which no other symbol has.
No  == 0
Mod == 1
Yes == 2
Min2(a, b) == IF a < b THEN a ELSE b
Max2(a, b) == IF a > b THEN a ELSE b

ConstantValue(s) == CASE s = "y" -> Yes [] s = "m" -> Mod [] s = "n" -> No
ValueOf(s, val)  == IF s \in Constants3 THEN ConstantValue(s) ELSE val[s]
\* only bool and tristate symbols are true; the others are n
TristateOf(s, val) == IF TypeOf[s] \in {"boolean", "tristate"} THEN ValueOf(s, val) ELSE No

\* sym_get_string_value of a tristate: without modules an m reads "n"
StringOf(s, val) ==
    IF TypeOf[s] \in {"boolean", "tristate"} /\ ValueOf(s, val) = Mod /\ ValueOf(ModulesSym, val) = No
    THEN No ELSE ValueOf(s, val)

Holds(op, a, b) ==
    CASE op = "="  -> a = b
      [] op = "!=" -> a # b
      [] op = "<"  -> a < b
      [] op = "<=" -> a <= b
      [] op = ">"  -> a > b
      [] op = ">=" -> a >= b
Compare(op, l, r, val) ==
    IF op \in {"=", "!="} /\ "unknown" \in {TypeOf[l], TypeOf[r]} THEN Holds(op, l, r)
    ELSE Holds(op, StringOf(l, val), StringOf(r, val))

\* expr_calc_value of a symbol or a comparison
LeafValue(e, val) ==
    IF e.op = "sym" THEN TristateOf(e.s, val)
    ELSE IF Compare(e.op, e.l, e.r, val) THEN Yes ELSE No

=============================================================================
