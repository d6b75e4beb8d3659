---------------------------- MODULE MCKconfigMenu ----------------------------
(* An instance of KconfigMenu for TLC. *)
EXTENDS KconfigMenu

\* a bool B and a tristate T, which the file defines; MODULES and a tristate U,
\* defined elsewhere
SymbolTypes ==
    [y |-> "tristate", m |-> "tristate", n |-> "tristate",
     B |-> "boolean", T |-> "tristate", MODULES |-> "boolean", U |-> "tristate",
     choice2 |-> "boolean", choice3 |-> "tristate"]

Two   == {No, Yes}
Three == {No, Mod, Yes}
AllValuations ==
    {val \in [B : Two, T : Three, MODULES : Two, U : Three, choice2 : Two, choice3 : Three] :
        /\ val.MODULES = No => val.T # Mod /\ val.U # Mod /\ val.choice3 # Mod
        /\ val.choice2 = No <=> val.choice3 = No}

TwoSymbols == {"B", "T"}
OnlyB      == {"B"}

And2E(a, b) == Join("and", a, b)
Or2E(a, b)  == Join("or", a, b)
B == Sym("B")
T == Sym("T")

SomeDeps == {Null, And2E(Comp("!=", "U", "n"), Comp("!=", "U", "m"))}
SomeConds == {Null, Or2E(Sym("m"), Not(B))}
SomePropConds == {Not(B)}
SomeBlocks == {Null, Comp("=", "B", "y")}
SomeDefaults == {T}

=============================================================================
