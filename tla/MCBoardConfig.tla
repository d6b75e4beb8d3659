---------------------------- MODULE MCBoardConfig ----------------------------
(* An instance of BoardConfig for TLC. *)
EXTENDS BoardConfig

SymbolTypes ==
    [y |-> "tristate", m |-> "tristate", n |-> "tristate", MODULES |-> "boolean",
     D |-> "boolean", C |-> "boolean", A |-> "boolean", B |-> "boolean", E |-> "boolean", N |-> "int"] @@
    ("1" :> "int") @@ ("2" :> "int") @@ ("3" :> "int")
Numbers  == ("1" :> 1) @@ ("2" :> 2) @@ ("3" :> 3)
OneChoice == {"C"}
EnteredValues == {No, Yes, 1, 3}

Prop(e, c)  == [e |-> e, cond |-> c]
D == Sym("D")
And2(a, b) == Join("and", a, b)
OnY == Sym("y")
OnN == Sym("n")

\* bool D; choice C of A and B, perhaps only with D; B perhaps only with D, and
\* below it bool E; int N, perhaps only with D
Source(o) ==
    [vis      |-> [MODULES |-> OnN, D |-> OnY, C |-> o.cPrompt, A |-> Sym("C"),
                   B |-> IF o.bNeedsD THEN And2(Sym("C"), D) ELSE Sym("C"), E |-> And2(Sym("B"), Sym("C")),
                   N |-> o.nPrompt],
     defaults |-> [MODULES |-> <<>>, D |-> o.dDefault, C |-> o.cDefault, A |-> <<>>, B |-> <<>>,
                   E |-> <<Prop(OnY, D)>>, N |-> o.nDefault \o <<Prop(Sym("1"), Null)>>],
     range    |-> [s \in {"MODULES", "D", "C", "A", "B", "E"} |-> <<>>] @@ ("N" :> o.nRange),
     dir      |-> [MODULES |-> Null, D |-> Null, C |-> o.cPrompt, A |-> Null, B |-> Null,
                   E |-> And2(Sym("B"), Sym("C")), N |-> o.nPrompt],
     rev      |-> [s \in {"MODULES", "A", "B", "E", "N"} |-> OnN]
                  @@ [C |-> And2(o.cPrompt, Sym("m")), D |-> o.dSelect],
     members  |-> [C |-> <<"A", "B">>],
     below    |-> [root |-> <<"D", "C", "N">>, MODULES |-> <<>>, D |-> <<>>, C |-> <<"A", "B">>,
                   A |-> <<>>, B |-> <<"E">>, E |-> <<>>, N |-> <<>>],
     table    |-> <<"N", "B", "A", "C", "E", "D">>]

Options ==
    [dDefault : {<<>>}, dSelect : {OnN, Sym("A")}, cPrompt : {OnY, D},
     bNeedsD : BOOLEAN, cDefault : {<<>>, <<Prop(Sym("B"), D)>>},
     nPrompt : {OnY, D}, nDefault : {<<Prop(Sym("2"), D)>>},
     nRange : {<<>>, <<Prop(Comp("range", "2", "3"), D)>>}]
\* no dependency loops, and two of the options not together
Wanted(o) == /\ o.dSelect = OnN \/ (o.cPrompt = OnY /\ ~o.bNeedsD /\ o.cDefault = <<>>)
             /\ o.nPrompt = OnY \/ (o.nRange = <<>> /\ o.cDefault # <<>>)

SomeSources == {Source(o) : o \in {p \in Options : Wanted(p)}}

\* one property of one symbol
OneChange(k1, k2) ==
    Cardinality({p \in {"vis", "defaults", "range", "rev"} \X {"D", "C", "B", "N"} :
                    p # <<"rev", "C">> /\ k1[p[1]][p[2]] # k2[p[1]][p[2]]}) = 1

=============================================================================
