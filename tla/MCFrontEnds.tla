----------------------------- MODULE MCFrontEnds -----------------------------
(* The parts of the front ends for TLC, in one run: a behavior is one of a *)
(* single part, the others stay shut.                                      *)
EXTENDS MenuBox, InputBox, TextBox, NconfMenu, GconfTree, EditorSession

VARIABLE who

vars == <<who, mb, ib, tb, nm, gc, ed>>

Init ==
    /\ who \in {"menubox", "inputbox", "textbox", "nconfmenu", "gconf", "session"}
    /\ MenuInit /\ InputInit /\ TextInit /\ NconfInit /\ GconfInit /\ SessionInit

Next ==
    /\ UNCHANGED who
    /\ \/ who = "menubox"   /\ MenuNext    /\ UNCHANGED <<ib, tb, nm, gc, ed>>
       \/ who = "inputbox"  /\ InputNext   /\ UNCHANGED <<mb, tb, nm, gc, ed>>
       \/ who = "textbox"   /\ TextNext    /\ UNCHANGED <<mb, ib, nm, gc, ed>>
       \/ who = "nconfmenu" /\ NconfNext   /\ UNCHANGED <<mb, ib, tb, gc, ed>>
       \/ who = "gconf"     /\ GconfNext   /\ UNCHANGED <<mb, ib, tb, nm, ed>>
       \/ who = "session"   /\ SessionNext /\ UNCHANGED <<mb, ib, tb, nm, gc>>

Spec == Init /\ [][Next]_vars

OneToThree == 1..3
TwoOrThree == {2, 3}

\* positive heights of a page, and what is left of a terminal of 7 rows and of 4
SomeLinesLeft == {-3, 0, 1, 2, 3}

Typed     == {"a", "b"}
SomeLines == {<<>>, <<"a">>, <<"a", "b", "a">>}

\* up to four lines, each empty or not, and two texts that do not end with a
\* newline
TextOf(lines) == FoldLeft(LAMBDA text, l : text \o l \o <<NL>>, <<>>, lines)
SomeTexts ==
    {TextOf(lines) : lines \in UNION {[1..k -> {<<>>, <<"c">>}] : k \in 1..4}}
        \cup {<<"c">>, <<"c", NL, "c">>}

TwoFiles    == {".config", "alternate"}
TwoContents == {"values A", "values B"}

\* Two trees of menus.  In the first a value hides the last entry of a menu and
\* shows another one there; in the second an entry is visible for its children
\* only, and a text comes and goes.
Entry(up, kind, on, off, when, default) ==
    [up |-> up, kind |-> kind, prompt |-> TRUE, on |-> on, off |-> off, when |-> when, default |-> default]
SwitchedForest ==
    <<Entry(Root, "bool", {}, {}, {}, FALSE), Entry(Root, "menu", {}, {}, {}, FALSE),
      Entry(2, "bool", {1}, {}, {}, TRUE), Entry(2, "bool", {}, {1}, {}, FALSE),
      Entry(Root, "bool", {1}, {}, {}, FALSE), Entry(Root, "menu", {}, {}, {}, FALSE)>>
HalfOfferedForest ==
    <<Entry(Root, "bool", {}, {}, {3}, TRUE), Entry(1, "bool", {1}, {}, {}, FALSE),
      Entry(Root, "bool", {}, {}, {}, FALSE), Entry(Root, "menu", {}, {}, {}, FALSE),
      [Entry(Root, "bool", {2}, {}, {}, TRUE) EXCEPT !.prompt = FALSE], Entry(4, "text", {2}, {}, {}, FALSE)>>
SomeForests == {SwitchedForest, HalfOfferedForest}

=============================================================================
