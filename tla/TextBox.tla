------------------------------- MODULE TextBox -------------------------------
(***************************************************************************)
(* The windows that show a text.  lxdialog's dialog_textbox moves a        *)
(* pointer forwards and backwards through the characters of the text,      *)
(* counting newlines; mconf shows help and search results in it, and in    *)
(* the results marks the entries on the screen with keys that jump to      *)
(* them.  nconf's show_scroll_win copies a part of a pad to the screen.    *)
(***************************************************************************)
EXTENDS Integers, SequencesExt

CONSTANTS
    Texts,      \* the texts that are shown
    Heights,    \* how many lines the window may have
    JumpKeys,   \* JUMP_NB
    MaxHScroll  \* MAX_LEN

NL == "newline"

ASSUME TextAssumption ==
    /\ \A text \in Texts : Len(text) \in Nat \ {0}
    /\ Heights \subseteq Nat \ {0} /\ JumpKeys \in Nat \ {0} /\ MaxHScroll \in Nat

\* page: where the next line is read, counted from 0.  top: where the page on
\* the screen starts.  jumps: where the results that can be jumped to are.
\* label: the key written there, 0 for none.  keys: the accepted keys with the
\* result each leads to.  vscroll: kept by search_conf.  line: the line a reader
\* expects at the top.
VARIABLE tb

NoText(vscroll) ==
    [open |-> "no", text |-> <<>>, h |-> 0, page |-> 0, begin |-> TRUE, end |-> FALSE, length |-> 0,
     hscroll |-> 0, top |-> 0, jumps |-> {}, label |-> <<>>, keys |-> {}, vscroll |-> vscroll,
     line |-> 0]

TextInit == tb = NoText(0)

Breaks(text, from, to) == {j \in from..to : text[j + 1] = NL}
LineStarts(text) == {0} \cup {j + 1 : j \in Breaks(text, 0, Len(text) - 1)}
LinesBefore(text, page) == Cardinality(Breaks(text, 0, page - 1))
Terminated(text) == Last(text) = NL
LinesOf(text) == LinesBefore(text, Len(text))

GetLine(t) ==
    LET breaks == Breaks(t.text, t.page, Len(t.text) - 1)
    IN  IF breaks = {} THEN [t EXCEPT !.page = Len(t.text), !.end = TRUE]
        ELSE [t EXCEPT !.page = Min(breaks) + 1, !.end = FALSE]
\* as often as a loop of the code calls it: at[k] is the state after k calls
GetLines(t, n) == LET at[k \in 0..n] == IF k = 0 THEN t ELSE GetLine(at[k - 1]) IN at[n]

\* one line back; the line behind the last newline is only left.  The start of
\* the text ends back_lines.
\* mutant: the flag that the end was reached is not taken back
BackLineSticky(t) ==
    LET breaks == Breaks(t.text, 0, t.page - 2)
    IN  IF t.begin THEN t
        ELSE IF breaks = {} THEN [t EXCEPT !.page = 0, !.begin = TRUE]
        ELSE [t EXCEPT !.page = Max(breaks) + 1]
BackLine(t) ==
    LET breaks == Breaks(t.text, 0, t.page - 2)
    IN  IF t.begin THEN t
        ELSE IF t.page = Len(t.text) /\ t.end THEN [t EXCEPT !.end = FALSE]
        ELSE IF breaks = {} THEN [t EXCEPT !.page = 0, !.begin = TRUE]
        ELSE [t EXCEPT !.page = Max(breaks) + 1]
BackLines(t, n) ==
    LET at[k \in 0..n] == IF k = 0 THEN [t EXCEPT !.begin = FALSE] ELSE BackLine(at[k - 1]) IN at[n]

\* update_text: the first results on the page get the keys, the others none.  A
\* result is where it is in the text; its index is the number of those before.
Below(results, p) == {q \in results : q < p}
KeyOf(t, p) == (Cardinality(Below(t.jumps, p)) % JumpKeys) + 1
UpdateText(t, from, to) ==
    LET here == {p \in t.jumps : p >= from /\ p < to}
        kept == {p \in here : Cardinality(Below(here, p)) < JumpKeys}
    IN  [t EXCEPT
           !.label = [p \in t.jumps |-> IF p \in kept THEN KeyOf(t, p) ELSE IF p \in here THEN 0 ELSE @[p]],
           !.keys = {[key |-> KeyOf(t, p), target |-> p] : p \in kept}]

\* the page is read ahead to see which results are on it
Ahead(t) == GetLines(t, t.h)
Marked(t) ==
    IF t.open # "search" THEN t
    ELSE LET ahead == Ahead(t)
             back  == BackLines(ahead, t.h)
         IN  UpdateText(back, back.page, ahead.page)

PrintLine(s) ==
    LET t == GetLine(s)
    IN  [t EXCEPT !.length = IF s.end /\ s.length > 0 THEN @ ELSE @ + 1]
PrintPage(m) ==
    LET at[k \in 0..m.h] == IF k = 0 THEN [m EXCEPT !.length = 0, !.top = m.page] ELSE PrintLine(at[k - 1])
    IN  at[m.h]

\* where the reader expects the page, when the results are kept on the screen
Expected(t, line) ==
    IF ~Terminated(t.text) THEN 0
    ELSE IF t.open = "search" /\ line + t.h > LinesOf(t.text) THEN Max({0, LinesOf(t.text) + 1 - t.h})
    ELSE line
Show(t, line) == tb' = [PrintPage(Marked(t)) EXCEPT !.line = Expected(t, line)]

OpenText ==
    /\ tb.open = "no"
    /\ \E text \in Texts, h \in Heights :
          Show([NoText(0) EXCEPT !.open = "text", !.text = text, !.h = h], 0)

\* the results, again after a jump at the line they were left at; by then the
\* values, and with them the text, may have changed
OpenSearch ==
    /\ tb.open = "no"
    /\ \E text \in {t \in Texts : Terminated(t)}, h \in Heights :
          \E marks \in SUBSET {p \in LineStarts(text) : p < Len(text) /\ text[p + 1] # NL} :
             \E t \in {GetLines([tb EXCEPT !.open = "search", !.text = text, !.h = h,
                                         !.jumps = marks, !.label = [p \in marks |-> 0]], tb.vscroll)} :
                Show([t EXCEPT !.begin = tb.vscroll = 0], tb.vscroll)

Reading == tb.open \in {"text", "search"}
FirstPage == Reading /\ ~tb.begin /\ Show([tb EXCEPT !.begin = TRUE, !.page = 0], 0)
LastPage ==
    /\ Reading
    /\ Show(BackLines([tb EXCEPT !.end = TRUE, !.page = Len(tb.text)], tb.h),
            Max({0, LinesOf(tb.text) + 1 - tb.h}))
PreviousLine == Reading /\ ~tb.begin /\ Show(BackLines(tb, tb.length + 1), tb.line - 1)
PreviousPage == Reading /\ ~tb.begin /\ Show(BackLines(tb, tb.length + tb.h), Max({0, tb.line - tb.h}))
NextLine     == Reading /\ ~tb.end /\ Show(BackLines(tb, tb.length - 1), tb.line + 1)
NextPage     == Reading /\ ~tb.end /\ Show([tb EXCEPT !.begin = FALSE], tb.line + tb.h)
ScrollSideways ==
    /\ Reading
    /\ \E hscroll \in {0, tb.hscroll - 1, tb.hscroll + 1} \cap 0..MaxHScroll :
          /\ hscroll # tb.hscroll
          /\ Show(BackLines([tb EXCEPT !.hscroll = hscroll], tb.length), tb.line)
\* redrawn some lines further up: back by the height of the frame
TextResize ==
    /\ Reading
    /\ \E h \in Heights :
          Show([BackLines(tb, tb.h + 4) EXCEPT !.h = h], Max({0, tb.line + tb.length - (tb.h + 4)}))

\* any other key, and a jump key: conf is called and the results shown again
TextClose == Reading /\ tb' = NoText(0)
Jump ==
    /\ tb.open = "search"
    /\ tb.keys # {}
    /\ tb' = [NoText(LinesBefore(tb.text, BackLines(tb, tb.length).page)) EXCEPT !.hscroll = tb.hscroll]

(***************************************************************************)
(* show_scroll_win                                                         *)
(***************************************************************************)
Pad(t) == LinesOf(t.text) + 1   \* get_line_no
OpenScroll ==
    /\ tb.open = "no"
    /\ \E text \in Texts, h \in Heights :
          tb' = [NoText(0) EXCEPT !.open = "scroll", !.text = text, !.h = Min({h, LinesOf(text) + 1})]
Clamped(top, last) == IF top < 0 THEN 0 ELSE IF top >= last THEN last ELSE top
ScrollKey ==
    /\ tb.open = "scroll"
    /\ \E top \in {tb.top + tb.h - 2, tb.top - (tb.h + 2), 0, Pad(tb) - tb.h, tb.top + 1, tb.top - 1} :
          tb' = [tb EXCEPT !.top = Clamped(top, Pad(tb) - tb.h)]
ScrollClose == tb.open = "scroll" /\ tb' = NoText(0)

TextNext ==
    \/ OpenText \/ OpenSearch \/ FirstPage \/ LastPage \/ PreviousLine \/ PreviousPage \/ NextLine \/ NextPage
    \/ ScrollSideways \/ TextResize \/ TextClose \/ Jump \/ OpenScroll \/ ScrollKey \/ ScrollClose

TextSpec == TextInit /\ [][TextNext]_tb

(***************************************************************************)
(* Properties                                                              *)
(***************************************************************************)

\* A key of a search is one written at a result on the screen and leads to it,
\* no key stands for two, and a result on the screen is without a key only when
\* there are more than JUMP_NB.
KeysFit ==
    LET seen == {p \in tb.jumps : p \in tb.top..tb.page - 1}
    IN  /\ \A k \in tb.keys : k.target \in seen /\ tb.label[k.target] = k.key
        /\ \A k, l \in tb.keys : k.key = l.key => k = l
        /\ \A p \in seen : tb.label[p] # 0 => \E k \in tb.keys : k.target = p
        /\ Cardinality(tb.keys) = Min({Cardinality(seen), JumpKeys})

\* A key moves the page by the lines it says: the pointer is always back at the
\* start of the line that is due, up stops at the first line and nowhere else,
\* and down only when the end of the text is on the screen.  Said of texts that
\* end with a newline (see the README).  The jump keys of a search are those of
\* the results on the screen, whatever was on it before.
ShowsTheRightLines ==
    /\ Reading /\ Terminated(tb.text) =>
          /\ tb.top \in LineStarts(tb.text) /\ LinesBefore(tb.text, tb.top) = tb.line
          /\ tb.begin <=> tb.line = 0
          /\ tb.end <=> tb.line + tb.h > LinesOf(tb.text)
    /\ tb.open = "search" => KeysFit
    /\ tb.open = "scroll" => tb.top \in 0..Pad(tb) - tb.h

=============================================================================
