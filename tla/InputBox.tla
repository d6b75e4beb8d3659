------------------------------ MODULE InputBox ------------------------------
(***************************************************************************)
(* The one-line input fields: lxdialog's dialog_inputbox, which mconf      *)
(* opens, and the dialog_inputbox of nconf.  Both show the part of the     *)
(* line that fits the field and keep the cursor in two counters: in the    *)
(* line (pos) and in the field (x).                                        *)
(***************************************************************************)
EXTENDS Integers, SequencesExt

CONSTANTS
    Chars,       \* what can be typed
    Offered,     \* the lines a field may open with
    FieldWidths, \* box_width, prompt_width
    MaxLen       \* MAX_LEN of mconf, and a bound for nconf, which has none

ASSUME InputAssumption ==
    Offered \subseteq Seq(Chars) /\ FieldWidths \subseteq Nat \ {0, 1} /\ MaxLen \in Nat

\* show: the first character in the field.  button: -1 is the field itself.
\* cap: the size of nconf's buffer.  left, right: the line a user has in mind,
\* before and after the cursor.
VARIABLE ib

Space == "space"   \* an empty cell of the field

NoField(cap) == [open |-> "no", text |-> <<>>, pos |-> 0, show |-> 0, x |-> 0, w |-> 0, button |-> -1,
                 screen |-> <<>>, cap |-> cap, left |-> <<>>, right |-> <<>>]

InputInit == ib = NoField(0)

Window(text, show, w) ==
    [c \in 1..w |-> IF show + c <= Len(text) THEN text[show + c] ELSE Space]

(***************************************************************************)
(* mconf                                                                   *)
(***************************************************************************)

\* drawn with the cursor behind the line, when opened and after a resize
DrawInput(i) ==
    LET len  == Len(i.text)
        show == IF len >= i.w THEN len - i.w + 1 ELSE 0
    IN  [i EXCEPT !.pos = len, !.show = show, !.x = len - show, !.screen = Window(i.text, show, i.w),
                  !.left = i.text, !.right = <<>>]

OpenInput ==
    /\ ib.open = "no"
    /\ \E text \in Offered, w \in FieldWidths :
          ib' = DrawInput([NoField(ib.cap) EXCEPT !.open = "mconf", !.text = text, !.w = w])

\* printing stops at the first cell behind the line, and leaves the rest
Reprint(i) ==
    [i EXCEPT !.screen = [c \in 1..i.w |-> IF i.show + c <= Len(i.text) THEN i.text[i.show + c]
                                           ELSE IF i.show + c = Len(i.text) + 1 THEN Space ELSE @[c]]]

\* the cursor moves in the field, at its edge the line does
\* mutant: at the edge nothing moves
StuckLeft(i) == IF i.x = 0 THEN i ELSE [i EXCEPT !.x = @ - 1]
StepLeft(i) == IF i.x = 0 THEN [i EXCEPT !.show = @ - 1] ELSE [i EXCEPT !.x = @ - 1]
StepRight(i) == IF i.x = i.w - 1 THEN [i EXCEPT !.show = @ + 1] ELSE [i EXCEPT !.x = @ + 1]

InField == ib.open = "mconf" /\ ib.button = -1
Backspace ==
    /\ InField /\ ib.pos > 0
    /\ ib' = Reprint([StepLeft(ib) EXCEPT !.text = RemoveAt(ib.text, ib.pos), !.pos = ib.pos - 1,
                                          !.left = Front(ib.left)])
KeyLeft ==
    /\ InField /\ ib.pos > 0
    /\ \E i \in {[StepLeft(ib) EXCEPT !.pos = ib.pos - 1,
                                      !.left = Front(ib.left), !.right = <<Last(ib.left)>> \o ib.right]} :
          ib' = IF ib.x = 0 THEN Reprint(i) ELSE i
KeyRight ==
    /\ InField /\ ib.pos < Len(ib.text)
    /\ \E i \in {[StepRight(ib) EXCEPT !.pos = ib.pos + 1,
                                       !.left = Append(ib.left, Head(ib.right)), !.right = Tail(ib.right)]} :
          ib' = IF ib.x = ib.w - 1 THEN Reprint(i) ELSE i
TypeKey ==
    /\ InField /\ Len(ib.text) < MaxLen
    /\ \E c \in Chars :
          ib' = Reprint([StepRight(ib) EXCEPT !.text = InsertAt(ib.text, ib.pos + 1, c), !.pos = ib.pos + 1,
                                              !.left = Append(ib.left, c)])
\* up, down, tab and, outside the field, left and right: field, Ok, Help in turn
InputButton ==
    ib.open = "mconf" /\ \E b \in -1..1 : b # ib.button /\ ib' = [ib EXCEPT !.button = b]
InputResize == ib.open = "mconf" /\ \E w \in FieldWidths : ib' = DrawInput([ib EXCEPT !.w = w])
\* Ok, Help, escape, or the terminal has become too small
InputClose  == ib.open # "no" /\ ib' = NoField(ib.cap)

(***************************************************************************)
(* nconf                                                                   *)
(***************************************************************************)

\* after every key the cursor is kept in the field and the field printed anew
Within(i) == [i EXCEPT !.x = Max({0, Min({@, i.w - 1})})]
Refresh(i) ==
    [i EXCEPT !.show = i.pos - i.x, !.screen = Window(i.text, i.pos - i.x, i.w)]

OpenEntry ==
    /\ ib.open = "no"
    /\ \E text \in Offered, w \in FieldWidths :
          ib' = Refresh([NoField(Max({ib.cap, Len(text) + 1})) EXCEPT
                            !.open = "nconf", !.text = text, !.w = w, !.pos = Len(text),
                            !.x = Min({Len(text), w - 1}), !.left = text])

InEntry == ib.open = "nconf"
EntryBackspace ==
    /\ InEntry /\ ib.pos > 0
    /\ ib' = Refresh(Within([ib EXCEPT !.text = RemoveAt(@, ib.pos), !.pos = @ - 1, !.x = @ - 1,
                                       !.left = Front(@)]))
\* KEY_DC moves one byte more than the rest of the line with its NUL: it reads
\* behind the buffer when the line fills it.  The byte lands behind the new NUL,
\* where strlen and the repaint do not look, so it is left out.
EntryDelete ==
    /\ InEntry /\ ib.pos < Len(ib.text)
    /\ ib' = Refresh([ib EXCEPT !.text = RemoveAt(@, ib.pos + 1), !.right = Tail(@)])
EntryLeft ==
    /\ InEntry /\ ib.pos > 0
    /\ ib' = Refresh(Within([ib EXCEPT !.pos = @ - 1, !.x = @ - 1,
                                       !.left = Front(@), !.right = <<Last(ib.left)>> \o @]))
EntryRight ==
    /\ InEntry /\ ib.pos < Len(ib.text)
    /\ ib' = Refresh(Within([ib EXCEPT !.pos = @ + 1, !.x = @ + 1,
                                       !.left = Append(@, Head(ib.right)), !.right = Tail(@)]))
EntryHome ==
    /\ InEntry
    /\ ib' = Refresh([ib EXCEPT !.pos = 0, !.x = 0, !.left = <<>>, !.right = ib.left \o @])
EntryEnd ==
    /\ InEntry
    /\ ib' = Refresh([ib EXCEPT !.pos = Len(ib.text), !.x = Min({Len(ib.text), ib.w - 1}),
                                !.left = @ \o ib.right, !.right = <<>>])
EntryType ==
    /\ InEntry /\ Len(ib.text) < MaxLen
    /\ \E c \in Chars :
          ib' = Refresh(Within([ib EXCEPT !.cap = Max({@, Len(ib.text) + 2}), !.pos = @ + 1, !.x = @ + 1,
                                          !.text = InsertAt(@, ib.pos + 1, c), !.left = Append(@, c)]))

InputNext ==
    \/ OpenInput \/ Backspace \/ KeyLeft \/ KeyRight \/ TypeKey \/ InputButton \/ InputResize \/ InputClose
    \/ OpenEntry \/ EntryBackspace \/ EntryDelete \/ EntryLeft \/ EntryRight \/ EntryHome \/ EntryEnd
    \/ EntryType

InputSpec == InputInit /\ [][InputNext]_ib

(***************************************************************************)
(* Properties                                                              *)
(***************************************************************************)

\* What Enter will return is the line the user typed, the next key acts where
\* the cursor blinks, and the field shows the line around it without remains of
\* what was there; nconf's buffer holds the line with its terminator.
EditsLikeALine ==
    ib.open # "no" =>
        /\ ib.text = ib.left \o ib.right
        /\ ib.pos = Len(ib.left)
        /\ ib.x \in 0..ib.w - 1 /\ ib.show >= 0 /\ ib.show + ib.x = ib.pos
        /\ ib.screen = Window(ib.left \o ib.right, ib.show, ib.w)
        /\ ib.open = "nconf" => Len(ib.text) < ib.cap

=============================================================================
