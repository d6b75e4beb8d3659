---------------------------- MODULE InputBox_proofs ----------------------------
(***************************************************************************)
(* The input fields of mconf and nconf, for every line, every width of the *)
(* field and every order of keys: what is shown and returned is the line   *)
(* typed, and the cursor is where the next key acts.                       *)
(***************************************************************************)
EXTENDS InputBox, TLAPS, SequenceTheorems

Lines   == Seq(Chars)
Screens == Seq(Chars \cup {Space})

\* what every state of a field is
Fields ==
    [open : {"no", "mconf", "nconf"}, text : Lines, pos : Int, show : Int, x : Int, w : Nat,
     button : -1..1, screen : Screens, cap : Nat, left : Lines, right : Lines]

\* The length of a line, under a name that is not the provers' own.
Size(line) == Len(line)

\* EditsLikeALine of a state, and without what the field shows.
Held(i) ==
    /\ i.w >= 2
    /\ i.text = i.left \o i.right
    /\ i.pos = Size(i.left)
    /\ i.x \in 0..i.w - 1 /\ i.x <= i.pos
    /\ i.open = "nconf" => Size(i.text) < i.cap
Edited(i) == Held(i) /\ i.show = i.pos - i.x /\ i.screen = Window(i.text, i.show, i.w)

InputInv == ib \in Fields /\ (ib.open # "no" => Edited(ib))

-----------------------------------------------------------------------------
(* Numbers and lines *)

LEMMA MinOfTwo == ASSUME NEW a \in Int, NEW b \in Int PROVE Min({a, b}) = IF a <= b THEN a ELSE b
  BY DEF Min

LEMMA MaxOfTwo == ASSUME NEW a \in Int, NEW b \in Int PROVE Max({a, b}) = IF a >= b THEN a ELSE b
  BY DEF Max

LEMMA Joined ==
    ASSUME NEW l \in Lines, NEW r \in Lines
    PROVE  /\ l \o r \in Lines /\ Size(l \o r) = Size(l) + Size(r)
           /\ Size(l) \in Nat /\ Size(r) \in Nat
           /\ <<>> \in Lines /\ Size(<<>>) = 0 /\ <<>> \o r = r /\ l \o <<>> = l
  BY ConcatProperties, LenProperties, ConcatEmptySeq, EmptySeq DEF Lines, Size

\* Taking the character before the cursor away, or to the other side of it.
LEMMA Before ==
    ASSUME NEW l \in Lines, NEW r \in Lines, Size(l) > 0
    PROVE  /\ Front(l) \in Lines /\ Size(Front(l)) = Size(l) - 1
           /\ <<Last(l)>> \o r \in Lines
           /\ RemoveAt(l \o r, Size(l)) = Front(l) \o r
           /\ Front(l) \o (<<Last(l)>> \o r) = l \o r
<1> USE DEF Size
<1>1. Size(l) \in Nat /\ Size(r) \in Nat
  BY LenProperties DEF Lines
<1>2. Last(l) \in Chars /\ <<Last(l)>> \in Lines /\ Size(<<Last(l)>>) = 1
  BY <1>1, ElementOfSeq DEF Last, Lines
<1>3. Front(l) \in Lines /\ Size(Front(l)) = Size(l) - 1 /\ \A k \in 1..Size(l) - 1 : Front(l)[k] = l[k]
  <2>1. \A k \in 1..Size(l) - 1 : l[k] \in Chars
    BY <1>1, ElementOfSeq DEF Lines
  <2>2. Front(l) \in Seq(Chars)
    BY <1>1, <2>1, SubSeqProperties DEF Front
  <2>3. Size(Front(l)) = Size(l) - 1
    <3>1. Size(Front(l)) = IF 1 <= Size(l) - 1 THEN Size(l) - 1 - 1 + 1 ELSE 0
      BY <1>1, <2>1, SubSeqProperties DEF Front
    <3>2. PICK n \in Nat : n = Size(l)
      BY <1>1
    <3>3. Size(Front(l)) = n - 1
      BY <3>1, <3>2
    <3> QED
      BY <3>2, <3>3
  <2>4. \A k \in 1..Size(l) - 1 : Front(l)[k] = l[k]
    BY <1>1 DEF Front, Lines
  <2> QED
    BY <2>2, <2>3, <2>4 DEF Lines
<1>4. <<Last(l)>> \o r \in Lines
  BY <1>2, Joined
<1>5. SubSeq(l \o r, 1, Size(l) - 1) = Front(l)
  BY <1>1 DEF Front, Lines
<1>6. SubSeq(l \o r, Size(l) + 1, Size(l \o r)) = r
  BY <1>1 DEF Lines
<1>7. RemoveAt(l \o r, Size(l)) = Front(l) \o r
  BY <1>5, <1>6 DEF RemoveAt
<1>8. Front(l) \o <<Last(l)>> = l
  BY <1>1, <1>2, <1>3 DEF Last, Lines
<1>9. (Front(l) \o <<Last(l)>>) \o r = Front(l) \o (<<Last(l)>> \o r)
  BY <1>2, <1>3, ConcatAssociative DEF Lines
<1> QED
  BY <1>3, <1>4, <1>7, <1>8, <1>9

\* The same for the character behind the cursor.
LEMMA Behind ==
    ASSUME NEW l \in Lines, NEW r \in Lines, Size(r) > 0
    PROVE  /\ Tail(r) \in Lines /\ Size(Tail(r)) = Size(r) - 1
           /\ Append(l, Head(r)) \in Lines /\ Size(Append(l, Head(r))) = Size(l) + 1
           /\ RemoveAt(l \o r, Size(l) + 1) = l \o Tail(r)
           /\ Append(l, Head(r)) \o Tail(r) = l \o r
<1> USE DEF Size
<1>1. Size(l) \in Nat /\ Size(r) \in Nat /\ r # <<>>
  BY LenProperties, EmptySeq DEF Lines
<1>2. Head(r) \in Chars /\ Tail(r) \in Lines /\ Size(Tail(r)) = Size(r) - 1
  BY <1>1, HeadTailProperties DEF Lines
<1>3. Append(l, Head(r)) \in Lines /\ Size(Append(l, Head(r))) = Size(l) + 1
  BY <1>2, AppendProperties DEF Lines
<1>4. SubSeq(l \o r, 1, Size(l)) = l
  BY <1>1 DEF Lines
<1>5. SubSeq(l \o r, Size(l) + 2, Size(l \o r)) = Tail(r)
  BY <1>1 DEF Lines
<1>6. RemoveAt(l \o r, Size(l) + 1) = l \o Tail(r)
  <2>1. (Size(l) + 1) - 1 = Size(l) /\ Size(l) + 1 + 1 = Size(l) + 2
    BY <1>1
  <2>2. SubSeq(l \o r, 1, (Size(l) + 1) - 1) = l
    BY <1>4, <2>1
  <2>3. SubSeq(l \o r, Size(l) + 1 + 1, Size(l \o r)) = Tail(r)
    BY <1>5, <2>1
  <2>4. RemoveAt(l \o r, Size(l) + 1)
           = SubSeq(l \o r, 1, (Size(l) + 1) - 1) \o SubSeq(l \o r, Size(l) + 1 + 1, Size(l \o r))
    BY Zenon DEF RemoveAt
  <2> QED
    BY <2>2, <2>3, <2>4, Zenon
<1>7. Append(l, Head(r)) \o Tail(r) = l \o r
  BY <1>1, <1>2 DEF Lines
<1> QED
  BY <1>2, <1>3, <1>6, <1>7

\* Typing a character puts it before the cursor.
LEMMA Inserted ==
    ASSUME NEW l \in Lines, NEW r \in Lines, NEW c \in Chars
    PROVE  /\ Append(l, c) \in Lines /\ Size(Append(l, c)) = Size(l) + 1
           /\ InsertAt(l \o r, Size(l) + 1, c) = Append(l, c) \o r
<1> USE DEF Size
<1>1. Size(l) \in Nat /\ Size(r) \in Nat
  BY LenProperties DEF Lines
<1>2. Append(l, c) \in Lines /\ Size(Append(l, c)) = Size(l) + 1 /\ Append(l, c) = l \o <<c>>
  BY AppendProperties, AppendIsConcat DEF Lines
<1>3. SubSeq(l \o r, 1, Size(l)) = l
  BY <1>1 DEF Lines
<1>4. SubSeq(l \o r, Size(l) + 1, Size(l \o r)) = r
  BY <1>1 DEF Lines
<1>5. (Size(l) + 1) - 1 = Size(l)
  BY <1>1
<1>6. SubSeq(l \o r, 1, (Size(l) + 1) - 1) = l
  BY <1>3, <1>5
<1>7. InsertAt(l \o r, Size(l) + 1, c)
         = SubSeq(l \o r, 1, (Size(l) + 1) - 1) \o <<c>> \o SubSeq(l \o r, Size(l) + 1, Size(l \o r))
  BY Zenon DEF InsertAt
<1> QED
  BY <1>2, <1>4, <1>6, <1>7, Zenon

-----------------------------------------------------------------------------
(* What the field shows *)

LEMMA FieldParts ==
    ASSUME NEW i \in Fields
    PROVE  /\ i.open \in {"no", "mconf", "nconf"} /\ i.text \in Lines /\ i.pos \in Int /\ i.show \in Int
           /\ i.x \in Int /\ i.w \in Nat /\ i.cap \in Nat /\ i.left \in Lines /\ i.right \in Lines
           /\ Size(i.text) \in Nat /\ Size(i.left) \in Nat /\ Size(i.right) \in Nat
<1>1. /\ i.open \in {"no", "mconf", "nconf"} /\ i.text \in Lines /\ i.pos \in Int /\ i.show \in Int
      /\ i.x \in Int /\ i.w \in Nat /\ i.cap \in Nat /\ i.left \in Lines /\ i.right \in Lines
  BY DEF Fields
<1> QED
  BY <1>1, Joined

LEMMA WindowIsScreen ==
    ASSUME NEW text \in Lines, NEW show \in Int, show >= 0, NEW w \in Nat
    PROVE  Window(text, show, w) \in Screens
<1> USE DEF Size
<1>1. \A c \in 1..w : show + c <= Size(text) => text[show + c] \in Chars
  BY ElementOfSeq, LenProperties DEF Lines
<1>2. Window(text, show, w) \in [1..w -> Chars \cup {Space}]
  BY <1>1 DEF Window
<1> QED
  BY <1>2, SeqDef DEF Screens

\* Printing up to the first cell behind the line shows the whole field when
\* what was there was the line one character longer or one to the right.
LEMMA ReprintShows ==
    ASSUME NEW i \in Fields, Held(i), i.show = i.pos - i.x,
           NEW text \in Lines, NEW show \in Int, i.screen = Window(text, show, i.w),
           Size(text) - show <= Size(i.text) - i.show + 1
    PROVE  Reprint(i) \in Fields /\ Edited(Reprint(i)) /\ Reprint(i).open = i.open
<1> USE DEF Size
<1> DEFINE screen == [c \in 1..i.w |-> IF i.show + c <= Size(i.text) THEN i.text[i.show + c]
                                       ELSE IF i.show + c = Size(i.text) + 1 THEN Space ELSE i.screen[c]]
<1>1. /\ Size(text) \in Nat /\ Size(i.text) \in Nat /\ i.show \in Int /\ i.show >= 0
      /\ i.w \in Nat /\ i.text \in Lines
  <2>1. /\ Size(text) \in Nat /\ Size(i.text) \in Nat /\ i.pos \in Int /\ i.x \in Int /\ i.show \in Int
        /\ i.w \in Nat /\ i.text \in Lines
    BY FieldParts, Joined
  <2>2. i.x <= i.pos
    BY DEF Held
  <2> QED
    BY <2>1, <2>2
<1>2. screen = Window(i.text, i.show, i.w)
  <2>1. \A c \in 1..i.w : i.screen[c] = IF show + c <= Size(text) THEN text[show + c] ELSE Space
    BY DEF Window
  <2>2. \A c \in 1..i.w : i.show + c > Size(i.text) + 1 => show + c > Size(text)
    BY <1>1
  <2>3. \A c \in 1..i.w : screen[c] = IF i.show + c <= Size(i.text) THEN i.text[i.show + c] ELSE Space
    <3> TAKE c \in 1..i.w
    <3>1. CASE i.show + c <= Size(i.text)
      BY <3>1
    <3>2. CASE i.show + c = Size(i.text) + 1
      BY <1>1, <3>2
    <3>3. CASE i.show + c > Size(i.text) + 1
      <4>1. show + c > Size(text)
        BY <2>2, <3>3
      <4>2. i.screen[c] = Space
        BY <1>1, <2>1, <4>1
      <4> QED
        BY <1>1, <3>3, <4>2
    <3>4. \/ i.show + c <= Size(i.text) \/ i.show + c = Size(i.text) + 1 \/ i.show + c > Size(i.text) + 1
      BY <1>1
    <3> QED
      BY <3>1, <3>2, <3>3, <3>4
  <2> QED
    BY <2>3 DEF Window
<1>3. Window(i.text, i.show, i.w) \in Screens
  BY <1>1, WindowIsScreen
<1>4. Reprint(i) = [i EXCEPT !.screen = screen]
  BY DEF Reprint
<1> HIDE DEF screen
<1>5. /\ Reprint(i) \in Fields
      /\ Reprint(i).open = i.open /\ Reprint(i).text = i.text /\ Reprint(i).pos = i.pos
      /\ Reprint(i).show = i.show /\ Reprint(i).x = i.x /\ Reprint(i).w = i.w
      /\ Reprint(i).cap = i.cap /\ Reprint(i).left = i.left /\ Reprint(i).right = i.right
      /\ Reprint(i).screen = screen
  BY <1>2, <1>3, <1>4 DEF Fields
<1> QED
  BY <1>2, <1>5 DEF Edited, Held

LEMMA RefreshShows ==
    ASSUME NEW i \in Fields, Held(i)
    PROVE  Refresh(i) \in Fields /\ Edited(Refresh(i))
<1> DEFINE show   == i.pos - i.x
           screen == Window(i.text, show, i.w)
<1>1. show \in Int /\ show >= 0 /\ i.w \in Nat /\ i.text \in Lines
  <2>1. i.pos \in Int /\ i.x \in Int /\ i.w \in Nat /\ i.text \in Lines
    BY FieldParts
  <2> QED
    BY <2>1 DEF Held
<1>2. screen \in Screens
  BY <1>1, WindowIsScreen
<1>3. Refresh(i) = [i EXCEPT !.show = show, !.screen = screen]
  BY DEF Refresh
<1> HIDE DEF screen
<1>5. /\ Refresh(i) \in Fields
      /\ Refresh(i).open = i.open /\ Refresh(i).text = i.text /\ Refresh(i).pos = i.pos
      /\ Refresh(i).show = show /\ Refresh(i).x = i.x /\ Refresh(i).w = i.w
      /\ Refresh(i).cap = i.cap /\ Refresh(i).left = i.left /\ Refresh(i).right = i.right
      /\ Refresh(i).screen = screen
  BY <1>1, <1>2, <1>3 DEF Fields
<1> QED
  BY <1>5 DEF Edited, Held, screen

\* A field that is opened or drawn anew has the cursor behind the line.
LEMMA DrawShows ==
    ASSUME NEW i \in Fields, i.w >= 2, i.open # "nconf"
    PROVE  DrawInput(i) \in Fields /\ Edited(DrawInput(i))
<1> USE DEF Size
<1> DEFINE len    == Size(i.text)
           show   == IF len >= i.w THEN len - i.w + 1 ELSE 0
           screen == Window(i.text, show, i.w)
<1>1. len \in Nat /\ show \in Int /\ show >= 0 /\ len - show \in 0..i.w - 1 /\ i.w \in Nat /\ i.text \in Lines
  BY LenProperties DEF Fields, Lines
<1>2. screen \in Screens
  BY <1>1, WindowIsScreen
<1>3. DrawInput(i) = [i EXCEPT !.pos = len, !.show = show, !.x = len - show, !.screen = screen,
                               !.left = i.text, !.right = <<>>]
  BY DEF DrawInput
<1>4. <<>> \in Lines /\ i.text \o <<>> = i.text
  BY <1>1, Joined
<1> HIDE DEF screen, show, len
<1>5. /\ DrawInput(i) \in Fields
      /\ DrawInput(i).open = i.open /\ DrawInput(i).text = i.text /\ DrawInput(i).pos = len
      /\ DrawInput(i).show = show /\ DrawInput(i).x = len - show /\ DrawInput(i).w = i.w
      /\ DrawInput(i).left = i.text /\ DrawInput(i).right = <<>>
      /\ DrawInput(i).screen = screen
  <2>1. len - show \in Int /\ len \in Int
    BY <1>1
  <2> QED
    BY <1>1, <1>2, <1>3, <1>4, <2>1 DEF Fields
<1>6. show = len - (len - show) /\ len - show <= len
  BY <1>1
<1> QED
  BY <1>1, <1>4, <1>5, <1>6 DEF Edited, Held, screen, len

\* nconf keeps the cursor in the field.
LEMMA WithinHolds ==
    ASSUME NEW i \in Fields, i.w >= 2, i.text = i.left \o i.right, i.pos = Size(i.left), i.x <= i.pos,
           i.open = "nconf" => Size(i.text) < i.cap
    PROVE  Within(i) \in Fields /\ Held(Within(i)) /\ Within(i).open = i.open
<1> DEFINE x == Max({0, Min({i.x, i.w - 1})})
<1>1. i.x \in Int /\ i.w - 1 \in Int /\ i.w \in Int /\ i.pos \in Nat
  BY FieldParts
<1>2. Min({i.x, i.w - 1}) = IF i.x <= i.w - 1 THEN i.x ELSE i.w - 1
  BY <1>1, MinOfTwo
<1>3. PICK y \in Int : y = Min({i.x, i.w - 1})
  BY <1>1, <1>2
<1>4. x \in 0..i.w - 1 /\ x \in Int /\ x <= i.pos
  <2>1. x = Max({0, y})
    BY <1>3
  <2>2. Max({0, y}) = IF 0 >= y THEN 0 ELSE y
    BY MaxOfTwo
  <2> HIDE DEF x
  <2> QED
    BY <1>1, <1>2, <1>3, <2>1, <2>2
<1>5. Within(i) = [i EXCEPT !.x = x]
  BY DEF Within
<1> HIDE DEF x
<1>6. /\ Within(i) \in Fields
      /\ Within(i).open = i.open /\ Within(i).text = i.text /\ Within(i).pos = i.pos
      /\ Within(i).x = x /\ Within(i).w = i.w
      /\ Within(i).cap = i.cap /\ Within(i).left = i.left /\ Within(i).right = i.right
  BY <1>4, <1>5 DEF Fields
<1> QED
  BY <1>4, <1>6 DEF Held

LEMMA NoFieldIsField ==
    ASSUME NEW cap \in Nat
    PROVE  /\ NoField(cap) \in Fields /\ NoField(cap).open = "no" /\ NoField(cap).cap = cap
           /\ NoField(cap).left = <<>> /\ NoField(cap).right = <<>>
<1>1. <<>> \in Lines /\ <<>> \in Screens
  BY EmptySeq DEF Lines, Screens
<1> QED
  BY <1>1 DEF NoField, Fields

\* A step of the cursor in mconf: in the field, or of the line at its edge.
LEMMA StepLeftHolds ==
    ASSUME NEW i \in Fields, Edited(i), i.pos > 0
    PROVE  LET j == StepLeft(i) IN
           /\ j \in Fields /\ j.open = i.open /\ j.text = i.text /\ j.pos = i.pos /\ j.w = i.w
           /\ j.screen = i.screen /\ j.cap = i.cap /\ j.left = i.left /\ j.right = i.right
           /\ j.x \in 0..j.w - 1 /\ j.x <= i.pos - 1 /\ j.show = i.pos - 1 - j.x
           /\ j.show \in {i.show, i.show - 1} /\ (i.x # 0 => j.show = i.show)
<1>1. i.x \in Int /\ i.show \in Int /\ i.pos \in Int /\ i.w \in Int
  BY FieldParts
<1>2. i.x \in 0..i.w - 1 /\ i.x <= i.pos /\ i.show = i.pos - i.x
  BY DEF Edited, Held
<1>3. CASE i.x = 0
  <2>1. StepLeft(i) = [i EXCEPT !.show = i.show - 1]
    BY <1>3 DEF StepLeft
  <2> QED
    BY <1>1, <1>2, <1>3, <2>1 DEF Fields
<1>4. CASE i.x # 0
  <2>1. StepLeft(i) = [i EXCEPT !.x = i.x - 1]
    BY <1>4 DEF StepLeft
  <2> QED
    BY <1>1, <1>2, <1>4, <2>1 DEF Fields
<1> QED
  BY <1>3, <1>4

LEMMA StepRightHolds ==
    ASSUME NEW i \in Fields, Edited(i)
    PROVE  LET j == StepRight(i) IN
           /\ j \in Fields /\ j.open = i.open /\ j.text = i.text /\ j.pos = i.pos /\ j.w = i.w
           /\ j.screen = i.screen /\ j.cap = i.cap /\ j.left = i.left /\ j.right = i.right
           /\ j.x \in 0..j.w - 1 /\ j.x <= i.pos + 1 /\ j.show = i.pos + 1 - j.x
           /\ j.show \in {i.show, i.show + 1} /\ (i.x # i.w - 1 => j.show = i.show)
<1>1. i.x \in Int /\ i.show \in Int /\ i.pos \in Int /\ i.w \in Int
  BY FieldParts
<1>2. i.x \in 0..i.w - 1 /\ i.x <= i.pos /\ i.show = i.pos - i.x /\ i.w >= 2
  BY DEF Edited, Held
<1>3. CASE i.x = i.w - 1
  <2>1. StepRight(i) = [i EXCEPT !.show = i.show + 1]
    BY <1>3 DEF StepRight
  <2> QED
    BY <1>1, <1>2, <1>3, <2>1 DEF Fields
<1>4. CASE i.x # i.w - 1
  <2>1. StepRight(i) = [i EXCEPT !.x = i.x + 1]
    BY <1>4 DEF StepRight
  <2> QED
    BY <1>1, <1>2, <1>4, <2>1 DEF Fields
<1> QED
  BY <1>3, <1>4

-----------------------------------------------------------------------------
(* The inductive invariant *)

LEMMA InputStarts == InputInit => InputInv
  BY NoFieldIsField DEF InputInit, InputInv

\* What the invariant says of the line and the two counters.
Whole(i) ==
    /\ i.text \in Lines /\ i.left \in Lines /\ i.right \in Lines
    /\ i.pos \in Nat /\ i.cap \in Nat /\ i.x \in Int /\ i.show \in Int /\ i.w \in Nat /\ i.w >= 2
    /\ i.text = i.left \o i.right /\ i.pos = Size(i.left)
    /\ Size(i.text) = i.pos + Size(i.right) /\ Size(i.right) \in Nat
    /\ i.x \in 0..i.w - 1 /\ i.x <= i.pos /\ i.show = i.pos - i.x

LEMMA EditedIsWhole ==
    ASSUME NEW i \in Fields, Edited(i)
    PROVE  Whole(i) /\ i.screen = Window(i.text, i.show, i.w) /\ (i.open = "nconf" => Size(i.text) < i.cap)
<1>1. /\ i.text \in Lines /\ i.left \in Lines /\ i.right \in Lines
      /\ i.pos \in Int /\ i.cap \in Nat /\ i.x \in Int /\ i.show \in Int /\ i.w \in Nat
      /\ Size(i.left) \in Nat /\ Size(i.right) \in Nat
  BY FieldParts
<1>2. /\ i.w >= 2 /\ i.text = i.left \o i.right /\ i.pos = Size(i.left)
      /\ i.x \in 0..i.w - 1 /\ i.x <= i.pos
      /\ i.show = i.pos - i.x /\ i.screen = Window(i.text, i.show, i.w)
      /\ i.open = "nconf" => Size(i.text) < i.cap
  BY DEF Edited, Held
<1>3. Size(i.left \o i.right) = Size(i.left) + Size(i.right)
  BY <1>1, Joined
<1> QED
  BY <1>1, <1>2, <1>3 DEF Whole

\* The lines that the five edits leave on the two sides of the cursor.
LEMMA Rubbed ==
    ASSUME NEW i, Whole(i), i.pos > 0
    PROVE  \E text \in Lines, left \in Lines :
              /\ text = RemoveAt(i.text, i.pos) /\ left = Front(i.left) /\ text = left \o i.right
              /\ Size(left) = i.pos - 1 /\ Size(text) = Size(i.text) - 1
<1>1. PICK l \in Lines, r \in Lines : l = i.left /\ r = i.right
  BY DEF Whole
<1>2. i.text = l \o r /\ i.pos = Size(l) /\ Size(i.text) = i.pos + Size(r) /\ Size(r) \in Nat /\ i.pos \in Nat
  BY <1>1 DEF Whole
<1>3. Size(l) > 0
  BY <1>2
<1>4. Front(l) \in Lines /\ Size(Front(l)) = Size(l) - 1 /\ RemoveAt(l \o r, Size(l)) = Front(l) \o r
  BY <1>3, Before, Zenon
<1>5. PICK left \in Lines : left = Front(l) /\ Size(left) = i.pos - 1 /\ RemoveAt(i.text, i.pos) = left \o r
  BY <1>2, <1>4
<1>6. left \o r \in Lines /\ Size(left \o r) = Size(left) + Size(r)
  BY Joined
<1>7. PICK text \in Lines : text = left \o r /\ Size(text) = Size(left) + Size(r)
  BY <1>6
<1>8. Size(text) = Size(i.text) - 1
  BY <1>2, <1>5, <1>7
<1> QED
  BY <1>1, <1>5, <1>7, <1>8, Zenon

LEMMA WentLeft ==
    ASSUME NEW i, Whole(i), i.pos > 0
    PROVE  \E left \in Lines, right \in Lines :
              /\ left = Front(i.left) /\ right = <<Last(i.left)>> \o i.right
              /\ i.text = left \o right /\ Size(left) = i.pos - 1
<1>1. PICK l \in Lines, r \in Lines : l = i.left /\ r = i.right
  BY DEF Whole
<1>2. i.text = l \o r /\ i.pos = Size(l)
  BY <1>1 DEF Whole
<1>3. Size(l) > 0
  BY <1>2
<1>4. /\ Front(l) \in Lines /\ Size(Front(l)) = Size(l) - 1
      /\ <<Last(l)>> \o r \in Lines /\ Front(l) \o (<<Last(l)>> \o r) = l \o r
  BY <1>3, Before, Zenon
<1>5. PICK right \in Lines : right = <<Last(l)>> \o r /\ Front(l) \o right = l \o r
  BY <1>4
<1> QED
  BY <1>1, <1>2, <1>4, <1>5, Zenon

LEMMA WentRight ==
    ASSUME NEW i, Whole(i), i.pos < Size(i.text)
    PROVE  \E left \in Lines, right \in Lines :
              /\ left = Append(i.left, Head(i.right)) /\ right = Tail(i.right)
              /\ i.text = left \o right /\ Size(left) = i.pos + 1
<1>1. PICK l \in Lines, r \in Lines : l = i.left /\ r = i.right
  BY DEF Whole
<1>2. i.text = l \o r /\ i.pos = Size(l) /\ Size(i.text) = i.pos + Size(r) /\ Size(r) \in Nat /\ i.pos \in Nat
  BY <1>1 DEF Whole
<1>3. Size(r) > 0
  BY <1>2
<1>4. /\ Tail(r) \in Lines /\ Append(l, Head(r)) \in Lines /\ Size(Append(l, Head(r))) = Size(l) + 1
      /\ Append(l, Head(r)) \o Tail(r) = l \o r
  BY <1>3, Behind, Zenon
<1> QED
  BY <1>1, <1>2, <1>4, Zenon

LEMMA Deleted ==
    ASSUME NEW i, Whole(i), i.pos < Size(i.text)
    PROVE  \E text \in Lines, right \in Lines :
              /\ text = RemoveAt(i.text, i.pos + 1) /\ right = Tail(i.right) /\ text = i.left \o right
              /\ Size(text) = Size(i.text) - 1
<1>1. PICK l \in Lines, r \in Lines : l = i.left /\ r = i.right
  BY DEF Whole
<1>2. i.text = l \o r /\ i.pos = Size(l) /\ Size(i.text) = i.pos + Size(r) /\ Size(r) \in Nat /\ i.pos \in Nat
  BY <1>1 DEF Whole
<1>3. Size(r) > 0
  BY <1>2
<1>4. Tail(r) \in Lines /\ Size(Tail(r)) = Size(r) - 1 /\ RemoveAt(l \o r, Size(l) + 1) = l \o Tail(r)
  BY <1>3, Behind, Zenon
<1>5. PICK right \in Lines : right = Tail(r) /\ Size(right) = Size(r) - 1 /\ RemoveAt(i.text, i.pos + 1) = l \o right
  BY <1>2, <1>4
<1>6. l \o right \in Lines /\ Size(l \o right) = Size(l) + Size(right)
  BY Joined
<1>7. PICK text \in Lines : text = l \o right /\ Size(text) = Size(l) + Size(right)
  BY <1>6
<1>8. Size(text) = Size(i.text) - 1
  BY <1>2, <1>5, <1>7
<1> QED
  BY <1>1, <1>5, <1>7, <1>8, Zenon

LEMMA Typed ==
    ASSUME NEW i, Whole(i), NEW c \in Chars
    PROVE  \E text \in Lines, left \in Lines :
              /\ text = InsertAt(i.text, i.pos + 1, c) /\ left = Append(i.left, c) /\ text = left \o i.right
              /\ Size(left) = i.pos + 1 /\ Size(text) = Size(i.text) + 1
<1>1. PICK l \in Lines, r \in Lines : l = i.left /\ r = i.right
  BY DEF Whole
<1>2. i.text = l \o r /\ i.pos = Size(l) /\ Size(i.text) = i.pos + Size(r) /\ Size(r) \in Nat /\ i.pos \in Nat
  BY <1>1 DEF Whole
<1>4. Append(l, c) \in Lines /\ Size(Append(l, c)) = Size(l) + 1 /\ InsertAt(l \o r, Size(l) + 1, c) = Append(l, c) \o r
  BY Inserted, Zenon
<1>5. PICK left \in Lines : left = Append(l, c) /\ Size(left) = i.pos + 1 /\ InsertAt(i.text, i.pos + 1, c) = left \o r
  BY <1>2, <1>4
<1>6. left \o r \in Lines /\ Size(left \o r) = Size(left) + Size(r)
  BY Joined
<1>7. PICK text \in Lines : text = left \o r /\ Size(text) = Size(left) + Size(r)
  BY <1>6
<1>8. Size(text) = Size(i.text) + 1
  BY <1>2, <1>5, <1>7
<1> QED
  BY <1>1, <1>5, <1>7, <1>8, Zenon

LEMMA InputInductive == InputInv /\ [InputNext]_ib => InputInv'
<1> SUFFICES ASSUME InputInv, [InputNext]_ib PROVE InputInv'
  OBVIOUS
<1> USE InputAssumption
<1>0. ib \in Fields /\ ib.cap \in Nat /\ (ib.open # "no" => Edited(ib))
  BY FieldParts DEF InputInv
<1>1. CASE OpenInput
  <2>1. PICK text \in Offered, w \in FieldWidths :
           ib' = DrawInput([NoField(ib.cap) EXCEPT !.open = "mconf", !.text = text, !.w = w])
    BY <1>1 DEF OpenInput
  <2>2. text \in Lines /\ w \in Nat /\ w >= 2
    BY DEF Lines
  <2>3. PICK i : i = [NoField(ib.cap) EXCEPT !.open = "mconf", !.text = text, !.w = w]
    OBVIOUS
  <2>4. NoField(ib.cap) \in Fields
    BY <1>0, NoFieldIsField
  <2>5. i \in Fields /\ i.w >= 2 /\ i.open # "nconf"
    BY <2>2, <2>3, <2>4 DEF Fields
  <2> QED
    BY <2>1, <2>3, <2>5, DrawShows DEF InputInv
<1>2. CASE Backspace
  <2>1. ib.open = "mconf" /\ ib.pos > 0
    BY <1>2 DEF Backspace, InField, Size
  <2>2. Whole(ib) /\ ib.screen = Window(ib.text, ib.show, ib.w) /\ (ib.open = "nconf" => Size(ib.text) < ib.cap)
    BY <1>0, <2>1, EditedIsWhole
  <2>3. PICK text \in Lines, left \in Lines :
           /\ text = RemoveAt(ib.text, ib.pos) /\ left = Front(ib.left)
           /\ text = left \o ib.right /\ Size(left) = ib.pos - 1 /\ Size(text) = Size(ib.text) - 1
    BY <2>1, <2>2, Rubbed
  <2>4. PICK s \in Fields :
           /\ s = StepLeft(ib) /\ s.open = ib.open /\ s.text = ib.text /\ s.w = ib.w /\ s.screen = ib.screen
           /\ s.left = ib.left /\ s.right = ib.right /\ s.x \in 0..s.w - 1 /\ s.x <= ib.pos - 1
           /\ s.show = ib.pos - 1 - s.x /\ s.show \in {ib.show, ib.show - 1}
           /\ (ib.x # 0 => s.show = ib.show)
    BY <1>0, <2>1, StepLeftHolds
  <2>5. PICK i : i = [s EXCEPT !.text = text, !.left = left, !.pos = ib.pos - 1]
    OBVIOUS
  <2>6. /\ i \in Fields /\ i.text = text /\ i.left = left /\ i.right = ib.right /\ i.pos = ib.pos - 1 /\ i.x = s.x
        /\ i.show = s.show /\ i.screen = ib.screen /\ i.w = ib.w /\ i.open = "mconf"
    <3>1. ib.pos - 1 \in Int /\ ib.pos + 1 \in Int /\ ib.x - 1 \in Int /\ ib.x + 1 \in Int
      BY <2>2 DEF Whole
    <3> QED
      BY <1>0, <2>1, <2>4, <2>5, <3>1 DEF Fields
  <2>7. i.show = i.pos - i.x /\ i.x \in 0..i.w - 1 /\ i.x <= i.pos /\ i.w >= 2
    <3>1. s.x \in Int /\ ib.pos \in Int /\ ib.w \in Int /\ ib.w >= 2
      BY <2>2, FieldParts DEF Whole
    <3> QED
      BY <2>4, <2>6, <3>1
  <2>8. Size(ib.text) - ib.show <= Size(i.text) - i.show + 1
    <3>1. Size(ib.text) \in Int /\ ib.show \in Int
      BY <2>2 DEF Whole
    <3> QED
      BY <2>3, <2>4, <2>6, <3>1
  <2>9. Held(i)
    BY <2>3, <2>6, <2>7 DEF Held
  <2>10. Reprint(i) \in Fields /\ Edited(Reprint(i))
    <3>1. ib.text \in Lines /\ ib.show \in Int
      BY <2>2 DEF Whole
    <3> QED
      BY <2>2, <2>6, <2>7, <2>8, <2>9, <3>1, ReprintShows
  <2>11. ib' = Reprint(i)
    BY <1>2, <2>3, <2>4, <2>5 DEF Backspace
  <2> QED
    BY <2>10, <2>11 DEF InputInv
<1>3. CASE KeyLeft
  <2>1. ib.open = "mconf" /\ ib.pos > 0
    BY <1>3 DEF KeyLeft, InField, Size
  <2>2. Whole(ib) /\ ib.screen = Window(ib.text, ib.show, ib.w) /\ (ib.open = "nconf" => Size(ib.text) < ib.cap)
    BY <1>0, <2>1, EditedIsWhole
  <2>3. PICK left \in Lines, right \in Lines :
           /\ left = Front(ib.left) /\ right = <<Last(ib.left)>> \o ib.right
           /\ ib.text = left \o right /\ Size(left) = ib.pos - 1
    BY <2>1, <2>2, WentLeft
  <2>4. PICK s \in Fields :
           /\ s = StepLeft(ib) /\ s.open = ib.open /\ s.text = ib.text /\ s.w = ib.w /\ s.screen = ib.screen
           /\ s.left = ib.left /\ s.right = ib.right /\ s.x \in 0..s.w - 1 /\ s.x <= ib.pos - 1
           /\ s.show = ib.pos - 1 - s.x /\ s.show \in {ib.show, ib.show - 1}
           /\ (ib.x # 0 => s.show = ib.show)
    BY <1>0, <2>1, StepLeftHolds
  <2>5. PICK i : i = [s EXCEPT !.left = left, !.right = right, !.pos = ib.pos - 1]
    OBVIOUS
  <2>6. /\ i \in Fields /\ i.text = ib.text /\ i.left = left /\ i.right = right /\ i.pos = ib.pos - 1 /\ i.x = s.x
        /\ i.show = s.show /\ i.screen = ib.screen /\ i.w = ib.w /\ i.open = "mconf"
    <3>1. ib.pos - 1 \in Int /\ ib.pos + 1 \in Int /\ ib.x - 1 \in Int /\ ib.x + 1 \in Int
      BY <2>2 DEF Whole
    <3> QED
      BY <1>0, <2>1, <2>4, <2>5, <3>1 DEF Fields
  <2>7. i.show = i.pos - i.x /\ i.x \in 0..i.w - 1 /\ i.x <= i.pos /\ i.w >= 2
    <3>1. s.x \in Int /\ ib.pos \in Int /\ ib.w \in Int /\ ib.w >= 2
      BY <2>2, FieldParts DEF Whole
    <3> QED
      BY <2>4, <2>6, <3>1
  <2>8. Size(ib.text) - ib.show <= Size(i.text) - i.show + 1
    <3>1. Size(ib.text) \in Int /\ ib.show \in Int
      BY <2>2 DEF Whole
    <3> QED
      BY <2>3, <2>4, <2>6, <3>1
  <2>9. Held(i)
    BY <2>3, <2>6, <2>7 DEF Held
  <2>10. Reprint(i) \in Fields /\ Edited(Reprint(i))
    <3>1. ib.text \in Lines /\ ib.show \in Int
      BY <2>2 DEF Whole
    <3> QED
      BY <2>2, <2>6, <2>7, <2>8, <2>9, <3>1, ReprintShows
  <2>11. ib' = IF ib.x = 0 THEN Reprint(i) ELSE i
    BY <1>3, <2>3, <2>4, <2>5 DEF KeyLeft
  <2>12. ib.x # 0 => Edited(i)
    BY <2>2, <2>4, <2>6, <2>7, <2>9 DEF Edited
  <2> QED
    BY <2>6, <2>10, <2>11, <2>12 DEF InputInv
<1>4. CASE KeyRight
  <2>1. ib.open = "mconf" /\ ib.pos < Size(ib.text)
    BY <1>4 DEF KeyRight, InField, Size
  <2>2. Whole(ib) /\ ib.screen = Window(ib.text, ib.show, ib.w) /\ (ib.open = "nconf" => Size(ib.text) < ib.cap)
    BY <1>0, <2>1, EditedIsWhole
  <2>3. PICK left \in Lines, right \in Lines :
           /\ left = Append(ib.left, Head(ib.right)) /\ right = Tail(ib.right)
           /\ ib.text = left \o right /\ Size(left) = ib.pos + 1
    BY <2>1, <2>2, WentRight
  <2>4. PICK s \in Fields :
           /\ s = StepRight(ib) /\ s.open = ib.open /\ s.text = ib.text /\ s.w = ib.w /\ s.screen = ib.screen
           /\ s.left = ib.left /\ s.right = ib.right /\ s.x \in 0..s.w - 1 /\ s.x <= ib.pos + 1
           /\ s.show = ib.pos + 1 - s.x /\ s.show \in {ib.show, ib.show + 1}
           /\ (ib.x # ib.w - 1 => s.show = ib.show)
    BY <1>0, <2>1, StepRightHolds
  <2>5. PICK i : i = [s EXCEPT !.left = left, !.right = right, !.pos = ib.pos + 1]
    OBVIOUS
  <2>6. /\ i \in Fields /\ i.text = ib.text /\ i.left = left /\ i.right = right /\ i.pos = ib.pos + 1 /\ i.x = s.x
        /\ i.show = s.show /\ i.screen = ib.screen /\ i.w = ib.w /\ i.open = "mconf"
    <3>1. ib.pos - 1 \in Int /\ ib.pos + 1 \in Int /\ ib.x - 1 \in Int /\ ib.x + 1 \in Int
      BY <2>2 DEF Whole
    <3> QED
      BY <1>0, <2>1, <2>4, <2>5, <3>1 DEF Fields
  <2>7. i.show = i.pos - i.x /\ i.x \in 0..i.w - 1 /\ i.x <= i.pos /\ i.w >= 2
    <3>1. s.x \in Int /\ ib.pos \in Int /\ ib.w \in Int /\ ib.w >= 2
      BY <2>2, FieldParts DEF Whole
    <3>2. PICK x \in Int, pos \in Int, w \in Int : x = s.x /\ pos = ib.pos /\ w = ib.w /\ w >= 2
      BY <3>1
    <3>3. s.show = pos + 1 - x /\ x \in 0..w - 1 /\ x <= pos + 1
      BY <2>4, <3>2
    <3>4. i.show = s.show /\ i.pos = pos + 1 /\ i.x = x /\ i.w = w
      BY <2>6, <3>2
    <3>5. i.show = i.pos - i.x
      <4>1. PICK due \in Int, show \in Int : due = pos + 1 /\ show = due - x
        BY <3>2
      <4>2. i.pos = due /\ i.show = show /\ i.x = x
        BY <3>3, <3>4, <4>1
      <4> QED
        BY <4>1, <4>2
    <3>6. i.x \in 0..i.w - 1 /\ i.x <= i.pos /\ i.w >= 2
      BY <3>2, <3>3, <3>4
    <3> QED
      BY <3>5, <3>6
  <2>8. Size(ib.text) - ib.show <= Size(i.text) - i.show + 1
    <3>1. Size(ib.text) \in Int /\ ib.show \in Int
      BY <2>2 DEF Whole
    <3> QED
      BY <2>3, <2>4, <2>6, <3>1
  <2>9. Held(i)
    BY <2>3, <2>6, <2>7 DEF Held
  <2>10. Reprint(i) \in Fields /\ Edited(Reprint(i))
    <3>1. ib.text \in Lines /\ ib.show \in Int
      BY <2>2 DEF Whole
    <3> QED
      BY <2>2, <2>6, <2>7, <2>8, <2>9, <3>1, ReprintShows
  <2>11. ib' = IF ib.x = ib.w - 1 THEN Reprint(i) ELSE i
    BY <1>4, <2>3, <2>4, <2>5 DEF KeyRight
  <2>12. ib.x # ib.w - 1 => Edited(i)
    BY <2>2, <2>4, <2>6, <2>7, <2>9 DEF Edited
  <2> QED
    BY <2>6, <2>10, <2>11, <2>12 DEF InputInv
<1>5. CASE TypeKey
  <2>1. ib.open = "mconf"
    BY <1>5 DEF TypeKey, InField, Size
  <2>2. Whole(ib) /\ ib.screen = Window(ib.text, ib.show, ib.w) /\ (ib.open = "nconf" => Size(ib.text) < ib.cap)
    BY <1>0, <2>1, EditedIsWhole
  <2>c. PICK c \in Chars :
           ib' = Reprint([StepRight(ib) EXCEPT !.text = InsertAt(ib.text, ib.pos + 1, c), !.pos = ib.pos + 1,
                                               !.left = Append(ib.left, c)])
    BY <1>5 DEF TypeKey
  <2>3. PICK text \in Lines, left \in Lines :
           /\ text = InsertAt(ib.text, ib.pos + 1, c) /\ left = Append(ib.left, c)
           /\ text = left \o ib.right /\ Size(left) = ib.pos + 1 /\ Size(text) = Size(ib.text) + 1
    BY <2>1, <2>2, Typed
  <2>4. PICK s \in Fields :
           /\ s = StepRight(ib) /\ s.open = ib.open /\ s.text = ib.text /\ s.w = ib.w /\ s.screen = ib.screen
           /\ s.left = ib.left /\ s.right = ib.right /\ s.x \in 0..s.w - 1 /\ s.x <= ib.pos + 1
           /\ s.show = ib.pos + 1 - s.x /\ s.show \in {ib.show, ib.show + 1}
           /\ (ib.x # ib.w - 1 => s.show = ib.show)
    BY <1>0, <2>1, StepRightHolds
  <2>5. PICK i : i = [s EXCEPT !.text = text, !.left = left, !.pos = ib.pos + 1]
    OBVIOUS
  <2>6. /\ i \in Fields /\ i.text = text /\ i.left = left /\ i.right = ib.right /\ i.pos = ib.pos + 1 /\ i.x = s.x
        /\ i.show = s.show /\ i.screen = ib.screen /\ i.w = ib.w /\ i.open = "mconf"
    <3>1. ib.pos - 1 \in Int /\ ib.pos + 1 \in Int /\ ib.x - 1 \in Int /\ ib.x + 1 \in Int
      BY <2>2 DEF Whole
    <3> QED
      BY <1>0, <2>1, <2>4, <2>5, <3>1 DEF Fields
  <2>7. i.show = i.pos - i.x /\ i.x \in 0..i.w - 1 /\ i.x <= i.pos /\ i.w >= 2
    <3>1. s.x \in Int /\ ib.pos \in Int /\ ib.w \in Int /\ ib.w >= 2
      BY <2>2, FieldParts DEF Whole
    <3>2. PICK x \in Int, pos \in Int, w \in Int : x = s.x /\ pos = ib.pos /\ w = ib.w /\ w >= 2
      BY <3>1
    <3>3. s.show = pos + 1 - x /\ x \in 0..w - 1 /\ x <= pos + 1
      BY <2>4, <3>2
    <3>4. i.show = s.show /\ i.pos = pos + 1 /\ i.x = x /\ i.w = w
      BY <2>6, <3>2
    <3>5. i.show = i.pos - i.x
      <4>1. PICK due \in Int, show \in Int : due = pos + 1 /\ show = due - x
        BY <3>2
      <4>2. i.pos = due /\ i.show = show /\ i.x = x
        BY <3>3, <3>4, <4>1
      <4> QED
        BY <4>1, <4>2
    <3>6. i.x \in 0..i.w - 1 /\ i.x <= i.pos /\ i.w >= 2
      BY <3>2, <3>3, <3>4
    <3> QED
      BY <3>5, <3>6
  <2>8. Size(ib.text) - ib.show <= Size(i.text) - i.show + 1
    <3>1. Size(ib.text) \in Int /\ ib.show \in Int
      BY <2>2 DEF Whole
    <3>2. Size(i.text) = Size(ib.text) + 1
      BY <2>3, <2>6
    <3>3. i.show \in {ib.show, ib.show + 1}
      BY <2>4, <2>6
    <3> QED
      BY <3>1, <3>2, <3>3
  <2>9. Held(i)
    BY <2>3, <2>6, <2>7 DEF Held
  <2>10. Reprint(i) \in Fields /\ Edited(Reprint(i))
    <3>1. ib.text \in Lines /\ ib.show \in Int
      BY <2>2 DEF Whole
    <3> QED
      BY <2>2, <2>6, <2>7, <2>8, <2>9, <3>1, ReprintShows
  <2>11. ib' = Reprint(i)
    BY <2>c, <2>3, <2>4, <2>5
  <2> QED
    BY <2>10, <2>11 DEF InputInv
<1>6. CASE InputButton
  <2>1. PICK b \in -1..1 : ib' = [ib EXCEPT !.button = b]
    BY <1>6 DEF InputButton
  <2>2. /\ ib' \in Fields /\ ib'.open = ib.open /\ ib'.text = ib.text /\ ib'.pos = ib.pos
        /\ ib'.show = ib.show /\ ib'.x = ib.x /\ ib'.w = ib.w /\ ib'.screen = ib.screen
        /\ ib'.cap = ib.cap /\ ib'.left = ib.left /\ ib'.right = ib.right
    BY <1>0, <2>1 DEF Fields
  <2> QED
    BY <1>0, <2>2 DEF InputInv, Edited, Held
<1>7. CASE InputResize
  <2>1. PICK w \in FieldWidths : ib' = DrawInput([ib EXCEPT !.w = w])
    BY <1>7 DEF InputResize
  <2>2. PICK i : i = [ib EXCEPT !.w = w]
    OBVIOUS
  <2>3. i \in Fields /\ i.w >= 2 /\ i.open # "nconf"
    BY <1>0, <1>7, <2>2 DEF Fields, InputResize
  <2> QED
    BY <2>1, <2>2, <2>3, DrawShows DEF InputInv
<1>8. CASE InputClose
  <2>1. ib' = NoField(ib.cap)
    BY <1>8 DEF InputClose
  <2>2. ib' \in Fields /\ ib'.open = "no"
    BY <1>0, <2>1, NoFieldIsField
  <2> QED
    BY <2>2 DEF InputInv
<1>9. CASE OpenEntry
  <2>1. PICK text \in Offered, w \in FieldWidths :
           ib' = Refresh([NoField(Max({ib.cap, Size(text) + 1})) EXCEPT
                             !.open = "nconf", !.text = text, !.w = w, !.pos = Size(text),
                             !.x = Min({Size(text), w - 1}), !.left = text])
    BY <1>9 DEF OpenEntry, Size
  <2>2. text \in Lines /\ w \in Nat /\ w >= 2 /\ Size(text) \in Nat /\ text \o <<>> = text
    BY Joined DEF Lines
  <2>3. PICK cap \in Nat : cap = Max({ib.cap, Size(text) + 1}) /\ cap > Size(text)
    BY <1>0, <2>2, MaxOfTwo
  <2>4. PICK x \in 0..w - 1 : x = Min({Size(text), w - 1}) /\ x <= Size(text)
    BY <2>2, MinOfTwo
  <2>5. PICK e \in Fields : e = NoField(cap) /\ e.cap = cap /\ e.right = <<>>
    BY NoFieldIsField
  <2>6. PICK i : i = [e EXCEPT !.open = "nconf", !.text = text, !.w = w, !.pos = Size(text), !.x = x,
                               !.left = text]
    OBVIOUS
  <2>7. /\ i \in Fields /\ i.text = text /\ i.w = w /\ i.pos = Size(text) /\ i.x = x /\ i.left = text
        /\ i.right = e.right /\ i.cap = cap
    <3>1. x \in Int /\ Size(text) \in Int
      BY <2>2
    <3> QED
      BY <2>2, <2>5, <2>6, <3>1 DEF Fields
  <2>8. Held(i)
    BY <2>2, <2>3, <2>4, <2>5, <2>7 DEF Held
  <2>9. ib' = Refresh(i)
    BY <2>1, <2>3, <2>4, <2>5, <2>6
  <2> QED
    BY <2>7, <2>8, <2>9, RefreshShows DEF InputInv
<1>10. CASE EntryBackspace
  <2>1. ib.open = "nconf" /\ ib.pos > 0
    BY <1>10 DEF EntryBackspace, InEntry, Size
  <2>2. Whole(ib) /\ ib.screen = Window(ib.text, ib.show, ib.w) /\ (ib.open = "nconf" => Size(ib.text) < ib.cap)
    BY <1>0, <2>1, EditedIsWhole
  <2>3. PICK text \in Lines, left \in Lines :
           /\ text = RemoveAt(ib.text, ib.pos) /\ left = Front(ib.left)
           /\ text = left \o ib.right /\ Size(left) = ib.pos - 1 /\ Size(text) = Size(ib.text) - 1
    BY <2>1, <2>2, Rubbed
  <2>5. PICK i : i = [ib EXCEPT !.text = text, !.left = left, !.pos = ib.pos - 1, !.x = ib.x - 1]
    OBVIOUS
  <2>6. /\ i \in Fields /\ i.text = text /\ i.left = left /\ i.right = ib.right /\ i.pos = ib.pos - 1
        /\ i.x = ib.x - 1 /\ i.cap = ib.cap /\ i.w = ib.w /\ i.open = "nconf"
    <3>1. ib.pos - 1 \in Int /\ ib.pos + 1 \in Int /\ ib.x - 1 \in Int /\ ib.x + 1 \in Int
      BY <2>2 DEF Whole
    <3> QED
      BY <1>0, <2>1, <2>5, <3>1 DEF Fields
  <2>7. Size(i.text) < i.cap
    <3>1. Size(ib.text) \in Int /\ ib.cap \in Int
      BY <2>2 DEF Whole
    <3>2. Size(ib.text) < ib.cap
      BY <2>1, <2>2
    <3>3. Size(i.text) = Size(ib.text) - 1
      BY <2>3, <2>6
    <3> QED
      BY <2>6, <3>1, <3>2, <3>3
  <2>8. i.w >= 2 /\ i.x <= i.pos
    BY <2>2, <2>6 DEF Whole
  <2>9. Within(i) \in Fields /\ Held(Within(i))
    BY <2>3, <2>6, <2>7, <2>8, WithinHolds
  <2>10. ib' = Refresh(Within(i))
    BY <1>10, <2>3, <2>5 DEF EntryBackspace
  <2> QED
    BY <2>6, <2>9, <2>10, RefreshShows DEF InputInv
<1>11. CASE EntryDelete
  <2>1. ib.open = "nconf" /\ ib.pos < Size(ib.text)
    BY <1>11 DEF EntryDelete, InEntry, Size
  <2>2. Whole(ib) /\ ib.screen = Window(ib.text, ib.show, ib.w) /\ (ib.open = "nconf" => Size(ib.text) < ib.cap)
    BY <1>0, <2>1, EditedIsWhole
  <2>3. PICK text \in Lines, right \in Lines :
           /\ text = RemoveAt(ib.text, ib.pos + 1) /\ right = Tail(ib.right)
           /\ text = ib.left \o right /\ Size(text) = Size(ib.text) - 1
    BY <2>1, <2>2, Deleted
  <2>5. PICK i : i = [ib EXCEPT !.text = text, !.right = right]
    OBVIOUS
  <2>6. /\ i \in Fields /\ i.text = text /\ i.left = ib.left /\ i.right = right /\ i.pos = ib.pos
        /\ i.x = ib.x /\ i.cap = ib.cap /\ i.w = ib.w /\ i.open = "nconf"
    <3>1. ib.pos - 1 \in Int /\ ib.pos + 1 \in Int /\ ib.x - 1 \in Int /\ ib.x + 1 \in Int
      BY <2>2 DEF Whole
    <3> QED
      BY <1>0, <2>1, <2>5, <3>1 DEF Fields
  <2>7. Size(i.text) < i.cap
    <3>1. Size(ib.text) \in Int /\ ib.cap \in Int
      BY <2>2 DEF Whole
    <3>2. Size(ib.text) < ib.cap
      BY <2>1, <2>2
    <3>3. Size(i.text) = Size(ib.text) - 1
      BY <2>3, <2>6
    <3> QED
      BY <2>6, <3>1, <3>2, <3>3
  <2>8. i.w >= 2 /\ i.x <= i.pos /\ i.x \in 0..i.w - 1
    BY <2>2, <2>6 DEF Whole
  <2>9. Held(i)
    <3>1. i.pos = Size(i.left)
      BY <2>2, <2>6 DEF Whole
    <3> QED
      BY <2>3, <2>6, <2>7, <2>8, <3>1 DEF Held
  <2>10. ib' = Refresh(i)
    BY <1>11, <2>3, <2>5 DEF EntryDelete
  <2> QED
    BY <2>6, <2>9, <2>10, RefreshShows DEF InputInv
<1>12. CASE EntryLeft
  <2>1. ib.open = "nconf" /\ ib.pos > 0
    BY <1>12 DEF EntryLeft, InEntry, Size
  <2>2. Whole(ib) /\ ib.screen = Window(ib.text, ib.show, ib.w) /\ (ib.open = "nconf" => Size(ib.text) < ib.cap)
    BY <1>0, <2>1, EditedIsWhole
  <2>3. PICK left \in Lines, right \in Lines :
           /\ left = Front(ib.left) /\ right = <<Last(ib.left)>> \o ib.right
           /\ ib.text = left \o right /\ Size(left) = ib.pos - 1
    BY <2>1, <2>2, WentLeft
  <2>5. PICK i : i = [ib EXCEPT !.left = left, !.right = right, !.pos = ib.pos - 1, !.x = ib.x - 1]
    OBVIOUS
  <2>6. /\ i \in Fields /\ i.text = ib.text /\ i.left = left /\ i.right = right /\ i.pos = ib.pos - 1
        /\ i.x = ib.x - 1 /\ i.cap = ib.cap /\ i.w = ib.w /\ i.open = "nconf"
    <3>1. ib.pos - 1 \in Int /\ ib.pos + 1 \in Int /\ ib.x - 1 \in Int /\ ib.x + 1 \in Int
      BY <2>2 DEF Whole
    <3> QED
      BY <1>0, <2>1, <2>5, <3>1 DEF Fields
  <2>7. Size(i.text) < i.cap
    <3>1. Size(ib.text) \in Int /\ ib.cap \in Int
      BY <2>2 DEF Whole
    <3>2. Size(ib.text) < ib.cap
      BY <2>1, <2>2
    <3>3. Size(i.text) = Size(ib.text)
      BY <2>3, <2>6
    <3> QED
      BY <2>6, <3>1, <3>2, <3>3
  <2>8. i.w >= 2 /\ i.x <= i.pos
    BY <2>2, <2>6 DEF Whole
  <2>9. Within(i) \in Fields /\ Held(Within(i))
    BY <2>3, <2>6, <2>7, <2>8, WithinHolds
  <2>10. ib' = Refresh(Within(i))
    BY <1>12, <2>3, <2>5 DEF EntryLeft
  <2> QED
    BY <2>6, <2>9, <2>10, RefreshShows DEF InputInv
<1>13. CASE EntryRight
  <2>1. ib.open = "nconf" /\ ib.pos < Size(ib.text)
    BY <1>13 DEF EntryRight, InEntry, Size
  <2>2. Whole(ib) /\ ib.screen = Window(ib.text, ib.show, ib.w) /\ (ib.open = "nconf" => Size(ib.text) < ib.cap)
    BY <1>0, <2>1, EditedIsWhole
  <2>3. PICK left \in Lines, right \in Lines :
           /\ left = Append(ib.left, Head(ib.right)) /\ right = Tail(ib.right)
           /\ ib.text = left \o right /\ Size(left) = ib.pos + 1
    BY <2>1, <2>2, WentRight
  <2>5. PICK i : i = [ib EXCEPT !.left = left, !.right = right, !.pos = ib.pos + 1, !.x = ib.x + 1]
    OBVIOUS
  <2>6. /\ i \in Fields /\ i.text = ib.text /\ i.left = left /\ i.right = right /\ i.pos = ib.pos + 1
        /\ i.x = ib.x + 1 /\ i.cap = ib.cap /\ i.w = ib.w /\ i.open = "nconf"
    <3>1. ib.pos - 1 \in Int /\ ib.pos + 1 \in Int /\ ib.x - 1 \in Int /\ ib.x + 1 \in Int
      BY <2>2 DEF Whole
    <3> QED
      BY <1>0, <2>1, <2>5, <3>1 DEF Fields
  <2>7. Size(i.text) < i.cap
    <3>1. Size(ib.text) \in Int /\ ib.cap \in Int
      BY <2>2 DEF Whole
    <3>2. Size(ib.text) < ib.cap
      BY <2>1, <2>2
    <3>3. Size(i.text) = Size(ib.text)
      BY <2>3, <2>6
    <3> QED
      BY <2>6, <3>1, <3>2, <3>3
  <2>8. i.w >= 2 /\ i.x <= i.pos
    BY <2>2, <2>6 DEF Whole
  <2>9. Within(i) \in Fields /\ Held(Within(i))
    BY <2>3, <2>6, <2>7, <2>8, WithinHolds
  <2>10. ib' = Refresh(Within(i))
    BY <1>13, <2>3, <2>5 DEF EntryRight
  <2> QED
    BY <2>6, <2>9, <2>10, RefreshShows DEF InputInv
<1>14. CASE EntryHome
  <2>1. ib.open = "nconf"
    BY <1>14 DEF EntryHome, InEntry
  <2>2. Whole(ib) /\ Size(ib.text) < ib.cap
    BY <1>0, <2>1, EditedIsWhole
  <2>3. ib.text \in Lines /\ ib.w \in Nat /\ ib.w >= 2 /\ ib.text = ib.left \o ib.right
    BY <2>2 DEF Whole
  <2>4. PICK empty \in Lines : empty = <<>> /\ Size(empty) = 0 /\ empty \o ib.text = ib.text
    BY <2>3, Joined
  <2>5. PICK i : i = [ib EXCEPT !.pos = 0, !.x = 0, !.left = empty, !.right = ib.text]
    OBVIOUS
  <2>6. /\ i \in Fields /\ i.text = ib.text /\ i.left = empty /\ i.right = ib.text
        /\ i.pos = 0 /\ i.x = 0 /\ i.w = ib.w /\ i.cap = ib.cap /\ i.open = "nconf"
    <3>1. PICK zero \in Int : zero = 0
      OBVIOUS
    <3>2. i = [ib EXCEPT !.pos = zero, !.x = zero, !.left = empty, !.right = ib.text]
      BY <2>5, <3>1
    <3> QED
      BY <1>0, <2>1, <2>3, <3>1, <3>2 DEF Fields
  <2>7. Held(i)
    <3>1. 0 \in 0..ib.w - 1
      BY <2>3
    <3> QED
      BY <2>2, <2>3, <2>4, <2>6, <3>1 DEF Held
  <2>8. ib' = Refresh(i)
    BY <1>14, <2>3, <2>4, <2>5 DEF EntryHome
  <2> QED
    BY <2>6, <2>7, <2>8, RefreshShows DEF InputInv
<1>15. CASE EntryEnd
  <2>1. ib.open = "nconf"
    BY <1>15 DEF EntryEnd, InEntry
  <2>2. Whole(ib) /\ Size(ib.text) < ib.cap
    BY <1>0, <2>1, EditedIsWhole
  <2>3. /\ ib.text \in Lines /\ ib.w \in Nat /\ ib.w >= 2 /\ ib.text = ib.left \o ib.right
        /\ Size(ib.text) \in Nat
    BY <2>2 DEF Whole
  <2>4. PICK empty \in Lines : empty = <<>> /\ ib.text \o empty = ib.text
    BY <2>3, Joined
  <2>5. PICK x \in Int : x = Min({Size(ib.text), ib.w - 1}) /\ x \in 0..ib.w - 1 /\ x <= Size(ib.text)
    <3>1. Size(ib.text) \in Int /\ ib.w - 1 \in Int
      BY <2>3
    <3> QED
      BY <2>3, <3>1, MinOfTwo
  <2>6. PICK i : i = [ib EXCEPT !.pos = Size(ib.text), !.x = x, !.left = ib.text, !.right = empty]
    OBVIOUS
  <2>7. /\ i \in Fields /\ i.text = ib.text /\ i.left = ib.text /\ i.right = empty
        /\ i.pos = Size(ib.text) /\ i.x = x /\ i.w = ib.w /\ i.cap = ib.cap /\ i.open = "nconf"
    <3>1. Size(ib.text) \in Int
      BY <2>3
    <3> QED
      BY <1>0, <2>1, <2>3, <2>6, <3>1 DEF Fields
  <2>8. Held(i)
    BY <2>2, <2>3, <2>4, <2>5, <2>7 DEF Held
  <2>9. ib' = Refresh(i)
    BY <1>15, <2>3, <2>4, <2>5, <2>6 DEF EntryEnd, Size
  <2> QED
    BY <2>7, <2>8, <2>9, RefreshShows DEF InputInv
<1>16. CASE EntryType
  <2>1. ib.open = "nconf"
    BY <1>16 DEF EntryType, InEntry, Size
  <2>2. Whole(ib) /\ ib.screen = Window(ib.text, ib.show, ib.w) /\ (ib.open = "nconf" => Size(ib.text) < ib.cap)
    BY <1>0, <2>1, EditedIsWhole
  <2>c. PICK c \in Chars :
           ib' = Refresh(Within([ib EXCEPT !.cap = Max({ib.cap, Size(ib.text) + 2}), !.pos = ib.pos + 1,
                                           !.x = ib.x + 1, !.text = InsertAt(ib.text, ib.pos + 1, c),
                                           !.left = Append(ib.left, c)]))
    BY <1>16 DEF EntryType, Size
  <2>m. PICK cap \in Nat : cap = Max({ib.cap, Size(ib.text) + 2}) /\ cap >= Size(ib.text) + 2
    <3>1. ib.cap \in Int /\ Size(ib.text) + 2 \in Int /\ ib.cap \in Nat /\ Size(ib.text) + 2 \in Nat
      BY <2>2 DEF Whole
    <3> QED
      BY <3>1, MaxOfTwo
  <2>3. PICK text \in Lines, left \in Lines :
           /\ text = InsertAt(ib.text, ib.pos + 1, c) /\ left = Append(ib.left, c)
           /\ text = left \o ib.right /\ Size(left) = ib.pos + 1 /\ Size(text) = Size(ib.text) + 1
    BY <2>1, <2>2, Typed
  <2>5. PICK i : i = [ib EXCEPT !.text = text, !.left = left, !.pos = ib.pos + 1, !.x = ib.x + 1, !.cap = cap]
    OBVIOUS
  <2>6. /\ i \in Fields /\ i.text = text /\ i.left = left /\ i.right = ib.right /\ i.pos = ib.pos + 1
        /\ i.x = ib.x + 1 /\ i.cap = cap /\ i.w = ib.w /\ i.open = "nconf"
    <3>1. ib.pos - 1 \in Int /\ ib.pos + 1 \in Int /\ ib.x - 1 \in Int /\ ib.x + 1 \in Int
      BY <2>2 DEF Whole
    <3> QED
      BY <1>0, <2>1, <2>5, <3>1 DEF Fields
  <2>7. Size(i.text) < i.cap
    <3>1. Size(ib.text) \in Int /\ ib.cap \in Int
      BY <2>2 DEF Whole
    <3>2. Size(ib.text) < ib.cap
      BY <2>1, <2>2
    <3>3. Size(i.text) = Size(ib.text) + 1
      BY <2>3, <2>6
    <3> QED
      BY <2>6, <3>1, <3>2, <3>3, <2>m
  <2>8. i.w >= 2 /\ i.x <= i.pos
    BY <2>2, <2>6 DEF Whole
  <2>9. Within(i) \in Fields /\ Held(Within(i))
    BY <2>3, <2>6, <2>7, <2>8, WithinHolds
  <2>10. ib' = Refresh(Within(i))
    BY <2>c, <2>m, <2>3, <2>5
  <2> QED
    BY <2>6, <2>9, <2>10, RefreshShows DEF InputInv
<1>17. CASE UNCHANGED ib
  BY <1>17 DEF InputInv
<1> QED
  BY <1>1, <1>2, <1>3, <1>4, <1>5, <1>6, <1>7, <1>8, <1>9, <1>10, <1>11, <1>12, <1>13, <1>14, <1>15, <1>16,
     <1>17 DEF InputNext

-----------------------------------------------------------------------------
(* The theorem *)

\* Whatever is typed, erased or passed over in whatever order, and whatever
\* width the terminal leaves to the field: what Enter returns is the line typed,
\* the next key acts where the cursor blinks, the field shows the line around
\* it, and nconf's buffer holds it.
THEOREM LineIsRight == InputSpec => []EditsLikeALine
<1>1. InputInv => EditsLikeALine
  <2>1. ASSUME InputInv, ib.open # "no"
        PROVE  /\ ib.text = ib.left \o ib.right /\ ib.pos = Size(ib.left)
               /\ ib.x \in 0..ib.w - 1 /\ ib.show >= 0 /\ ib.show + ib.x = ib.pos
               /\ ib.screen = Window(ib.left \o ib.right, ib.show, ib.w)
               /\ ib.open = "nconf" => Size(ib.text) < ib.cap
    <3>1. Whole(ib) /\ ib.screen = Window(ib.text, ib.show, ib.w) /\ (ib.open = "nconf" => Size(ib.text) < ib.cap)
      BY <2>1, EditedIsWhole DEF InputInv
    <3>2. ib.text = ib.left \o ib.right /\ ib.pos = Size(ib.left)
      BY <3>1 DEF Whole
    <3>3. ib.x \in 0..ib.w - 1 /\ ib.show >= 0 /\ ib.show + ib.x = ib.pos
      BY <3>1 DEF Whole
    <3>4. ib.screen = Window(ib.left \o ib.right, ib.show, ib.w)
      BY <3>1, <3>2, Zenon
    <3> QED
      BY <3>1, <3>2, <3>3, <3>4
  <2> QED
    BY <2>1 DEF EditsLikeALine, Size
<1> QED
  BY <1>1, InputStarts, InputInductive, PTL DEF InputSpec

=============================================================================
