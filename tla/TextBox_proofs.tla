----------------------------- MODULE TextBox_proofs -----------------------------
(***************************************************************************)
(* The windows that show a text, for every text and every height: the      *)
(* pointer that walks through the characters is where the lines counted    *)
(* say, and a key of a search leads to the result it is written at.        *)
(***************************************************************************)
EXTENDS TextBox, TLAPS, FiniteSetTheorems, WellFoundedInduction

\* The length of a text, under a name that is not the provers' own.
Size(text) == Len(text)

-----------------------------------------------------------------------------
(* Numbers *)

LEMMA MinOfTwo == ASSUME NEW a \in Int, NEW b \in Int PROVE Min({a, b}) = IF a <= b THEN a ELSE b
  BY DEF Min

LEMMA MaxOfTwo == ASSUME NEW a \in Int, NEW b \in Int PROVE Max({a, b}) = IF a >= b THEN a ELSE b
  BY DEF Max

\* What does not hold of every natural number has a first one it fails for.
LEMMA LeastNumber ==
    ASSUME NEW T, T \subseteq Nat, T # {}
    PROVE  \E x \in T : \A y \in T : x <= y
<1> DEFINE R == {ss \in Nat \X Nat : ss[1] < ss[2]}
<1>1. IsWellFoundedOn(R, Nat)
  BY NatLessThanWellFounded DEF OpToRel
<1> HIDE DEF R
<1>2. PICK x \in T : \A y \in T : ~(<<y, x>> \in R)
  BY <1>1, WFMin
<1>3. \A y \in T : ~(y < x)
  BY <1>2 DEF R
<1> QED
  BY <1>3

LEMMA Division == ASSUME NEW k \in Nat \ {0}, NEW a \in Nat PROVE a = k * (a \div k) + (a % k) /\ a % k \in Nat
  OBVIOUS

\* Numbers with the same remainder are that far apart at least.
LEMMA SameRemainder ==
    ASSUME NEW k \in Nat \ {0}, NEW a \in Nat, NEW b \in Nat, a < b, a % k = b % k
    PROVE  b - a >= k
<1>1. PICK p \in Int : a = k * p + (a % k)
  <2>1. a \div k \in Int
    OBVIOUS
  <2> QED
    BY <2>1, Division
<1>2. PICK q \in Int : b = k * q + (b % k)
  <2>1. b \div k \in Int
    OBVIOUS
  <2> QED
    BY <2>1, Division
<1>3. PICK r \in Int : r = a % k
  OBVIOUS
<1>4. a = k * p + r /\ b = k * q + r
  BY <1>1, <1>2, <1>3
<1>5. q > p
  BY <1>4
<1>6. PICK d \in Nat : d >= 1 /\ q = p + d
  BY <1>5
<1>7. b - a = k * d
  BY <1>4, <1>6
<1> QED
  BY <1>6, <1>7

LEMMA Upwards ==
    ASSUME NEW n \in Nat, NEW T, 0 \in T, \A k \in 1..n : k - 1 \in T => k \in T
    PROVE  0..n \subseteq T
<1> SUFFICES ASSUME (0..n) \ T # {} PROVE FALSE
  OBVIOUS
<1>1. PICK k \in (0..n) \ T : \A y \in (0..n) \ T : k <= y
  <2> DEFINE U == (0..n) \ T
  <2>1. U \subseteq Nat
    OBVIOUS
  <2>2. U # {}
    OBVIOUS
  <2> HIDE DEF U
  <2>3. \E k \in U : \A y \in U : k <= y
    BY <2>1, <2>2, LeastNumber
  <2> QED
    BY <2>3 DEF U
<1>2. k \in 1..n /\ k - 1 \in 0..n /\ ~(k <= k - 1)
  BY <1>1
<1>3. k - 1 \in T
  BY <1>1, <1>2
<1> QED
  BY <1>1, <1>2, <1>3

\* A recursive function of whatever length exists.
Maps(F, S) == F \in [S -> S]
Runs(f, F, S, m, n) == f \in [0..n -> S] /\ f[0] = m /\ \A k \in 1..n : f[k] = F[f[k - 1]]
LEMMA LoopExists ==
    ASSUME NEW S, NEW F, Maps(F, S), NEW m \in S, NEW n \in Nat
    PROVE  \E f : Runs(f, F, S, m, n)
<1> DEFINE T == {k \in Nat : \E f : Runs(f, F, S, m, k)}
<1>1. 0 \in T
  <2>1. PICK f : f = [k \in 0..0 |-> m]
    OBVIOUS
  <2>2. f \in [0..0 -> S] /\ f[0] = m /\ 1..0 = {}
    BY <2>1
  <2> QED
    BY <2>2 DEF Runs
<1>2. \A k \in 1..n : k - 1 \in T => k \in T
  <2> SUFFICES ASSUME NEW k \in 1..n, k - 1 \in T PROVE \E f : Runs(f, F, S, m, k)
    <3>1. \A k \in 1..n : k \in Nat
      OBVIOUS
    <3> QED
      BY <3>1
  <2>1. PICK f : Runs(f, F, S, m, k - 1)
    OBVIOUS
  <2>2. PICK g : g = [i \in 0..k |-> IF i = k THEN F[f[k - 1]] ELSE f[i]]
    OBVIOUS
  <2>3. g \in [0..k -> S] /\ g[0] = m
    BY <2>1, <2>2 DEF Runs, Maps
  <2>4. ASSUME NEW i \in 1..k PROVE g[i] = F[g[i - 1]]
    <3>1. g[i - 1] = f[i - 1]
      BY <2>2
    <3>2. i # k => i \in 1..k - 1 /\ g[i] = f[i]
      BY <2>2
    <3>3. i = k => g[i] = F[f[k - 1]]
      BY <2>2
    <3> QED
      BY <2>1, <3>1, <3>2, <3>3 DEF Runs
  <2> QED
    BY <2>3, <2>4 DEF Runs
<1>3. n \in T
  <2> HIDE DEF T
  <2> QED
    BY <1>1, <1>2, Upwards
<1> QED
  BY <1>3

LEMMA MinOfSet ==
    ASSUME NEW T, T \subseteq Nat, T # {}
    PROVE  Min(T) \in T /\ \A y \in T : Min(T) <= y
  BY LeastNumber DEF Min

\* A set of numbers with a bound has a greatest one: the least distance to it.
LEMMA MaxOfSet ==
    ASSUME NEW T, NEW k \in Int, T \subseteq 0..k, T # {}
    PROVE  Max(T) \in T /\ \A y \in T : y <= Max(T)
<1> DEFINE D == {d \in 0..k : k - d \in T}
<1>1. D \subseteq Nat /\ D # {}
  <2>1. PICK x \in T : x \in 0..k
    OBVIOUS
  <2>2. k - x \in 0..k /\ k - (k - x) = x
    BY <2>1
  <2> QED
    <3>1. D \subseteq Nat
      OBVIOUS
    <3>2. k - x \in D
      BY <2>1, <2>2
    <3> QED
      BY <3>1, <3>2
<1>2. PICK d \in D : \A e \in D : d <= e
  <2> HIDE DEF D
  <2> QED
    BY <1>1, LeastNumber
<1>3. k - d \in T /\ \A y \in T : k - d >= y
  <2>1. \A y \in T : k - y \in D
    <3> TAKE y \in T
    <3>1. y \in 0..k
      OBVIOUS
    <3>2. k - y \in 0..k /\ k - (k - y) = y
      BY <3>1
    <3> QED
      BY <3>2
  <2>2. \A y \in T : d <= k - y
    BY <1>2, <2>1
  <2> QED
    BY <1>2, <2>2
<1> QED
  BY <1>3 DEF Max

-----------------------------------------------------------------------------
(* Lines *)

LEMMA TextSize == ASSUME NEW text \in Texts PROVE Size(text) \in Nat /\ Size(text) > 0
  BY TextAssumption DEF Size

LEMMA BreaksFinite ==
    ASSUME NEW text, NEW a \in Int, NEW b \in Int
    PROVE  /\ Breaks(text, a, b) \subseteq a..b /\ IsFiniteSet(Breaks(text, a, b))
           /\ Cardinality(Breaks(text, a, b)) \in Nat
<1>1. Breaks(text, a, b) \subseteq a..b
  BY DEF Breaks
<1>2. IsFiniteSet(a..b)
  BY FS_Interval
<1> QED
  BY <1>1, <1>2, FS_Subset, FS_CardinalityType

LEMMA LineNumber == ASSUME NEW text, NEW page \in Int PROVE LinesBefore(text, page) \in Nat
<1>1. page - 1 \in Int
  OBVIOUS
<1> QED
  BY <1>1, BreaksFinite DEF LinesBefore

LEMMA StartsAre ==
    ASSUME NEW text, Size(text) \in Nat
    PROVE  /\ LineStarts(text) \subseteq 0..Size(text) /\ 0 \in LineStarts(text)
           /\ \A p \in LineStarts(text) : p > 0 => p - 1 \in 0..Size(text) - 1 /\ text[(p - 1) + 1] = NL
           /\ \A j \in 0..Size(text) - 1 : text[j + 1] = NL => j + 1 \in LineStarts(text)
  BY DEF LineStarts, Breaks, Size

\* The line that begins behind the next newline is the next one.
LEMMA LineAfter ==
    ASSUME NEW text, Size(text) \in Nat, NEW p \in Nat, Breaks(text, p, Size(text) - 1) # {},
           NEW q, q = Min(Breaks(text, p, Size(text) - 1)) + 1
    PROVE  q \in LineStarts(text) /\ q \in p + 1..Size(text) /\ LinesBefore(text, q) = LinesBefore(text, p) + 1
<1> DEFINE B == Breaks(text, p, Size(text) - 1)
           j == Min(B)
<1>1. B \subseteq p..Size(text) - 1
  BY BreaksFinite
<1>2. j \in B /\ \A y \in B : j <= y
  <2>1. B \subseteq Nat
    BY <1>1
  <2> HIDE DEF B
  <2> QED
    BY <2>1, MinOfSet DEF B
<1>3. j \in p..Size(text) - 1 /\ text[j + 1] = NL
  BY <1>2 DEF Breaks
<1> HIDE DEF j
<1>4. q = j + 1 /\ q - 1 = j
  BY <1>3 DEF j
<1>5. Breaks(text, 0, q - 1) = Breaks(text, 0, p - 1) \cup {j}
  <2>1. \A i \in 0..j : text[i + 1] = NL => i \in 0..p - 1 \/ i = j
    <3> TAKE i \in 0..j
    <3>1. ASSUME text[i + 1] = NL, i >= p PROVE i = j
      <4>1. i \in B
        BY <1>3, <3>1 DEF Breaks
      <4>2. j <= i
        BY <1>2, <4>1
      <4> QED
        BY <1>3, <4>2
    <3> QED
      BY <1>3, <3>1
  <2>2. Breaks(text, 0, q - 1) \subseteq Breaks(text, 0, p - 1) \cup {j}
    BY <1>4, <2>1 DEF Breaks
  <2>3. Breaks(text, 0, p - 1) \cup {j} \subseteq Breaks(text, 0, q - 1)
    <3>1. \A i \in 0..p - 1 : i \in 0..j
      BY <1>3
    <3>2. j \in 0..j /\ text[j + 1] = NL
      BY <1>3
    <3> QED
      BY <1>4, <3>1, <3>2 DEF Breaks
  <2> QED
    BY <2>2, <2>3
<1>6. j \notin Breaks(text, 0, p - 1)
  BY <1>3 DEF Breaks
<1>7. LinesBefore(text, q) = LinesBefore(text, p) + 1
  <2>1. IsFiniteSet(Breaks(text, 0, p - 1))
    BY BreaksFinite
  <2> QED
    BY <1>5, <1>6, <2>1, FS_AddElement DEF LinesBefore
<1>8. q \in LineStarts(text)
  BY <1>3, <1>4, StartsAre
<1> QED
  BY <1>3, <1>4, <1>7, <1>8

\* The same of the line before, from the start of a line.
LEMMA LineAbove ==
    ASSUME NEW text, Size(text) \in Nat, NEW p \in LineStarts(text), Breaks(text, 0, p - 2) # {},
           NEW q, q = Max(Breaks(text, 0, p - 2)) + 1
    PROVE  /\ q \in LineStarts(text) /\ q \in 1..p - 1
           /\ LinesBefore(text, p) = LinesBefore(text, q) + 1
<1> DEFINE B == Breaks(text, 0, p - 2)
           j == Max(B)
<1>0. p \in 0..Size(text) /\ (p > 0 => text[(p - 1) + 1] = NL)
  BY StartsAre
<1>1. B \subseteq 0..p - 2
  BY <1>0, BreaksFinite
<1>2. j \in B /\ \A y \in B : y <= j
  <2>1. p - 2 \in Int
    BY <1>0
  <2> HIDE DEF B
  <2> QED
    BY <1>1, <2>1, MaxOfSet DEF B
<1>3. j \in 0..p - 2 /\ text[j + 1] = NL
  BY <1>2 DEF Breaks
<1> HIDE DEF j
<1>4. q = j + 1 /\ q - 1 = j
  BY <1>3 DEF j
<1>5. Breaks(text, 0, p - 1) = Breaks(text, 0, q - 1) \cup {p - 1}
  <2>1. \A i \in 0..p - 1 : text[i + 1] = NL => i \in 0..j \/ i = p - 1
    <3> TAKE i \in 0..p - 1
    <3>1. ASSUME text[i + 1] = NL, i # p - 1 PROVE i <= j
      <4>1. i \in B
        BY <1>0, <3>1 DEF Breaks
      <4> QED
        BY <1>2, <4>1
    <3> QED
      BY <1>0, <1>3, <3>1
  <2> QED
    BY <1>0, <1>3, <1>4, <2>1 DEF Breaks
<1>6. p - 1 \notin Breaks(text, 0, q - 1)
  BY <1>0, <1>3, <1>4 DEF Breaks
<1>7. LinesBefore(text, p) = LinesBefore(text, q) + 1
  <2>1. IsFiniteSet(Breaks(text, 0, q - 1))
    BY <1>3, <1>4, BreaksFinite
  <2> QED
    BY <1>5, <1>6, <2>1, FS_AddElement DEF LinesBefore
<1>8. q \in LineStarts(text)
  BY <1>0, <1>3, <1>4, StartsAre
<1> QED
  BY <1>0, <1>3, <1>4, <1>7, <1>8

\* Without a newline further up it is the first line or the second.
LEMMA FirstLines ==
    ASSUME NEW text, Size(text) \in Nat, NEW p \in LineStarts(text), Breaks(text, 0, p - 2) = {}
    PROVE  LinesBefore(text, p) = IF p = 0 THEN 0 ELSE 1
<1>0. p \in 0..Size(text) /\ (p > 0 => text[(p - 1) + 1] = NL)
  BY StartsAre
<1>1. CASE p = 0
  <2>1. Breaks(text, 0, p - 1) = {}
    BY <1>1 DEF Breaks
  <2> QED
    BY <1>1, <2>1, FS_EmptySet DEF LinesBefore
<1>2. CASE p # 0
  <2>1. Breaks(text, 0, p - 1) = Breaks(text, 0, p - 2) \cup {p - 1}
    BY <1>0, <1>2 DEF Breaks
  <2>2. Breaks(text, 0, p - 1) = {p - 1}
    BY <2>1
  <2> QED
    BY <1>2, <2>2, FS_Singleton DEF LinesBefore
<1> QED
  BY <1>1, <1>2

LEMMA FirstLine == ASSUME NEW text, Size(text) \in Nat PROVE LinesBefore(text, 0) = 0
<1>1. Breaks(text, 0, 0 - 2) = {} /\ 0 \in LineStarts(text)
  BY StartsAre DEF Breaks
<1> QED
  BY <1>1, FirstLines

\* Lines are numbered in the order of the text, each by one number.
LEMMA LinesInOrder ==
    ASSUME NEW text, Size(text) \in Nat, NEW p \in LineStarts(text), NEW q \in LineStarts(text), p < q
    PROVE  LinesBefore(text, p) < LinesBefore(text, q)
<1>0. p \in 0..Size(text) /\ q \in 0..Size(text) /\ text[(q - 1) + 1] = NL
  BY StartsAre
<1>1. Breaks(text, 0, p - 1) \subseteq Breaks(text, 0, q - 1) \ {q - 1}
  BY <1>0 DEF Breaks
<1>2. q - 1 \in Breaks(text, 0, q - 1)
  BY <1>0 DEF Breaks
<1>3. IsFiniteSet(Breaks(text, 0, q - 1)) /\ Cardinality(Breaks(text, 0, q - 1)) \in Nat
  BY <1>0, BreaksFinite
<1>4. /\ IsFiniteSet(Breaks(text, 0, q - 1) \ {q - 1})
      /\ Cardinality(Breaks(text, 0, q - 1) \ {q - 1}) = Cardinality(Breaks(text, 0, q - 1)) - 1
  BY <1>2, <1>3, FS_RemoveElement
<1>5. Cardinality(Breaks(text, 0, p - 1)) <= Cardinality(Breaks(text, 0, q - 1) \ {q - 1})
  BY <1>1, <1>4, FS_Subset
<1>6. Cardinality(Breaks(text, 0, p - 1)) \in Nat
  BY <1>0, BreaksFinite
<1> QED
  BY <1>3, <1>4, <1>5, <1>6 DEF LinesBefore

\* A text that ends with a newline: there is another one from everywhere, and
\* the last line starts behind the last character.
LEMMA TextEnds ==
    ASSUME NEW text \in Texts, Terminated(text)
    PROVE  /\ Size(text) \in LineStarts(text) /\ LinesOf(text) = LinesBefore(text, Size(text))
           /\ LinesOf(text) \in Nat /\ LinesOf(text) >= 1
           /\ \A p \in Nat : Breaks(text, p, Size(text) - 1) = {} <=> p >= Size(text)
           /\ \A p \in LineStarts(text) : /\ LinesBefore(text, p) <= LinesOf(text)
                                          /\ LinesBefore(text, p) = LinesOf(text) <=> p = Size(text)
<1>1. Size(text) \in Nat /\ Size(text) > 0 /\ text[Size(text)] = NL
  BY TextSize DEF Terminated, Last, Size
<1>2. PICK j \in 0..Size(text) - 1 : j = Size(text) - 1 /\ j + 1 = Size(text) /\ text[j + 1] = NL
  BY <1>1
<1>3. Size(text) \in LineStarts(text) /\ 0 \in LineStarts(text)
  BY <1>1, <1>2, StartsAre
<1>4. LinesOf(text) = LinesBefore(text, Size(text)) /\ LinesOf(text) \in Nat
  BY <1>1, LineNumber DEF LinesOf, Size
<1>5. LinesOf(text) >= 1
  BY <1>1, <1>3, <1>4, LinesInOrder, FirstLine
<1>6. \A p \in Nat : Breaks(text, p, Size(text) - 1) = {} <=> p >= Size(text)
  BY <1>1, <1>2 DEF Breaks
<1>7. ASSUME NEW p \in LineStarts(text)
      PROVE  /\ LinesBefore(text, p) <= LinesOf(text)
             /\ LinesBefore(text, p) = LinesOf(text) <=> p = Size(text)
  <2>1. p \in 0..Size(text)
    BY <1>1, StartsAre
  <2>2. CASE p = Size(text)
    BY <1>4, <2>2
  <2>3. CASE p < Size(text)
    <3>1. LinesBefore(text, p) < LinesOf(text) /\ LinesBefore(text, p) \in Nat
      BY <1>1, <1>3, <1>4, <2>1, <2>3, LinesInOrder, LineNumber
    <3> QED
      BY <1>4, <2>3, <3>1
  <2> QED
    BY <1>1, <2>1, <2>2, <2>3
<1> QED
  BY <1>3, <1>4, <1>5, <1>6, <1>7

-----------------------------------------------------------------------------
(* The pointer *)

Labels == UNION {[d -> Int] : d \in SUBSET Int}

\* what every state of a window is
Pages ==
    [open : {"no", "text", "search", "scroll"}, text : Texts \cup {<<>>}, h : Nat, page : Nat,
     begin : BOOLEAN, end : BOOLEAN, length : Nat, hscroll : Int, top : Int, jumps : SUBSET Nat,
     label : Labels, keys : SUBSET [key : Int, target : Int], vscroll : Nat, line : Int]

\* Only the pointer, what is known of it and the lines printed differ; of these
\* only the pointer.
Redrawn(t, u) ==
    /\ u.open = t.open /\ u.text = t.text /\ u.h = t.h /\ u.hscroll = t.hscroll /\ u.jumps = t.jumps
    /\ u.label = t.label /\ u.keys = t.keys /\ u.vscroll = t.vscroll /\ u.line = t.line
Walked(t, u) == Redrawn(t, u) /\ u.length = t.length /\ u.top = t.top

\* The pointer is at the start of line v, counted from 0, of a text that ends
\* with a newline; behind the end there is one line more, which is never left
\* downwards.
On(t, v) ==
    /\ t.text \in Texts /\ Terminated(t.text)
    /\ t.page \in LineStarts(t.text) /\ v = LinesBefore(t.text, t.page)
At(t, v) ==
    IF t.end THEN t.text \in Texts /\ Terminated(t.text) /\ t.page = Len(t.text) /\ v = LinesOf(t.text) + 1
    ELSE On(t, v)

LEMMA PageText == ASSUME NEW t \in Pages PROVE Size(t.text) \in Nat /\ Len(t.text) = Size(t.text)
<1>1. CASE t.text \in Texts
  BY <1>1, TextSize DEF Size
<1>2. CASE t.text = <<>>
  BY <1>2 DEF Size
<1> QED
  BY <1>1, <1>2 DEF Pages

MovedTo(t, page, end) == [t EXCEPT !.page = page, !.end = end]
LEMMA MovedParts ==
    ASSUME NEW t \in Pages, NEW page \in Nat, NEW end \in BOOLEAN, NEW u, u = MovedTo(t, page, end)
    PROVE  u \in Pages /\ Walked(t, u) /\ u.page = page /\ u.end = end /\ u.begin = t.begin
  BY DEF Pages, Walked, Redrawn, MovedTo

LEMMA AtLine ==
    ASSUME NEW t \in Pages, NEW v, At(t, v)
    PROVE  /\ LinesOf(t.text) \in Nat /\ LinesOf(t.text) >= 1 /\ v \in 0..LinesOf(t.text) + 1
           /\ t.end <=> v = LinesOf(t.text) + 1
           /\ t.text \in Texts /\ Terminated(t.text) /\ t.page \in LineStarts(t.text)
<1>1. t.text \in Texts /\ Terminated(t.text) /\ t.page \in Nat
  BY DEF At, On, Pages
<1>2. /\ Size(t.text) \in LineStarts(t.text) /\ LinesOf(t.text) = LinesBefore(t.text, Size(t.text))
      /\ LinesOf(t.text) \in Nat /\ LinesOf(t.text) >= 1
      /\ \A p \in Nat : Breaks(t.text, p, Size(t.text) - 1) = {} <=> p >= Size(t.text)
      /\ \A p \in LineStarts(t.text) : /\ LinesBefore(t.text, p) <= LinesOf(t.text)
                                       /\ LinesBefore(t.text, p) = LinesOf(t.text) <=> p = Size(t.text)
  BY <1>1, TextEnds
<1>3. CASE t.end
  BY <1>1, <1>2, <1>3, PageText DEF At
<1>4. CASE ~t.end
  <2>1. On(t, v)
    BY <1>4 DEF At
  <2>2. v \in Nat
    BY <1>1, <2>1, LineNumber DEF On
  <2>3. t.page \in LineStarts(t.text) /\ v <= LinesOf(t.text)
    BY <1>2, <2>1 DEF On
  <2> QED
    BY <1>1, <1>2, <1>4, <2>2, <2>3
<1> QED
  BY <1>3, <1>4

LEMMA GetLineFollows ==
    ASSUME NEW t \in Pages, NEW u, u = GetLine(t)
    PROVE  /\ u \in Pages /\ Walked(t, u) /\ u.begin = t.begin
           /\ \A v : On(t, v) => At(u, v + 1)
           /\ \A v : At(t, v) => At(u, IF t.end THEN v ELSE v + 1)
<1> DEFINE B == Breaks(t.text, t.page, Size(t.text) - 1)
<1>1. Size(t.text) \in Nat /\ t.page \in Nat /\ Len(t.text) = Size(t.text)
  BY PageText DEF Pages
<1>2. u = IF B = {} THEN MovedTo(t, Size(t.text), TRUE) ELSE MovedTo(t, Min(B) + 1, FALSE)
  BY <1>1 DEF GetLine, MovedTo
<1>3. CASE B = {}
  <2>1. PICK end \in BOOLEAN : end = TRUE
    OBVIOUS
  <2>2. u = MovedTo(t, Size(t.text), end)
    BY <1>2, <1>3, <2>1
  <2>3. /\ u \in Pages /\ Walked(t, u) /\ u.page = Size(t.text) /\ u.end = end /\ u.begin = t.begin
    BY <1>1, <2>2, MovedParts
  <2>4. ASSUME NEW v, On(t, v) PROVE At(u, v + 1)
    <3>1. /\ Size(t.text) \in LineStarts(t.text) /\ LinesOf(t.text) = LinesBefore(t.text, Size(t.text))
          /\ LinesOf(t.text) \in Nat /\ LinesOf(t.text) >= 1
          /\ \A p \in Nat : Breaks(t.text, p, Size(t.text) - 1) = {} <=> p >= Size(t.text)
          /\ \A p \in LineStarts(t.text) :
                /\ LinesBefore(t.text, p) <= LinesOf(t.text)
                /\ LinesBefore(t.text, p) = LinesOf(t.text) <=> p = Size(t.text)
      BY <2>4, TextEnds DEF On
    <3>2. t.page <= Size(t.text)
      BY <1>1, <2>4, StartsAre DEF On
    <3>3. t.page = Size(t.text)
      BY <1>1, <1>3, <3>1, <3>2
    <3> QED
      BY <1>1, <2>1, <2>3, <2>4, <3>1, <3>3 DEF At, On, Walked, Redrawn
  <2>5. ASSUME NEW v, At(t, v), t.end PROVE At(u, v)
    BY <1>1, <2>1, <2>3, <2>5 DEF At, Walked, Redrawn
  <2> QED
    BY <2>3, <2>4, <2>5 DEF At
<1>4. CASE B # {}
  <2>0. B \subseteq Nat
    <3>1. B \subseteq t.page..Size(t.text) - 1
      BY <1>1, BreaksFinite
    <3> QED
      BY <1>1, <3>1
  <2>1. Min(B) + 1 \in Nat
    <3> HIDE DEF B
    <3>1. Min(B) \in Nat
      BY <1>4, <2>0, MinOfSet
    <3> QED
      BY <3>1
  <2>2. PICK end \in BOOLEAN : end = FALSE
    OBVIOUS
  <2>3. PICK q \in Nat : q = Min(B) + 1
    BY <2>1
  <2>4. u = MovedTo(t, q, end)
    BY <1>2, <1>4, <2>2, <2>3
  <2>5. /\ u \in Pages /\ Walked(t, u) /\ u.page = q /\ u.end = end /\ u.begin = t.begin
    BY <2>4, MovedParts
  <2>6. /\ q \in LineStarts(t.text) /\ q \in t.page + 1..Size(t.text)
        /\ LinesBefore(t.text, q) = LinesBefore(t.text, t.page) + 1
    BY <1>1, <1>4, <2>3, LineAfter
  <2>7. ASSUME NEW v, On(t, v) PROVE At(u, v + 1)
    BY <2>2, <2>5, <2>6, <2>7 DEF At, On, Walked, Redrawn
  <2>8. ASSUME NEW v, At(t, v), t.end PROVE FALSE
    BY <1>1, <2>6, <2>8 DEF At
  <2> QED
    BY <2>5, <2>7, <2>8 DEF At
<1> QED
  BY <1>3, <1>4

SteppedBack(t, page, begin, end) == [t EXCEPT !.page = page, !.begin = begin, !.end = end]
LEMMA SteppedParts ==
    ASSUME NEW t \in Pages, NEW page \in Nat, NEW begin \in BOOLEAN, NEW end \in BOOLEAN,
           NEW u, u = SteppedBack(t, page, begin, end)
    PROVE  u \in Pages /\ Walked(t, u) /\ u.page = page /\ u.begin = begin /\ u.end = end
  BY DEF Pages, Walked, Redrawn, SteppedBack

LEMMA BackLineFollows ==
    ASSUME NEW t \in Pages, NEW u, u = BackLine(t)
    PROVE  /\ u \in Pages /\ Walked(t, u)
           /\ t.begin => u = t
           /\ \A v : At(t, v) /\ ~t.begin =>
                   At(u, IF v = 0 THEN 0 ELSE v - 1) /\ u.begin = (v <= 1) /\ (v > 0 => ~u.end)
<1> DEFINE B == Breaks(t.text, 0, t.page - 2)
<1>1. /\ Size(t.text) \in Nat /\ t.page \in Nat /\ Len(t.text) = Size(t.text)
      /\ t.begin \in BOOLEAN /\ t.end \in BOOLEAN
  BY PageText DEF Pages
<1>2. CASE t.begin
  BY <1>2 DEF BackLine, Walked, Redrawn
<1>3. CASE ~t.begin /\ t.page = Size(t.text) /\ t.end
  <2>1. PICK off \in BOOLEAN, page \in Nat : off = FALSE /\ page = t.page
    BY <1>1
  <2>2. u = SteppedBack(t, page, off, off)
    BY <1>1, <1>3, <2>1 DEF BackLine, SteppedBack, Pages
  <2>3. u \in Pages /\ Walked(t, u) /\ u.page = page /\ u.begin = off /\ u.end = off
    BY <2>2, SteppedParts
  <2>4. ASSUME NEW v, At(t, v)
        PROVE  At(u, IF v = 0 THEN 0 ELSE v - 1) /\ u.begin = (v <= 1) /\ (v > 0 => ~u.end)
    <3>1. /\ LinesOf(t.text) \in Nat /\ LinesOf(t.text) >= 1 /\ v \in 0..LinesOf(t.text) + 1
          /\ t.end <=> v = LinesOf(t.text) + 1
          /\ t.text \in Texts /\ Terminated(t.text) /\ t.page \in LineStarts(t.text)
      BY <2>4, AtLine
    <3>2. v > 0 /\ ~(v <= 1) /\ v - 1 = LinesOf(t.text)
      BY <1>3, <3>1
    <3>3. LinesOf(t.text) = LinesBefore(t.text, t.page)
      BY <1>1, <1>3 DEF LinesOf
    <3>4. On(u, v - 1)
      BY <2>1, <2>3, <3>1, <3>2, <3>3 DEF On, Walked, Redrawn
    <3> QED
      BY <2>1, <2>3, <3>2, <3>4 DEF At
  <2> QED
    BY <1>3, <2>3, <2>4
<1>4. CASE ~t.begin /\ ~(t.page = Size(t.text) /\ t.end) /\ B = {}
  <2>1. PICK zero \in Nat, on \in BOOLEAN, end \in BOOLEAN : zero = 0 /\ on = TRUE /\ end = t.end
    BY <1>1
  <2>2. u = SteppedBack(t, zero, on, end)
    BY <1>1, <1>4, <2>1 DEF BackLine, SteppedBack, Pages
  <2>3. u \in Pages /\ Walked(t, u) /\ u.page = zero /\ u.begin = on /\ u.end = end
    BY <2>2, SteppedParts
  <2>4. ASSUME NEW v, At(t, v)
        PROVE  At(u, IF v = 0 THEN 0 ELSE v - 1) /\ u.begin = (v <= 1) /\ (v > 0 => ~u.end)
    <3>1. On(t, v) /\ ~t.end
      BY <1>1, <1>4, <2>4 DEF At
    <3>2. v = IF t.page = 0 THEN 0 ELSE 1
      BY <1>1, <1>4, <3>1, FirstLines DEF On
    <3>3. LinesBefore(t.text, 0) = 0 /\ 0 \in LineStarts(t.text)
      BY <1>1, FirstLine, StartsAre
    <3>4. On(u, 0)
      BY <2>1, <2>3, <3>1, <3>3 DEF On, Walked, Redrawn
    <3>5. At(u, 0) /\ ~u.end
      BY <2>1, <2>3, <3>1, <3>4 DEF At
    <3>6. (v = 0 \/ v - 1 = 0) /\ (v <= 1) = TRUE
      BY <3>2
    <3> QED
      BY <2>1, <2>3, <3>5, <3>6
  <2> QED
    BY <1>4, <2>3, <2>4
<1>5. CASE ~t.begin /\ ~(t.page = Size(t.text) /\ t.end) /\ B # {}
  <2>1. PICK off \in BOOLEAN, end \in BOOLEAN : off = FALSE /\ end = t.end
    BY <1>1
  <2>2. Max(B) \in Nat
    <3>1. B \subseteq 0..t.page - 2 /\ t.page - 2 \in Int
      BY <1>1, BreaksFinite
    <3> HIDE DEF B
    <3>2. Max(B) \in B
      BY <1>5, <3>1, MaxOfSet
    <3>3. PICK k \in Int : k = t.page - 2
      BY <3>1
    <3>4. Max(B) \in 0..k
      BY <3>1, <3>2, <3>3
    <3> QED
      BY <3>4
  <2>3. PICK q \in Nat : q = Max(B) + 1
    BY <2>2
  <2>4. u = SteppedBack(t, q, off, end)
    BY <1>1, <1>5, <2>1, <2>3 DEF BackLine, SteppedBack, Pages
  <2>5. u \in Pages /\ Walked(t, u) /\ u.page = q /\ u.begin = off /\ u.end = end
    BY <2>4, SteppedParts
  <2>6. ASSUME NEW v, At(t, v)
        PROVE  At(u, IF v = 0 THEN 0 ELSE v - 1) /\ u.begin = (v <= 1) /\ (v > 0 => ~u.end)
    <3>1. On(t, v) /\ ~t.end
      BY <1>1, <1>5, <2>6 DEF At
    <3>2. q \in LineStarts(t.text) /\ q >= 1 /\ v = LinesBefore(t.text, q) + 1
      BY <1>1, <1>5, <2>3, <3>1, LineAbove DEF On
    <3>3. LinesBefore(t.text, 0) = 0 /\ 0 \in LineStarts(t.text)
      BY <1>1, FirstLine, StartsAre
    <3>4. LinesBefore(t.text, q) > 0 /\ LinesBefore(t.text, q) \in Nat
      BY <1>1, <3>2, <3>3, LinesInOrder, LineNumber
    <3>5. On(u, v - 1)
      BY <2>5, <3>1, <3>2, <3>4 DEF On, Walked, Redrawn
    <3> QED
      BY <2>1, <2>5, <3>1, <3>2, <3>4, <3>5 DEF At
  <2> QED
    BY <1>5, <2>5, <2>6
<1> QED
  BY <1>1, <1>2, <1>3, <1>4, <1>5

-----------------------------------------------------------------------------
(* Many lines at once *)

LineLoop(f, n, t) == f = [k \in 0..n |-> IF k = 0 THEN t ELSE GetLine(f[k - 1])]
BackLoop(f, n, t) ==
    f = [k \in 0..n |-> IF k = 0 THEN [t EXCEPT !.begin = FALSE] ELSE BackLine(f[k - 1])]

LEMMA LineLoopExists == ASSUME NEW t \in Pages, NEW n \in Nat PROVE \E f : LineLoop(f, n, t)
<1>1. PICK F : F = [x \in Pages |-> GetLine(x)]
  OBVIOUS
<1>2. Maps(F, Pages)
  <2>1. \A x \in Pages : GetLine(x) \in Pages
    BY GetLineFollows
  <2> QED
    BY <1>1, <2>1 DEF Maps
<1>3. PICK f : Runs(f, F, Pages, t, n)
  BY <1>2, LoopExists
<1>4. f \in [0..n -> Pages] /\ f[0] = t /\ \A k \in 1..n : f[k] = F[f[k - 1]]
  BY <1>3 DEF Runs
<1>5. \A k \in 1..n : f[k] = GetLine(f[k - 1])
  <2> TAKE k \in 1..n
  <2>1. k - 1 \in 0..n
    OBVIOUS
  <2>2. f[k - 1] \in Pages
    BY <1>4, <2>1
  <2> QED
    BY <1>1, <1>4, <2>2
<1>6. f = [k \in 0..n |-> IF k = 0 THEN t ELSE GetLine(f[k - 1])]
  <2>1. \A k \in 0..n : k # 0 => k \in 1..n
    OBVIOUS
  <2> QED
    BY <1>4, <1>5, <2>1
<1> QED
  BY <1>6 DEF LineLoop

\* n lines down, the line behind the end counted.
LEMMA GetLinesFollows ==
    ASSUME NEW t \in Pages, NEW n \in Nat, NEW u, u = GetLines(t, n)
    PROVE  /\ u \in Pages /\ Walked(t, u) /\ u.begin = t.begin
           /\ \A v : At(t, v) => At(u, IF v + n <= LinesOf(t.text) + 1 THEN v + n ELSE LinesOf(t.text) + 1)
           /\ \A v : On(t, v) /\ n > 0 =>
                   At(u, IF v + n <= LinesOf(t.text) + 1 THEN v + n ELSE LinesOf(t.text) + 1)
<1> DEFINE f == CHOOSE f : LineLoop(f, n, t)
<1>1. LineLoop(f, n, t)
  BY LineLoopExists
<1>2. u = f[n]
  BY DEF GetLines, LineLoop
<1> HIDE DEF f
<1>3. \A k \in 0..n : f[k] = IF k = 0 THEN t ELSE GetLine(f[k - 1])
  BY <1>1 DEF LineLoop
<1> DEFINE Due(v, k) == IF v + k <= LinesOf(t.text) + 1 THEN v + k ELSE LinesOf(t.text) + 1
           Good(k) == /\ f[k] \in Pages /\ Walked(t, f[k]) /\ f[k].begin = t.begin
                      /\ \A v : At(t, v) => At(f[k], Due(v, k))
                      /\ \A v : On(t, v) /\ k > 0 => At(f[k], Due(v, k))
           T == {k \in 0..n : Good(k)}
<1>4. 0 \in T
  <2>1. f[0] = t
    BY <1>3
  <2>2. \A v : At(t, v) => At(f[0], Due(v, 0))
    <3> SUFFICES ASSUME NEW v, At(t, v) PROVE At(f[0], Due(v, 0))
      OBVIOUS
    <3>1. LinesOf(t.text) \in Nat /\ v \in 0..LinesOf(t.text) + 1
      BY AtLine
    <3>2. Due(v, 0) = v
      BY <3>1
    <3> QED
      BY <2>1, <3>2
  <2> QED
    BY <2>1, <2>2 DEF Walked, Redrawn
<1>5. \A k \in 1..n : k - 1 \in T => k \in T
  <2> SUFFICES ASSUME NEW k \in 1..n, Good(k - 1) PROVE Good(k)
    OBVIOUS
  <2>1. k \in 0..n /\ k # 0 /\ k - 1 \in 0..n
    OBVIOUS
  <2>2. PICK x \in Pages : x = f[k - 1]
    OBVIOUS
  <2>3. f[k] = GetLine(x)
    BY <1>3, <2>1, <2>2
  <2>4. /\ f[k] \in Pages /\ Walked(x, f[k]) /\ f[k].begin = x.begin
        /\ \A v : On(x, v) => At(f[k], v + 1)
        /\ \A v : At(x, v) => At(f[k], IF x.end THEN v ELSE v + 1)
    BY <2>3, GetLineFollows
  <2>5. Walked(t, f[k]) /\ f[k].begin = t.begin /\ x.text = t.text
    BY <2>2, <2>4 DEF Walked, Redrawn
  <2>6. ASSUME NEW v \in Nat, At(x, Due(v, k - 1)), LinesOf(t.text) \in Nat
        PROVE  At(f[k], Due(v, k))
    <3>1. /\ LinesOf(x.text) \in Nat /\ LinesOf(x.text) >= 1 /\ Due(v, k - 1) \in 0..LinesOf(x.text) + 1
          /\ x.end <=> Due(v, k - 1) = LinesOf(x.text) + 1
          /\ x.text \in Texts /\ Terminated(x.text) /\ x.page \in LineStarts(x.text)
      BY <2>6, AtLine
    <3>2. CASE x.end
      <4>1. Due(v, k) = Due(v, k - 1)
        BY <2>5, <2>6, <3>1, <3>2
      <4> QED
        BY <2>4, <2>6, <3>2, <4>1
    <3>3. CASE ~x.end
      <4>1. Due(v, k) = Due(v, k - 1) + 1
        BY <2>5, <2>6, <3>1, <3>3
      <4> QED
        BY <2>4, <2>6, <3>3, <4>1
    <3> QED
      BY <3>2, <3>3
  <2>7. ASSUME NEW v, At(t, v) PROVE At(f[k], Due(v, k))
    <3>1. LinesOf(t.text) \in Nat /\ v \in Nat
      BY <2>7, AtLine
    <3> QED
      BY <2>2, <2>6, <2>7, <3>1
  <2>8. ASSUME NEW v, On(t, v) PROVE At(f[k], Due(v, k))
    <3>1. /\ LinesOf(t.text) \in Nat /\ LinesBefore(t.text, t.page) <= LinesOf(t.text)
          /\ v = LinesBefore(t.text, t.page) /\ v \in Nat
      BY <2>8, TextEnds, LineNumber DEF On, Pages
    <3>2. CASE k = 1
      <4>1. x = t /\ Due(v, 1) = v + 1
        BY <1>3, <2>2, <3>1, <3>2
      <4> QED
        BY <2>4, <2>8, <3>2, <4>1
    <3>3. CASE k # 1
      BY <2>2, <2>6, <2>8, <3>1, <3>3
    <3> QED
      BY <3>2, <3>3
  <2> QED
    BY <2>4, <2>5, <2>7, <2>8
<1>6. n \in T
  <2> HIDE DEF T
  <2> QED
    BY <1>4, <1>5, Upwards
<1> QED
  BY <1>2, <1>6

Rewound(t) == [t EXCEPT !.begin = FALSE]
LEMMA RewoundParts ==
    ASSUME NEW t \in Pages, NEW u, u = Rewound(t)
    PROVE  u \in Pages /\ Walked(t, u) /\ u.page = t.page /\ u.end = t.end /\ ~u.begin
  BY DEF Pages, Walked, Redrawn, Rewound

LEMMA BackLoopExists == ASSUME NEW t \in Pages, NEW n \in Nat PROVE \E f : BackLoop(f, n, t)
<1>1. PICK F : F = [x \in Pages |-> BackLine(x)]
  OBVIOUS
<1>2. Maps(F, Pages)
  <2>1. \A x \in Pages : BackLine(x) \in Pages
    BY BackLineFollows
  <2> QED
    BY <1>1, <2>1 DEF Maps
<1>3. PICK m \in Pages : m = Rewound(t)
  BY RewoundParts
<1>4. PICK f : Runs(f, F, Pages, m, n)
  BY <1>2, LoopExists
<1>5. f \in [0..n -> Pages] /\ f[0] = m /\ \A k \in 1..n : f[k] = F[f[k - 1]]
  BY <1>4 DEF Runs
<1>6. \A k \in 1..n : f[k] = BackLine(f[k - 1])
  <2> TAKE k \in 1..n
  <2>1. k - 1 \in 0..n
    OBVIOUS
  <2>2. f[k - 1] \in Pages
    BY <1>5, <2>1
  <2> QED
    BY <1>1, <1>5, <2>2
<1>7. f = [k \in 0..n |-> IF k = 0 THEN Rewound(t) ELSE BackLine(f[k - 1])]
  <2>1. \A k \in 0..n : k # 0 => k \in 1..n
    OBVIOUS
  <2> QED
    BY <1>3, <1>5, <1>6, <2>1
<1> QED
  BY <1>7 DEF BackLoop, Rewound

\* n lines up, and begin says whether the first line has stopped it.
LEMMA BackLinesFollows ==
    ASSUME NEW t \in Pages, NEW n \in Nat, NEW u, u = BackLines(t, n)
    PROVE  /\ u \in Pages /\ Walked(t, u)
           /\ \A v : At(t, v) => At(u, IF n <= v THEN v - n ELSE 0) /\ (u.begin <=> n >= 1 /\ v <= n)
<1> DEFINE f == CHOOSE f : BackLoop(f, n, t)
<1>1. BackLoop(f, n, t)
  BY BackLoopExists
<1>2. u = f[n]
  BY DEF BackLines, BackLoop
<1> HIDE DEF f
<1>3. \A k \in 0..n : f[k] = IF k = 0 THEN Rewound(t) ELSE BackLine(f[k - 1])
  BY <1>1 DEF BackLoop, Rewound
<1> DEFINE Due(v, k) == IF k <= v THEN v - k ELSE 0
           Good(k) == /\ f[k] \in Pages /\ Walked(t, f[k])
                      /\ \A v : At(t, v) => At(f[k], Due(v, k)) /\ (f[k].begin <=> k >= 1 /\ v <= k)
           T == {k \in 0..n : Good(k)}
<1>4. 0 \in T
  <2>1. f[0] = Rewound(t)
    BY <1>3
  <2>2. /\ f[0] \in Pages /\ Walked(t, f[0]) /\ f[0].page = t.page /\ f[0].end = t.end /\ ~f[0].begin
    BY <2>1, RewoundParts
  <2>3. \A v : At(t, v) => At(f[0], Due(v, 0))
    <3> SUFFICES ASSUME NEW v, At(t, v) PROVE At(f[0], Due(v, 0))
      OBVIOUS
    <3>1. v \in Nat
      BY AtLine
    <3>2. Due(v, 0) = v
      BY <3>1
    <3> QED
      BY <2>2, <3>2 DEF At, On, Walked, Redrawn
  <2> QED
    BY <2>2, <2>3
<1>5. \A k \in 1..n : k - 1 \in T => k \in T
  <2> SUFFICES ASSUME NEW k \in 1..n, Good(k - 1) PROVE Good(k)
    OBVIOUS
  <2>1. k \in 0..n /\ k # 0 /\ k - 1 \in 0..n
    OBVIOUS
  <2>2. PICK x \in Pages : x = f[k - 1]
    OBVIOUS
  <2>3. f[k] = BackLine(x)
    BY <1>3, <2>1, <2>2
  <2>4. /\ f[k] \in Pages /\ Walked(x, f[k])
        /\ x.begin => f[k] = x
        /\ \A v : At(x, v) /\ ~x.begin =>
                At(f[k], IF v = 0 THEN 0 ELSE v - 1) /\ f[k].begin = (v <= 1) /\ (v > 0 => ~f[k].end)
    BY <2>3, BackLineFollows
  <2>5. Walked(t, f[k])
    BY <2>2, <2>4 DEF Walked, Redrawn
  <2>6. ASSUME NEW v, At(t, v) PROVE At(f[k], Due(v, k)) /\ (f[k].begin <=> v <= k)
    <3>1. v \in Nat
      BY <2>6, AtLine
    <3>2. At(x, Due(v, k - 1)) /\ (x.begin <=> k - 1 >= 1 /\ v <= k - 1)
      BY <2>2, <2>6
    <3>3. CASE x.begin
      <4>1. Due(v, k) = Due(v, k - 1) /\ v <= k
        BY <3>1, <3>2, <3>3
      <4> QED
        BY <2>4, <3>2, <3>3, <4>1
    <3>4. CASE ~x.begin
      <4>1. PICK w \in Nat : w = Due(v, k - 1)
        <5>1. k \in Nat /\ (k - 1 <= v => v - (k - 1) \in Nat)
          BY <3>1
        <5> QED
          BY <5>1
      <4>2. Due(v, k) = (IF w = 0 THEN 0 ELSE w - 1) /\ (w <= 1 <=> v <= k)
        BY <3>1, <3>2, <3>4, <4>1
      <4>3. At(x, w)
        BY <3>2, <4>1
      <4>4. At(f[k], IF w = 0 THEN 0 ELSE w - 1) /\ f[k].begin = (w <= 1)
        BY <2>4, <3>4, <4>3
      <4> QED
        BY <4>2, <4>4
    <3> QED
      BY <3>3, <3>4
  <2> QED
    BY <2>4, <2>5, <2>6
<1>6. n \in T
  <2> HIDE DEF T
  <2> QED
    BY <1>4, <1>5, Upwards
<1> QED
  BY <1>2, <1>6

-----------------------------------------------------------------------------
(* A page *)

WithLength(t, length) == [t EXCEPT !.length = length]
LEMMA WithLengthParts ==
    ASSUME NEW t \in Pages, NEW length \in Nat, NEW u, u = WithLength(t, length)
    PROVE  /\ u \in Pages /\ Redrawn(t, u) /\ u.length = length /\ u.top = t.top
           /\ u.page = t.page /\ u.begin = t.begin /\ u.end = t.end
  BY DEF Pages, Redrawn, WithLength

LEMMA PrintLineFollows ==
    ASSUME NEW s \in Pages, NEW u, u = PrintLine(s)
    PROVE  /\ u \in Pages /\ Redrawn(s, u) /\ u.top = s.top /\ u.begin = s.begin
           /\ u.length = IF s.end /\ s.length > 0 THEN s.length ELSE s.length + 1
           /\ \A v : On(s, v) => At(u, v + 1)
           /\ \A v : At(s, v) => At(u, IF s.end THEN v ELSE v + 1)
<1>1. PICK t : t = GetLine(s)
  OBVIOUS
<1>2. /\ t \in Pages /\ Walked(s, t) /\ t.begin = s.begin
      /\ \A v : On(s, v) => At(t, v + 1)
      /\ \A v : At(s, v) => At(t, IF s.end THEN v ELSE v + 1)
  BY <1>1, GetLineFollows
<1>3. PICK length \in Nat : length = IF s.end /\ s.length > 0 THEN s.length ELSE s.length + 1
  BY DEF Pages
<1>4. u = WithLength(t, length)
  BY <1>1, <1>2, <1>3 DEF PrintLine, WithLength, Walked, Redrawn, Pages
<1>5. /\ u \in Pages /\ Redrawn(t, u) /\ u.length = length /\ u.top = t.top
      /\ u.page = t.page /\ u.begin = t.begin /\ u.end = t.end
  BY <1>2, <1>4, WithLengthParts
<1>6. \A v : At(t, v) => At(u, v)
  BY <1>5 DEF At, On, Redrawn
<1> QED
  BY <1>2, <1>3, <1>5, <1>6 DEF Walked, Redrawn

Started(m) == [m EXCEPT !.length = 0, !.top = m.page]
LEMMA StartedParts ==
    ASSUME NEW m \in Pages, NEW u, u = Started(m)
    PROVE  /\ u \in Pages /\ Redrawn(m, u) /\ u.top = m.page /\ u.length = 0
           /\ u.page = m.page /\ u.begin = m.begin /\ u.end = m.end
<1>1. PICK page \in Int, length \in Nat : page = m.page /\ length = 0
  BY DEF Pages
<1>2. u = [m EXCEPT !.length = length, !.top = page]
  BY <1>1 DEF Started
<1> QED
  BY <1>1, <1>2 DEF Pages, Redrawn

PageLoop(f, n, m) == f = [k \in 0..n |-> IF k = 0 THEN Started(m) ELSE PrintLine(f[k - 1])]

LEMMA PageLoopExists == ASSUME NEW t \in Pages, NEW n \in Nat PROVE \E f : PageLoop(f, n, t)
<1>1. PICK F : F = [x \in Pages |-> PrintLine(x)]
  OBVIOUS
<1>2. Maps(F, Pages)
  <2>1. \A x \in Pages : PrintLine(x) \in Pages
    BY PrintLineFollows
  <2> QED
    BY <1>1, <2>1 DEF Maps
<1>3. PICK m \in Pages : m = Started(t)
  BY StartedParts
<1>4. PICK f : Runs(f, F, Pages, m, n)
  BY <1>2, LoopExists
<1>5. f \in [0..n -> Pages] /\ f[0] = m /\ \A k \in 1..n : f[k] = F[f[k - 1]]
  BY <1>4 DEF Runs
<1>6. \A k \in 1..n : f[k] = PrintLine(f[k - 1])
  <2> TAKE k \in 1..n
  <2>1. k - 1 \in 0..n
    OBVIOUS
  <2>2. f[k - 1] \in Pages
    BY <1>5, <2>1
  <2> QED
    BY <1>1, <1>5, <2>2
<1>7. f = [k \in 0..n |-> IF k = 0 THEN Started(t) ELSE PrintLine(f[k - 1])]
  <2>1. \A k \in 0..n : k # 0 => k \in 1..n
    OBVIOUS
  <2> QED
    BY <1>3, <1>5, <1>6, <2>1
<1> QED
  BY <1>7 DEF PageLoop

\* Where a page of h lines that starts with line v ends.
PageEnd(t, v) == IF v + t.h <= LinesOf(t.text) + 1 THEN v + t.h ELSE LinesOf(t.text) + 1

LEMMA PrintPageFollows ==
    ASSUME NEW m \in Pages, m.h >= 1, NEW u, u = PrintPage(m)
    PROVE  /\ u \in Pages /\ Redrawn(m, u) /\ u.top = m.page /\ u.begin = m.begin /\ u.length >= 1
           /\ \A v : On(m, v) => At(u, PageEnd(m, v)) /\ u.length = PageEnd(m, v) - v
<1>0. PICK n \in Nat : n = m.h /\ n >= 1
  BY DEF Pages
<1> DEFINE f == CHOOSE f : PageLoop(f, n, m)
<1>1. PageLoop(f, n, m)
  BY PageLoopExists
<1>2. u = f[n]
  BY <1>0 DEF PrintPage, PageLoop, Started
<1> HIDE DEF f
<1>3. \A k \in 0..n : f[k] = IF k = 0 THEN Started(m) ELSE PrintLine(f[k - 1])
  BY <1>1 DEF PageLoop
<1> DEFINE Due(v, k) == IF v + k <= LinesOf(m.text) + 1 THEN v + k ELSE LinesOf(m.text) + 1
           Good(k) == /\ f[k] \in Pages /\ Redrawn(m, f[k]) /\ f[k].top = m.page /\ f[k].begin = m.begin
                      /\ IF k = 0 THEN f[k].length = 0 ELSE f[k].length >= 1
                      /\ \A v : On(m, v) => IF k = 0 THEN On(f[k], v)
                                           ELSE At(f[k], Due(v, k)) /\ f[k].length = Due(v, k) - v
           T == {k \in 0..n : Good(k)}
<1>4. 0 \in T
  <2>1. PICK x \in Pages : x = f[0]
    BY <1>3, StartedParts
  <2>2. /\ x \in Pages /\ Redrawn(m, x) /\ x.top = m.page /\ x.length = 0
        /\ x.page = m.page /\ x.begin = m.begin /\ x.end = m.end
    BY <1>3, <2>1, StartedParts
  <2>3. \A v : On(m, v) => On(x, v)
    BY <2>2 DEF On, Redrawn
  <2> QED
    BY <2>1, <2>2, <2>3
<1>5. \A k \in 1..n : k - 1 \in T => k \in T
  <2> SUFFICES ASSUME NEW k \in 1..n, Good(k - 1) PROVE Good(k)
    <3>1. \A k \in 1..n : k \in 0..n
      OBVIOUS
    <3> HIDE DEF Good
    <3> QED
      BY <3>1
  <2>1. k \in 0..n /\ k # 0 /\ k - 1 \in 0..n
    OBVIOUS
  <2>2. PICK x : x = f[k - 1]
    OBVIOUS
  <2>3. PICK y : y = f[k] /\ y = PrintLine(x)
    BY <1>3, <2>1, <2>2
  <2>4. /\ x \in Pages /\ Redrawn(m, x) /\ x.top = m.page /\ x.begin = m.begin
        /\ IF k - 1 = 0 THEN x.length = 0 ELSE x.length >= 1
        /\ \A v : On(m, v) => IF k - 1 = 0 THEN On(x, v)
                             ELSE At(x, Due(v, k - 1)) /\ x.length = Due(v, k - 1) - v
    BY <2>2
  <2>5. /\ y \in Pages /\ Redrawn(x, y) /\ y.top = x.top /\ y.begin = x.begin
        /\ y.length = IF x.end /\ x.length > 0 THEN x.length ELSE x.length + 1
        /\ \A v : On(x, v) => At(y, v + 1)
        /\ \A v : At(x, v) => At(y, IF x.end THEN v ELSE v + 1)
    BY <2>3, <2>4, PrintLineFollows
  <2>6. Redrawn(m, y) /\ y.top = m.page /\ y.begin = m.begin /\ y.length >= 1
    BY <2>4, <2>5 DEF Redrawn, Pages
  <2>7. ASSUME NEW v, On(m, v) PROVE At(y, Due(v, k)) /\ y.length = Due(v, k) - v
    <3>1. /\ LinesOf(m.text) \in Nat /\ v <= LinesOf(m.text) /\ v \in Nat /\ x.text = m.text
      BY <2>4, <2>7, TextEnds, LineNumber DEF On, Pages, Redrawn
    <3>2. CASE k = 1
      <4>1. On(x, v) /\ x.length = 0
        BY <2>4, <2>7, <3>2
      <4>2. Due(v, 1) = v + 1
        BY <3>1
      <4>3. y.length = 1 /\ At(y, v + 1)
        BY <2>5, <4>1
      <4> QED
        BY <3>1, <3>2, <4>2, <4>3
    <3>3. CASE k # 1
      <4>1. At(x, Due(v, k - 1)) /\ x.length = Due(v, k - 1) - v /\ x.length > 0
        <5>1. k - 1 # 0
          BY <3>3
        <5> QED
          BY <2>4, <2>7, <5>1 DEF Pages
      <4>2. /\ LinesOf(x.text) \in Nat /\ LinesOf(x.text) >= 1 /\ Due(v, k - 1) \in 0..LinesOf(x.text) + 1
            /\ x.end <=> Due(v, k - 1) = LinesOf(x.text) + 1
            /\ x.text \in Texts /\ Terminated(x.text) /\ x.page \in LineStarts(x.text)
        BY <2>4, <4>1, AtLine
      <4>3. CASE x.end
        <5>1. Due(v, k) = Due(v, k - 1)
          BY <3>1, <4>2, <4>3
        <5> QED
          BY <2>5, <4>1, <4>3, <5>1
      <4>4. CASE ~x.end
        <5>1. Due(v, k) = Due(v, k - 1) + 1
          BY <3>1, <4>2, <4>4
        <5>2. At(y, Due(v, k - 1) + 1) /\ y.length = x.length + 1
          BY <2>5, <4>1, <4>4
        <5> QED
          BY <3>1, <4>1, <4>2, <5>1, <5>2
      <4> QED
        BY <4>3, <4>4
    <3> QED
      BY <3>2, <3>3
  <2> QED
    BY <2>1, <2>3, <2>5, <2>6, <2>7
<1>6. n \in T
  <2> HIDE DEF T
  <2> QED
    BY <1>4, <1>5, Upwards
<1> QED
  BY <1>0, <1>2, <1>6 DEF PageEnd

-----------------------------------------------------------------------------
(* The keys of a search *)

LEMMA BelowFinite ==
    ASSUME NEW S, S \subseteq Nat, NEW p \in Int
    PROVE  IsFiniteSet(Below(S, p)) /\ Cardinality(Below(S, p)) \in Nat
<1>1. Below(S, p) \subseteq 0..p
  <2>1. \A q \in Below(S, p) : q \in Nat /\ q < p
    BY DEF Below
  <2> QED
    BY <2>1
<1>2. IsFiniteSet(0..p)
  BY FS_Interval
<1> QED
  BY <1>1, <1>2, FS_Subset, FS_CardinalityType

\* The first k of a set are k of them, or all.
LEMMA FirstOnes ==
    ASSUME NEW H, NEW to \in Int, H \subseteq 0..to, NEW n \in Nat \ {0},
           NEW kept, kept = {p \in H : Cardinality(Below(H, p)) < n}
    PROVE  /\ IsFiniteSet(kept) /\ IsFiniteSet(H) /\ Cardinality(kept) \in Nat
           /\ Cardinality(kept) = Min({Cardinality(H), n})
<1>1. H \subseteq Nat /\ IsFiniteSet(H) /\ Cardinality(H) \in Nat
  <2>1. IsFiniteSet(0..to)
    BY FS_Interval
  <2>2. IsFiniteSet(H)
    BY <2>1, FS_Subset
  <2>3. H \subseteq Nat
    OBVIOUS
  <2> QED
    BY <2>2, <2>3, FS_CardinalityType
<1>2. IsFiniteSet(kept) /\ Cardinality(kept) \in Nat /\ Cardinality(kept) <= Cardinality(H)
  <2>1. kept \subseteq H
    OBVIOUS
  <2> QED
    BY <1>1, <2>1, FS_Subset, FS_CardinalityType
<1>3. Cardinality(kept) <= n
  <2>1. CASE kept = {}
    <3>1. Cardinality(kept) = 0
      BY <1>2, <2>1, FS_EmptySet
    <3> QED
      BY <3>1
  <2>2. CASE kept # {}
    <3>1. PICK p \in kept : \A q \in kept : q <= p
      <4>1. kept \subseteq 0..to
        OBVIOUS
      <4> QED
        BY <2>2, <4>1, MaxOfSet
    <3>2. p \in Nat /\ p \in Int /\ Cardinality(Below(H, p)) < n /\ p \notin Below(H, p)
      BY <1>1 DEF Below
    <3>3. IsFiniteSet(Below(H, p)) /\ Cardinality(Below(H, p)) \in Nat
      BY <1>1, <3>2, BelowFinite
    <3>4. /\ IsFiniteSet(Below(H, p) \cup {p})
          /\ Cardinality(Below(H, p) \cup {p}) = Cardinality(Below(H, p)) + 1
      BY <3>2, <3>3, FS_AddElement
    <3>5. kept \subseteq Below(H, p) \cup {p}
      <4>1. \A q \in kept : q \in H /\ q \in Nat /\ (q < p \/ q = p)
        BY <1>1, <3>1, <3>2
      <4> QED
        BY <4>1 DEF Below
    <3>6. Cardinality(kept) <= Cardinality(Below(H, p) \cup {p})
      BY <3>4, <3>5, FS_Subset
    <3> QED
      BY <1>2, <3>2, <3>3, <3>4, <3>6
  <2> QED
    BY <2>1, <2>2
<1>4. kept # H => Cardinality(kept) >= n
  <2> SUFFICES ASSUME H \ kept # {} PROVE Cardinality(kept) >= n
    OBVIOUS
  <2>1. PICK p \in H \ kept : \A q \in H \ kept : p <= q
    <3> DEFINE W == H \ kept
    <3>1. W \subseteq Nat /\ W # {}
      BY <1>1
    <3> HIDE DEF W
    <3>2. \E p \in W : \A q \in W : p <= q
      BY <3>1, LeastNumber
    <3> QED
      BY <3>2 DEF W
  <2>2. p \in H /\ p \in Nat /\ p \in Int /\ ~(Cardinality(Below(H, p)) < n)
    BY <1>1, <2>1
  <2>3. IsFiniteSet(Below(H, p)) /\ Cardinality(Below(H, p)) \in Nat
    BY <1>1, <2>2, BelowFinite
  <2>4. Below(H, p) \subseteq kept
    <3>1. \A q \in Below(H, p) : q \in H /\ q \in Nat /\ ~(p <= q)
      BY <1>1, <2>2 DEF Below
    <3> QED
      BY <2>1, <3>1
  <2>5. Cardinality(Below(H, p)) <= Cardinality(kept)
    BY <1>2, <2>4, FS_Subset
  <2> QED
    BY <1>2, <2>2, <2>3, <2>5
<1>5. Min({Cardinality(H), n}) = IF Cardinality(H) <= n THEN Cardinality(H) ELSE n
  BY <1>1, MinOfTwo
<1> QED
  BY <1>1, <1>2, <1>3, <1>4, <1>5

Onscreen(t, from, to) == {p \in t.jumps : p >= from /\ p < to}
WithKey(t, from, to) ==
    {p \in Onscreen(t, from, to) : Cardinality(Below(Onscreen(t, from, to), p)) < JumpKeys}

\* No two of the results on the screen have the same key.
LEMMA KeysDiffer ==
    ASSUME NEW t, t.jumps \subseteq Nat, NEW from \in Nat, NEW to \in Int,
           NEW p \in WithKey(t, from, to), NEW q \in WithKey(t, from, to), KeyOf(t, p) = KeyOf(t, q), p < q
    PROVE  FALSE
<1> DEFINE here == Onscreen(t, from, to)
           D == {r \in t.jumps : p <= r /\ r < q}
<1>0. /\ p \in Nat /\ q \in Nat /\ p \in t.jumps /\ q \in t.jumps /\ p >= from /\ q < to
      /\ Cardinality(Below(here, q)) < JumpKeys /\ JumpKeys \in Nat \ {0} /\ here \subseteq Nat
  BY TextAssumption DEF WithKey, Onscreen
<1>1. /\ IsFiniteSet(Below(t.jumps, p)) /\ Cardinality(Below(t.jumps, p)) \in Nat
      /\ IsFiniteSet(Below(here, q)) /\ Cardinality(Below(here, q)) \in Nat
  BY <1>0, BelowFinite
<1>2. D \subseteq Below(here, q) /\ p \in D /\ D \cap Below(t.jumps, p) = {}
  BY <1>0 DEF Onscreen, Below
<1>3. IsFiniteSet(D) /\ Cardinality(D) \in Nat /\ Cardinality(D) <= Cardinality(Below(here, q)) /\ Cardinality(D) # 0
  <2> HIDE DEF D
  <2>1. IsFiniteSet(D) /\ Cardinality(D) <= Cardinality(Below(here, q))
    BY <1>1, <1>2, FS_Subset
  <2> QED
    BY <1>2, <2>1, FS_CardinalityType, FS_EmptySet
<1>4. Below(t.jumps, q) = Below(t.jumps, p) \cup D
  BY <1>0 DEF Below
<1>5. Cardinality(Below(t.jumps, q)) = Cardinality(Below(t.jumps, p)) + Cardinality(D)
  <2> HIDE DEF D
  <2>1. Cardinality(Below(t.jumps, p) \cup D)
          = Cardinality(Below(t.jumps, p)) + Cardinality(D) - Cardinality(Below(t.jumps, p) \cap D)
    BY <1>1, <1>3, FS_Union
  <2>2. Below(t.jumps, p) \cap D = {}
    BY <1>2
  <2>3. Cardinality(Below(t.jumps, p) \cap D) = 0
    BY <2>2, FS_EmptySet
  <2>4. PICK a \in Nat, d \in Nat : a = Cardinality(Below(t.jumps, p)) /\ d = Cardinality(D)
    BY <1>1, <1>3
  <2>5. Cardinality(Below(t.jumps, q)) = a + d - 0
    BY <1>4, <2>1, <2>3, <2>4
  <2> QED
    BY <2>4, <2>5
<1> HIDE DEF D, here
<1>6. PICK a \in Nat, b \in Nat : a = Cardinality(Below(t.jumps, p)) /\ b = Cardinality(Below(t.jumps, q))
  BY <1>1, <1>3, <1>5
<1>7. PICK d \in Nat : d = Cardinality(D) /\ d < JumpKeys /\ d >= 1 /\ b = a + d
  BY <1>0, <1>1, <1>3, <1>5, <1>6
<1>8. a % JumpKeys = b % JumpKeys
  <2>1. (a % JumpKeys) + 1 = (b % JumpKeys) + 1 /\ a % JumpKeys \in Nat /\ b % JumpKeys \in Nat
    BY <1>0, <1>6, Division DEF KeyOf
  <2> QED
    BY <2>1
<1>9. b - a >= JumpKeys
  BY <1>0, <1>7, <1>8, SameRemainder
<1> QED
  BY <1>0, <1>7, <1>9

\* KeysFit of a state.
Fit(t) ==
    LET seen == {p \in t.jumps : p \in t.top..t.page - 1}
    IN  /\ \A k \in t.keys : k.target \in seen /\ t.label[k.target] = k.key
        /\ \A k, l \in t.keys : k.key = l.key => k = l
        /\ \A p \in seen : t.label[p] # 0 => \E k \in t.keys : k.target = p
        /\ Cardinality(t.keys) = Min({Cardinality(seen), JumpKeys})

\* Only the marks differ.
Annotated(t, u) ==
    /\ u.open = t.open /\ u.text = t.text /\ u.h = t.h /\ u.page = t.page /\ u.begin = t.begin
    /\ u.end = t.end /\ u.length = t.length /\ u.hscroll = t.hscroll /\ u.top = t.top
    /\ u.jumps = t.jumps /\ u.vscroll = t.vscroll /\ u.line = t.line
WithMarks(t, label, keys) == [t EXCEPT !.label = label, !.keys = keys]
LEMMA WithMarksParts ==
    ASSUME NEW t \in Pages, NEW label \in Labels, NEW keys \in SUBSET [key : Int, target : Int],
           NEW u, u = WithMarks(t, label, keys)
    PROVE  u \in Pages /\ Annotated(t, u) /\ u.label = label /\ u.keys = keys
  BY DEF Pages, Annotated, WithMarks

MarkOf(t, from, to, p) ==
    IF p \in WithKey(t, from, to) THEN KeyOf(t, p) ELSE IF p \in Onscreen(t, from, to) THEN 0 ELSE t.label[p]
KeysOf(t, from, to) == {[key |-> KeyOf(t, p), target |-> p] : p \in WithKey(t, from, to)}

LEMMA KeyType ==
    ASSUME NEW t, t.jumps \subseteq Nat, NEW p \in Int PROVE KeyOf(t, p) \in Int /\ KeyOf(t, p) # 0
<1>1. PICK a \in Nat : a = Cardinality(Below(t.jumps, p))
  BY BelowFinite
<1>2. a % JumpKeys \in Nat
  BY TextAssumption, Division
<1> QED
  BY <1>1, <1>2 DEF KeyOf

\* There are as many keys as results that have one.
LEMMA KeysCounted ==
    ASSUME NEW t, t.jumps \subseteq Nat, NEW from \in Nat, NEW to \in Int
    PROVE  Cardinality(KeysOf(t, from, to)) = Min({Cardinality(Onscreen(t, from, to)), JumpKeys})
<1> DEFINE here == Onscreen(t, from, to)
           kept == WithKey(t, from, to)
           keys == KeysOf(t, from, to)
<1>1. here \subseteq 0..to /\ JumpKeys \in Nat \ {0} /\ kept = {p \in here : Cardinality(Below(here, p)) < JumpKeys}
  <2>1. \A p \in here : p \in Nat /\ p < to
    BY DEF Onscreen
  <2> QED
    BY <2>1, TextAssumption DEF WithKey
<1>2. IsFiniteSet(kept) /\ Cardinality(kept) \in Nat /\ Cardinality(kept) = Min({Cardinality(here), JumpKeys})
  <2> HIDE DEF here, kept
  <2> QED
    BY <1>1, FirstOnes
<1>3. PICK f : f = [p \in kept |-> [key |-> KeyOf(t, p), target |-> p]]
  OBVIOUS
<1>4. f \in Bijection(kept, keys)
  <2>1. f \in [kept -> keys]
    BY <1>3 DEF KeysOf
  <2>2. \A p, q \in kept : f[p] = f[q] => p = q
    <3>1. \A p \in kept : f[p].target = p
      BY <1>3
    <3> QED
      BY <3>1
  <2>3. \A k \in keys : \E p \in kept : f[p] = k
    BY <1>3 DEF KeysOf
  <2> HIDE DEF kept, keys
  <2> QED
    BY <2>1, <2>2, <2>3, Zenon DEF Bijection, Injection, Surjection, IsInjective
<1>5. Cardinality(kept) = Cardinality(keys)
  <2> HIDE DEF kept, keys
  <2>1. ExistsBijection(kept, keys)
    BY <1>4 DEF ExistsBijection
  <2> QED
    BY <1>2, <2>1, FS_Bijection
<1> QED
  BY <1>2, <1>5

LEMMA UpdateTextFits ==
    ASSUME NEW t \in Pages, t.label \in [t.jumps -> Int], NEW from \in Nat, NEW to \in Nat,
           NEW u, u = UpdateText(t, from, to)
    PROVE  /\ u \in Pages /\ Annotated(t, u) /\ u.label \in [u.jumps -> Int]
           /\ \A w : /\ w.jumps = u.jumps /\ w.label = u.label /\ w.keys = u.keys
                    /\ w.top = from /\ w.page = to
                    => Fit(w)
<1> DEFINE here == Onscreen(t, from, to)
           kept == WithKey(t, from, to)
<1>1. t.jumps \subseteq Nat /\ here \subseteq t.jumps /\ kept \subseteq here
  BY DEF Pages, Onscreen, WithKey
<1>2. \A p \in t.jumps : KeyOf(t, p) \in Int /\ KeyOf(t, p) # 0 /\ p \in Int
  BY <1>1, KeyType
<1>3. PICK label : label = [p \in t.jumps |-> MarkOf(t, from, to, p)]
  OBVIOUS
<1>4. PICK keys : keys = KeysOf(t, from, to)
  OBVIOUS
<1>5. label \in [t.jumps -> Int] /\ label \in Labels
  <2>1. \A p \in t.jumps : MarkOf(t, from, to, p) \in Int
    BY <1>2 DEF MarkOf
  <2>2. t.jumps \in SUBSET Int
    BY <1>1
  <2>3. label \in [t.jumps -> Int]
    BY <1>3, <2>1
  <2> QED
    BY <2>2, <2>3 DEF Labels
<1>6. keys \in SUBSET [key : Int, target : Int]
  BY <1>1, <1>2, <1>4 DEF KeysOf
<1>7. u = WithMarks(t, label, keys)
  <2>1. u = [t EXCEPT
           !.label = [p \in t.jumps |-> IF p \in kept THEN KeyOf(t, p) ELSE IF p \in here THEN 0 ELSE t.label[p]],
           !.keys = {[key |-> KeyOf(t, p), target |-> p] : p \in kept}]
    BY DEF UpdateText, Onscreen, WithKey, Pages
  <2>2. label = [p \in t.jumps |-> IF p \in kept THEN KeyOf(t, p) ELSE IF p \in here THEN 0 ELSE t.label[p]]
    BY <1>3 DEF MarkOf
  <2>3. keys = {[key |-> KeyOf(t, p), target |-> p] : p \in kept}
    BY <1>4 DEF KeysOf
  <2> HIDE DEF kept, here
  <2> QED
    BY <2>1, <2>2, <2>3 DEF WithMarks
<1>8. u \in Pages /\ Annotated(t, u) /\ u.label = label /\ u.keys = keys
  BY <1>5, <1>6, <1>7, WithMarksParts
<1>9. ASSUME NEW w, w.jumps = t.jumps, w.label = label, w.keys = keys, w.top = from, w.page = to
      PROVE  Fit(w)
  <2>1. {p \in w.jumps : p \in w.top..w.page - 1} = here
    <3>1. \A p \in t.jumps : p \in from..to - 1 <=> p >= from /\ p < to
      BY <1>1
    <3> QED
      BY <1>9, <3>1 DEF Onscreen
  <2>2. \A k \in keys : \E p \in kept : k = [key |-> KeyOf(t, p), target |-> p]
    BY <1>4 DEF KeysOf
  <2>3. \A p \in kept : label[p] = KeyOf(t, p)
    BY <1>1, <1>3 DEF MarkOf
  <2>4. \A k \in keys : k.target \in here /\ label[k.target] = k.key
    BY <1>1, <2>2, <2>3
  <2>5. ASSUME NEW k \in keys, NEW l \in keys, k.key = l.key PROVE k = l
    <3>1. PICK p \in kept : k = [key |-> KeyOf(t, p), target |-> p]
      BY <2>2
    <3>2. PICK q \in kept : l = [key |-> KeyOf(t, q), target |-> q]
      BY <2>2
    <3>3. KeyOf(t, p) = KeyOf(t, q) /\ p \in Int /\ q \in Int /\ to \in Int
      BY <1>1, <1>2, <2>5, <3>1, <3>2
    <3>4. ~(p < q)
      BY <1>1, <3>3, KeysDiffer
    <3>5. ~(q < p)
      BY <1>1, <3>3, KeysDiffer
    <3> QED
      BY <3>1, <3>2, <3>3, <3>4, <3>5
  <2>6. ASSUME NEW p \in here, label[p] # 0 PROVE \E k \in keys : k.target = p
    <3>1. p \in kept
      BY <1>1, <1>3, <2>6 DEF MarkOf
    <3>2. [key |-> KeyOf(t, p), target |-> p] \in keys
      BY <1>4, <3>1 DEF KeysOf
    <3> QED
      BY <3>2
  <2>7. Cardinality(keys) = Min({Cardinality(here), JumpKeys})
    BY <1>1, <1>4, KeysCounted
  <2> HIDE DEF here, kept
  <2> QED
    BY <1>9, <2>1, <2>4, <2>5, <2>6, <2>7 DEF Fit
<1> QED
  BY <1>5, <1>8, <1>9 DEF Annotated

-----------------------------------------------------------------------------
(* What is on the screen *)

\* The page on the screen begins with the line that is due, the pointer is
\* behind its last line, and length is the number of lines printed.
Followed(t) ==
    Terminated(t.text) =>
        /\ t.line \in 0..LinesOf(t.text)
        /\ t.top \in LineStarts(t.text) /\ LinesBefore(t.text, t.top) = t.line
        /\ t.begin <=> t.line = 0
        /\ At(t, PageEnd(t, t.line)) /\ t.length = PageEnd(t, t.line) - t.line

Held(t) ==
    /\ t \in Pages
    /\ t.open = "no" => t.page = 0 /\ ~t.end
    /\ t.open \in {"text", "search"} => t.text \in Texts /\ t.h >= 1 /\ t.length >= 1 /\ Followed(t)
    /\ t.open = "search" => Terminated(t.text) /\ t.label \in [t.jumps -> Int] /\ Fit(t)
    /\ t.open = "scroll" => t.text \in Texts /\ t.top \in 0..Pad(t) - t.h
TextInv == Held(tb)

\* The page that starts with a line ends where the lines say, wherever the
\* state it is printed from came from.
LEMMA SamePlace ==
    ASSUME NEW t \in Pages, NEW u \in Pages, u.text = t.text, NEW v, At(t, v), At(u, v)
    PROVE  t.page = u.page
<1>1. /\ LinesOf(t.text) \in Nat /\ LinesOf(t.text) >= 1 /\ v \in 0..LinesOf(t.text) + 1
      /\ t.end <=> v = LinesOf(t.text) + 1
      /\ t.text \in Texts /\ Terminated(t.text) /\ t.page \in LineStarts(t.text)
  BY AtLine
<1>2. /\ LinesOf(u.text) \in Nat /\ LinesOf(u.text) >= 1 /\ v \in 0..LinesOf(u.text) + 1
      /\ u.end <=> v = LinesOf(u.text) + 1
      /\ u.text \in Texts /\ Terminated(u.text) /\ u.page \in LineStarts(u.text)
  BY AtLine
<1>3. CASE v = LinesOf(t.text) + 1
  BY <1>1, <1>2, <1>3 DEF At
<1>4. CASE v # LinesOf(t.text) + 1
  <2>1. v = LinesBefore(t.text, t.page) /\ v = LinesBefore(t.text, u.page)
    BY <1>1, <1>2, <1>4 DEF At, On
  <2>2. Size(t.text) \in Nat /\ t.page \in Nat /\ u.page \in Nat
    BY PageText DEF Pages
  <2>3. ~(t.page < u.page)
    <3> SUFFICES ASSUME t.page < u.page PROVE FALSE
      OBVIOUS
    <3>1. LinesBefore(t.text, t.page) < LinesBefore(t.text, u.page)
      BY <1>1, <1>2, <2>2, LinesInOrder
    <3> QED
      BY <1>1, <2>1, <3>1
  <2>4. ~(u.page < t.page)
    <3> SUFFICES ASSUME u.page < t.page PROVE FALSE
      OBVIOUS
    <3>1. LinesBefore(t.text, u.page) < LinesBefore(t.text, t.page)
      BY <1>1, <1>2, <2>2, LinesInOrder
    <3> QED
      BY <1>1, <2>1, <3>1
  <2> QED
    BY <2>2, <2>3, <2>4
<1> QED
  BY <1>3, <1>4

LEMMA BeforeEnd ==
    ASSUME NEW t \in Pages, NEW v
    PROVE  /\ At(t, v) /\ v # LinesOf(t.text) + 1 => On(t, v)
           /\ On(t, v) => v \in 0..LinesOf(t.text) /\ LinesOf(t.text) \in Nat
<1>1. ASSUME At(t, v), v # LinesOf(t.text) + 1 PROVE On(t, v)
  BY <1>1 DEF At
<1>2. ASSUME On(t, v) PROVE v \in 0..LinesOf(t.text) /\ LinesOf(t.text) \in Nat
  <2>1. /\ LinesOf(t.text) \in Nat /\ LinesBefore(t.text, t.page) <= LinesOf(t.text)
    BY <1>2, TextEnds DEF On
  <2>2. v = LinesBefore(t.text, t.page) /\ v \in Nat
    BY <1>2, LineNumber DEF On, Pages
  <2> QED
    BY <2>1, <2>2
<1> QED
  BY <1>1, <1>2

\* The same results, marked in the same way.
SameMarks(m, u) == u.text = m.text /\ u.jumps = m.jumps /\ u.label = m.label /\ u.keys = m.keys

\* In a search the page is pulled up until it ends with the line behind the
\* last, and the results on it are marked.
LEMMA SearchMarked ==
    ASSUME NEW t \in Pages, t.open = "search", t.h >= 1, t.label \in [t.jumps -> Int], NEW v, On(t, v),
           NEW m, m = Marked(t), NEW n, n = LinesOf(t.text),
           NEW w, w = IF v + t.h <= n + 1 THEN v ELSE IF t.h <= n + 1 THEN n + 1 - t.h ELSE 0
    PROVE  /\ m \in Pages /\ m.open = t.open /\ m.text = t.text /\ m.h = t.h /\ m.label \in [m.jumps -> Int]
           /\ On(m, w) /\ (m.begin <=> w = 0)
           /\ \A u \in Pages : /\ SameMarks(m, u) /\ u.top = m.page /\ At(u, PageEnd(m, w))
                              => Fit(u)
<1>0. PICK h \in Nat : h = t.h /\ h >= 1
  BY DEF Pages
<1>1. v \in Nat /\ v <= n /\ n \in Nat
  BY BeforeEnd
<1>2. PICK ahead : ahead = GetLines(t, h)
  OBVIOUS
<1>3. PICK V \in Nat : V = IF v + h <= n + 1 THEN v + h ELSE n + 1
  BY <1>0, <1>1
<1>4. ahead \in Pages /\ Walked(t, ahead) /\ At(ahead, V)
  <2>1. /\ ahead \in Pages /\ Walked(t, ahead) /\ ahead.begin = t.begin
        /\ \A x : At(t, x) => At(ahead, IF x + h <= LinesOf(t.text) + 1 THEN x + h ELSE LinesOf(t.text) + 1)
        /\ \A x : On(t, x) /\ h > 0 =>
              At(ahead, IF x + h <= LinesOf(t.text) + 1 THEN x + h ELSE LinesOf(t.text) + 1)
    BY <1>2, GetLinesFollows
  <2> QED
    BY <1>0, <1>3, <2>1
<1>5. PICK back : back = BackLines(ahead, h)
  OBVIOUS
<1>6. /\ back \in Pages /\ Walked(ahead, back)
      /\ \A x : At(ahead, x) => At(back, IF h <= x THEN x - h ELSE 0) /\ (back.begin <=> h >= 1 /\ x <= h)
  BY <1>4, <1>5, BackLinesFollows
<1>7. w = (IF h <= V THEN V - h ELSE 0) /\ (w = 0 <=> V <= h) /\ w \in 0..n
  BY <1>0, <1>1, <1>3
<1>8. At(back, w) /\ (back.begin <=> w = 0) /\ back.text = t.text /\ back.label \in [back.jumps -> Int]
  BY <1>0, <1>4, <1>6, <1>7 DEF Walked, Redrawn
<1>9. On(back, w)
  BY <1>1, <1>6, <1>7, <1>8, BeforeEnd
<1>10. PICK from \in Nat, to \in Nat : from = back.page /\ to = ahead.page
  BY <1>4, <1>6 DEF Pages
<1>11. m = UpdateText(back, from, to)
  BY <1>0, <1>2, <1>5, <1>10 DEF Marked, Ahead
<1>12. /\ m \in Pages /\ Annotated(back, m) /\ m.label \in [m.jumps -> Int]
       /\ \A x : /\ x.jumps = m.jumps /\ x.label = m.label /\ x.keys = m.keys
                /\ x.top = from /\ x.page = to
                => Fit(x)
  BY <1>6, <1>8, <1>11, UpdateTextFits
<1>13. m.open = t.open /\ m.text = t.text /\ m.h = t.h
  BY <1>4, <1>6, <1>12 DEF Annotated, Walked, Redrawn
<1>14. On(m, w) /\ (m.begin <=> w = 0)
  BY <1>8, <1>9, <1>12 DEF On, Annotated
<1>15. ASSUME NEW u \in Pages, SameMarks(m, u), u.top = m.page, At(u, PageEnd(m, w)) PROVE Fit(u)
  <2>1. PageEnd(m, w) = V
    BY <1>0, <1>1, <1>3, <1>7, <1>13 DEF PageEnd
  <2>2. u.text = ahead.text
    BY <1>4, <1>13, <1>15 DEF Walked, Redrawn, SameMarks
  <2>3. u.page = to
    BY <1>4, <1>10, <1>15, <2>1, <2>2, SamePlace
  <2>4. u.top = from
    BY <1>10, <1>12, <1>15 DEF Annotated
  <2> QED
    BY <1>12, <1>15, <2>3, <2>4 DEF SameMarks
<1> QED
  BY <1>12, <1>13, <1>14, <1>15

WithLine(t, line) == [t EXCEPT !.line = line]
LEMMA WithLineParts ==
    ASSUME NEW t \in Pages, NEW line \in Int, NEW u, u = WithLine(t, line)
    PROVE  /\ u \in Pages /\ u.line = line /\ u.open = t.open /\ u.text = t.text /\ u.h = t.h
           /\ u.page = t.page /\ u.begin = t.begin /\ u.end = t.end /\ u.length = t.length
           /\ u.top = t.top /\ u.jumps = t.jumps /\ u.label = t.label /\ u.keys = t.keys
  BY DEF Pages, WithLine

\* A state from which the page is printed that begins with the line due.
Ready(t, line) ==
    /\ t.open \in {"text", "search"} /\ t.text \in Texts /\ t.h >= 1
    /\ Terminated(t.text) =>
          \E v : /\ On(t, v)
                 /\ t.open = "text" => v = line /\ (t.begin <=> v = 0)
                 /\ t.open = "search" => v = line \/ (v = LinesOf(t.text) /\ line >= v)
    /\ t.open = "search" => Terminated(t.text) /\ t.label \in [t.jumps -> Int]

\* What is marked is where the page is expected.
LEMMA MarkedReady ==
    ASSUME NEW t \in Pages, NEW line \in Int, Ready(t, line), NEW m, m = Marked(t),
           NEW e, e = Expected(t, line)
    PROVE  /\ m \in Pages /\ m.open = t.open /\ m.text = t.text /\ m.h = t.h /\ e \in Int
           /\ m.open = "search" => m.label \in [m.jumps -> Int]
           /\ Terminated(t.text) => On(m, e) /\ (m.begin <=> e = 0)
           /\ m.open = "search" =>
                \A u \in Pages : SameMarks(m, u) /\ u.top = m.page /\ At(u, PageEnd(m, e)) => Fit(u)
<1>0. PICK h \in Nat : h = t.h /\ h >= 1
  BY DEF Pages, Ready
<1>1. CASE ~Terminated(t.text)
  <2>1. t.open # "search" /\ m = t /\ e = 0
    BY <1>1 DEF Ready, Marked, Expected
  <2> QED
    BY <1>1, <2>1
<1>2. CASE Terminated(t.text) /\ t.open = "text"
  <2>1. m = t
    BY <1>2 DEF Marked
  <2>2. e = line
    BY <1>2 DEF Expected
  <2>3. On(t, e) /\ (t.begin <=> e = 0)
    BY <1>2, <2>2 DEF Ready
  <2> QED
    BY <1>2, <2>1, <2>2, <2>3
<1>3. CASE Terminated(t.text) /\ t.open = "search"
  <2>1. PICK v : On(t, v) /\ (v = line \/ (v = LinesOf(t.text) /\ line >= v))
    BY <1>3 DEF Ready
  <2>2. PICK n \in Nat : n = LinesOf(t.text) /\ v \in 0..n
    BY <2>1, BeforeEnd
  <2>3. PICK w : w = IF v + h <= n + 1 THEN v ELSE IF h <= n + 1 THEN n + 1 - h ELSE 0
    OBVIOUS
  <2>4. e = w
    <3>1. Max({0, n + 1 - h}) = IF 0 >= n + 1 - h THEN 0 ELSE n + 1 - h
      BY <2>2, MaxOfTwo
    <3>2. e = IF line + h > n THEN Max({0, n + 1 - h}) ELSE line
      BY <1>0, <1>3, <2>2 DEF Expected
    <3> QED
      BY <1>0, <2>1, <2>2, <2>3, <3>1, <3>2
  <2>5. t.label \in [t.jumps -> Int] /\ t.h >= 1 /\ t.open = "search"
    BY <1>3 DEF Ready
  <2>6. w = IF v + t.h <= n + 1 THEN v ELSE IF t.h <= n + 1 THEN n + 1 - t.h ELSE 0
    BY <1>0, <2>3
  <2>7. /\ m \in Pages /\ m.open = t.open /\ m.text = t.text /\ m.h = t.h /\ m.label \in [m.jumps -> Int]
        /\ On(m, w) /\ (m.begin <=> w = 0)
        /\ \A u \in Pages : /\ SameMarks(m, u) /\ u.top = m.page /\ At(u, PageEnd(m, w))
                           => Fit(u)
    BY <2>1, <2>2, <2>5, <2>6, SearchMarked
  <2>8. w \in Int
    BY <2>2, <2>3
  <2> QED
    BY <2>4, <2>7, <2>8
<1> QED
  BY <1>1, <1>2, <1>3 DEF Ready

LEMMA ShowHolds ==
    ASSUME NEW t \in Pages, NEW line \in Int, Ready(t, line),
           NEW u, u = [PrintPage(Marked(t)) EXCEPT !.line = Expected(t, line)]
    PROVE  Held(u)
<1>1. PICK m : m = Marked(t)
  OBVIOUS
<1>2. PICK e : e = Expected(t, line)
  OBVIOUS
<1>3. /\ m \in Pages /\ m.open = t.open /\ m.text = t.text /\ m.h = t.h /\ e \in Int
      /\ m.open = "search" => m.label \in [m.jumps -> Int]
      /\ Terminated(t.text) => On(m, e) /\ (m.begin <=> e = 0)
      /\ m.open = "search" =>
            \A x \in Pages : SameMarks(m, x) /\ x.top = m.page /\ At(x, PageEnd(m, e)) => Fit(x)
  BY <1>1, <1>2, MarkedReady
<1>4. PICK p : p = PrintPage(m)
  OBVIOUS
<1>5. m.h >= 1 /\ m.open \in {"text", "search"} /\ m.text \in Texts
  BY <1>3 DEF Ready
<1>6. /\ p \in Pages /\ Redrawn(m, p) /\ p.top = m.page /\ p.begin = m.begin /\ p.length >= 1
      /\ \A v : On(m, v) => At(p, PageEnd(m, v)) /\ p.length = PageEnd(m, v) - v
  BY <1>3, <1>4, <1>5, PrintPageFollows
<1>7. u = WithLine(p, e)
  BY <1>1, <1>2, <1>4 DEF WithLine
<1>8. /\ u \in Pages /\ u.line = e /\ u.open = p.open /\ u.text = p.text /\ u.h = p.h
      /\ u.page = p.page /\ u.begin = p.begin /\ u.end = p.end /\ u.length = p.length
      /\ u.top = p.top /\ u.jumps = p.jumps /\ u.label = p.label /\ u.keys = p.keys
  <2>1. p \in Pages /\ e \in Int
    BY <1>3, <1>6
  <2> QED
    BY ONLY <1>7, <2>1, WithLineParts
<1>9. ASSUME Terminated(u.text)
      PROVE  /\ u.line \in 0..LinesOf(u.text)
             /\ u.top \in LineStarts(u.text) /\ LinesBefore(u.text, u.top) = u.line
             /\ u.begin <=> u.line = 0
             /\ At(u, PageEnd(u, u.line)) /\ u.length = PageEnd(u, u.line) - u.line
  <2>1. On(m, e) /\ (m.begin <=> e = 0) /\ u.text = m.text /\ u.h = m.h
    BY <1>3, <1>6, <1>8, <1>9 DEF Redrawn
  <2>2. e \in 0..LinesOf(u.text)
    BY <1>3, <2>1, BeforeEnd
  <2>3. At(p, PageEnd(m, e)) /\ p.length = PageEnd(m, e) - e
    BY <1>6, <2>1
  <2>4. PageEnd(u, u.line) = PageEnd(m, e)
    BY <1>8, <2>1 DEF PageEnd
  <2>5. At(u, PageEnd(m, e))
    BY <1>8, <2>3 DEF At, On
  <2> QED
    BY <1>6, <1>8, <2>1, <2>2, <2>3, <2>4, <2>5 DEF On
<1>10. ASSUME u.open = "search" PROVE Terminated(u.text) /\ u.label \in [u.jumps -> Int] /\ Fit(u)
  <2>1. m.open = "search" /\ Terminated(t.text) /\ u.text = t.text
    BY <1>3, <1>6, <1>8, <1>10 DEF Redrawn, Ready
  <2>2. u.label \in [u.jumps -> Int]
    BY <1>3, <1>6, <1>8, <2>1 DEF Redrawn
  <2>3. SameMarks(m, u) /\ u.top = m.page
    BY <1>6, <1>8 DEF Redrawn, SameMarks
  <2>4. PageEnd(u, u.line) = PageEnd(m, e)
    BY <1>6, <1>8 DEF PageEnd, Redrawn
  <2>5. At(u, PageEnd(m, e))
    BY <1>9, <2>1, <2>4
  <2>6. Fit(u)
    BY <1>3, <1>8, <2>1, <2>3, <2>5
  <2> QED
    BY <2>1, <2>2, <2>6
<1>11. u.open \in {"text", "search"} /\ u.text \in Texts /\ u.h >= 1 /\ u.length >= 1
  BY <1>5, <1>6, <1>8 DEF Redrawn
<1> QED
  BY <1>8, <1>9, <1>10, <1>11 DEF Held, Followed

-----------------------------------------------------------------------------
(* The keys *)

\* What Held says of a page that is read, in a text that ends with a newline.
LEMMA Reads ==
    ASSUME NEW t, Held(t), t.open \in {"text", "search"}
    PROVE  /\ t \in Pages /\ t.text \in Texts /\ t.h \in Nat /\ t.h >= 1 /\ t.length \in Nat /\ t.length >= 1
           /\ t.line \in Int
           /\ t.open = "search" => Terminated(t.text) /\ t.label \in [t.jumps -> Int]
           /\ Terminated(t.text) =>
                /\ LinesOf(t.text) \in Nat /\ t.line \in 0..LinesOf(t.text) /\ (t.begin <=> t.line = 0)
                /\ At(t, t.line + t.length)
                /\ t.line + t.length
                     = IF t.line + t.h <= LinesOf(t.text) + 1 THEN t.line + t.h ELSE LinesOf(t.text) + 1
                /\ t.end <=> t.line + t.length = LinesOf(t.text) + 1
<1>1. /\ t \in Pages /\ t.text \in Texts /\ t.h \in Nat /\ t.h >= 1 /\ t.length \in Nat /\ t.length >= 1
      /\ t.line \in Int
      /\ t.open = "search" => Terminated(t.text) /\ t.label \in [t.jumps -> Int]
  BY DEF Held, Pages
<1>2. ASSUME Terminated(t.text)
      PROVE  /\ LinesOf(t.text) \in Nat /\ t.line \in 0..LinesOf(t.text) /\ (t.begin <=> t.line = 0)
             /\ At(t, t.line + t.length)
             /\ t.line + t.length
                  = IF t.line + t.h <= LinesOf(t.text) + 1 THEN t.line + t.h ELSE LinesOf(t.text) + 1
             /\ t.end <=> t.line + t.length = LinesOf(t.text) + 1
  <2>1. /\ t.line \in 0..LinesOf(t.text) /\ (t.begin <=> t.line = 0)
        /\ At(t, PageEnd(t, t.line)) /\ t.length = PageEnd(t, t.line) - t.line
    BY <1>2 DEF Held, Followed
  <2>2. /\ LinesOf(t.text) \in Nat /\ (t.end <=> PageEnd(t, t.line) = LinesOf(t.text) + 1)
    BY <1>1, <2>1, AtLine
  <2>3. PICK k \in Int : k = PageEnd(t, t.line)
    BY <1>1, <2>2 DEF PageEnd
  <2>4. t.line + t.length = k
    BY <1>1, <2>1, <2>3
  <2> QED
    BY <2>1, <2>2, <2>3, <2>4 DEF PageEnd
<1> QED
  BY <1>1, <1>2

\* Back from the end of the page, by at least the line behind it.
LEMMA BackReady ==
    ASSUME NEW t \in Pages, t.open \in {"text", "search"}, t.text \in Texts, t.h >= 1,
           t.open = "search" => Terminated(t.text) /\ t.label \in [t.jumps -> Int],
           NEW n \in Nat, NEW line \in Int,
           Terminated(t.text) =>
               \E v \in Nat : /\ At(t, v) /\ line = (IF n <= v THEN v - n ELSE 0) /\ line <= LinesOf(t.text)
                             /\ (line = 0 <=> n >= 1 /\ v <= n),
           NEW u, u = BackLines(t, n)
    PROVE  u \in Pages /\ Ready(u, line)
<1>1. /\ u \in Pages /\ Walked(t, u)
      /\ \A v : At(t, v) => At(u, IF n <= v THEN v - n ELSE 0) /\ (u.begin <=> n >= 1 /\ v <= n)
  BY BackLinesFollows
<1>2. /\ u.open = t.open /\ u.text = t.text /\ u.h = t.h /\ u.jumps = t.jumps /\ u.label = t.label
  BY <1>1 DEF Walked, Redrawn
<1>3. ASSUME Terminated(u.text) PROVE On(u, line) /\ (u.begin <=> line = 0)
  <2>1. PICK v \in Nat : /\ At(t, v) /\ line = (IF n <= v THEN v - n ELSE 0) /\ line <= LinesOf(t.text)
                        /\ (line = 0 <=> n >= 1 /\ v <= n)
    BY <1>2, <1>3
  <2>2. At(u, line) /\ (u.begin <=> line = 0)
    BY <1>1, <2>1
  <2>3. LinesOf(u.text) \in Nat /\ line # LinesOf(u.text) + 1
    BY <1>1, <1>2, <2>1, <2>2, AtLine
  <2> QED
    BY <1>1, <2>2, <2>3, BeforeEnd
<1> QED
  BY <1>1, <1>2, <1>3 DEF Ready

LEMMA NoTextParts ==
    ASSUME NEW v \in Nat, NEW u, u = NoText(v)
    PROVE  /\ u \in Pages /\ u.open = "no" /\ u.page = 0 /\ ~u.end /\ u.begin /\ u.top = 0 /\ u.h = 0
           /\ u.vscroll = v /\ Held(u)
<1>1. <<>> \in Labels
  <2>1. <<>> \in [{} -> Int] /\ {} \in SUBSET Int
    OBVIOUS
  <2> QED
    BY <2>1 DEF Labels
<1>2. /\ u \in Pages /\ u.open = "no" /\ u.page = 0 /\ ~u.end /\ u.begin /\ u.top = 0 /\ u.h = 0
      /\ u.vscroll = v
  BY <1>1 DEF NoText, Pages
<1> QED
  BY <1>2 DEF Held

LEMMA FirstPageHolds == ASSUME Held(tb), FirstPage PROVE Held(tb')
<1>1. /\ tb \in Pages /\ tb.text \in Texts /\ tb.h \in Nat /\ tb.h >= 1 /\ tb.open \in {"text", "search"}
      /\ tb.open = "search" => Terminated(tb.text) /\ tb.label \in [tb.jumps -> Int]
  BY Reads DEF FirstPage, Reading
<1>2. PICK on \in BOOLEAN, zero \in Nat, end \in BOOLEAN : on = TRUE /\ zero = 0 /\ end = tb.end
  BY <1>1 DEF Pages
<1>3. PICK t : t = SteppedBack(tb, zero, on, end)
  OBVIOUS
<1>4. t \in Pages /\ Walked(tb, t) /\ t.page = zero /\ t.begin = on /\ t.end = end
  <2>1. tb \in Pages
    BY <1>1
  <2> QED
    BY <1>3, <2>1, SteppedParts
<1>5. t = [tb EXCEPT !.begin = TRUE, !.page = 0]
  BY <1>1, <1>2, <1>3 DEF SteppedBack, Pages
<1>6. ASSUME Terminated(t.text) PROVE On(t, 0)
  <2>1. Size(t.text) \in Nat
    BY <1>4, PageText
  <2> QED
    BY <1>1, <1>2, <1>4, <1>6, <2>1, FirstLine, StartsAre DEF On, Walked, Redrawn
<1>7. Ready(t, 0)
  BY <1>1, <1>2, <1>4, <1>6 DEF Ready, Walked, Redrawn
<1>8. tb' = [PrintPage(Marked(t)) EXCEPT !.line = Expected(t, 0)]
  BY <1>5 DEF FirstPage, Show
<1> QED
  BY <1>4, <1>7, <1>8, ShowHolds

LEMMA LastPageHolds == ASSUME Held(tb), LastPage PROVE Held(tb')
<1>1. /\ tb \in Pages /\ tb.text \in Texts /\ tb.h \in Nat /\ tb.h >= 1 /\ tb.open \in {"text", "search"}
      /\ tb.open = "search" => Terminated(tb.text) /\ tb.label \in [tb.jumps -> Int]
  BY Reads DEF LastPage, Reading
<1>2. PICK on \in BOOLEAN, page \in Nat, begin \in BOOLEAN : on = TRUE /\ page = Len(tb.text) /\ begin = tb.begin
  BY <1>1, PageText DEF Pages
<1>3. PICK t : t = SteppedBack(tb, page, begin, on)
  OBVIOUS
<1>4. t \in Pages /\ Walked(tb, t) /\ t.page = page /\ t.begin = begin /\ t.end = on
  <2>1. tb \in Pages
    BY <1>1
  <2> QED
    BY <1>3, <2>1, SteppedParts
<1>5. t = [tb EXCEPT !.end = TRUE, !.page = Len(tb.text)]
  BY <1>1, <1>2, <1>3 DEF SteppedBack, Pages
<1>6. /\ t.open \in {"text", "search"} /\ t.text \in Texts /\ t.h >= 1 /\ t.text = tb.text
      /\ t.open = "search" => Terminated(t.text) /\ t.label \in [t.jumps -> Int]
  BY <1>1, <1>4 DEF Walked, Redrawn
<1>7. PICK n \in Nat, c \in Nat : n = tb.h /\ n >= 1 /\ c = LinesOf(tb.text)
  BY <1>1, LineNumber, PageText DEF LinesOf
<1>8. PICK line \in Int : line = Max({0, c + 1 - n}) /\ line = IF n <= c + 1 THEN c + 1 - n ELSE 0
  <2>1. Max({0, c + 1 - n}) = IF 0 >= c + 1 - n THEN 0 ELSE c + 1 - n
    BY MaxOfTwo
  <2> QED
    BY <2>1
<1>9. ASSUME Terminated(t.text)
      PROVE  \E v \in Nat : /\ At(t, v) /\ line = (IF n <= v THEN v - n ELSE 0) /\ line <= LinesOf(t.text)
                           /\ (line = 0 <=> n >= 1 /\ v <= n)
  <2>1. At(t, c + 1)
    BY <1>2, <1>4, <1>6, <1>7, <1>9 DEF At
  <2>2. /\ c + 1 \in Nat /\ line = (IF n <= c + 1 THEN c + 1 - n ELSE 0) /\ line <= c
        /\ (line = 0 <=> n >= 1 /\ c + 1 <= n)
    BY <1>7, <1>8
  <2> QED
    BY <1>6, <1>7, <2>1, <2>2
<1>10. PICK u : u = BackLines(t, n)
  OBVIOUS
<1>11. u \in Pages /\ Ready(u, line)
  BY <1>4, <1>6, <1>9, <1>10, BackReady
<1>12. tb' = [PrintPage(Marked(u)) EXCEPT !.line = Expected(u, line)]
  BY <1>5, <1>7, <1>8, <1>10 DEF LastPage, Show
<1> QED
  BY <1>11, <1>12, ShowHolds

\* The keys that go back from the end of the page to a line above it.
LEMMA BackHolds ==
    ASSUME NEW t, Held(t), t.open \in {"text", "search"}, NEW n \in Nat, NEW line \in Int,
           Terminated(t.text) =>
               /\ line = IF n <= t.line + t.length THEN t.line + t.length - n ELSE 0
               /\ line <= LinesOf(t.text) /\ (line = 0 <=> n >= 1 /\ t.line + t.length <= n),
           NEW b, b = BackLines(t, n)
    PROVE  b \in Pages /\ Walked(t, b) /\ Ready(b, line)
<1>1. /\ t \in Pages /\ t.text \in Texts /\ t.h \in Nat /\ t.h >= 1 /\ t.length \in Nat /\ t.length >= 1
      /\ t.line \in Int
      /\ t.open = "search" => Terminated(t.text) /\ t.label \in [t.jumps -> Int]
      /\ Terminated(t.text) =>
            /\ LinesOf(t.text) \in Nat /\ t.line \in 0..LinesOf(t.text) /\ (t.begin <=> t.line = 0)
            /\ At(t, t.line + t.length)
            /\ t.line + t.length
                 = IF t.line + t.h <= LinesOf(t.text) + 1 THEN t.line + t.h ELSE LinesOf(t.text) + 1
            /\ t.end <=> t.line + t.length = LinesOf(t.text) + 1
  BY Reads
<1>2. ASSUME Terminated(t.text)
      PROVE  \E v \in Nat : /\ At(t, v) /\ line = (IF n <= v THEN v - n ELSE 0) /\ line <= LinesOf(t.text)
                           /\ (line = 0 <=> n >= 1 /\ v <= n)
  <2>1. PICK v \in Nat : v = t.line + t.length
    BY <1>1, <1>2
  <2> QED
    BY <1>1, <1>2, <2>1
<1>3. b \in Pages /\ Ready(b, line)
  BY <1>1, <1>2, BackReady
<1>4. Walked(t, b)
  BY <1>1, BackLinesFollows
<1> QED
  BY <1>3, <1>4

LEMMA PreviousLineHolds == ASSUME Held(tb), PreviousLine PROVE Held(tb')
<1>1. tb.open \in {"text", "search"}
  BY DEF PreviousLine, Reading
<1>2. /\ tb \in Pages /\ tb.text \in Texts /\ tb.h \in Nat /\ tb.h >= 1 /\ tb.length \in Nat /\ tb.length >= 1
      /\ tb.line \in Int
      /\ tb.open = "search" => Terminated(tb.text) /\ tb.label \in [tb.jumps -> Int]
      /\ Terminated(tb.text) =>
            /\ LinesOf(tb.text) \in Nat /\ tb.line \in 0..LinesOf(tb.text) /\ (tb.begin <=> tb.line = 0)
            /\ At(tb, tb.line + tb.length)
            /\ tb.line + tb.length
                 = IF tb.line + tb.h <= LinesOf(tb.text) + 1 THEN tb.line + tb.h ELSE LinesOf(tb.text) + 1
            /\ tb.end <=> tb.line + tb.length = LinesOf(tb.text) + 1
  BY <1>1, Reads
<1>3. PICK n \in Nat : n = tb.length + 1
  BY <1>2
<1>4. PICK line \in Int : line = tb.line - 1
  BY <1>2
<1>5. ASSUME Terminated(tb.text)
      PROVE  /\ line = IF n <= tb.line + tb.length THEN tb.line + tb.length - n ELSE 0
             /\ line <= LinesOf(tb.text) /\ (line = 0 <=> n >= 1 /\ tb.line + tb.length <= n)
  BY <1>2, <1>3, <1>4, <1>5 DEF PreviousLine
<1>6. PICK b : b = BackLines(tb, n)
  OBVIOUS
<1>7. b \in Pages /\ Ready(b, line)
  BY <1>1, <1>5, <1>6, BackHolds
<1>8. tb' = [PrintPage(Marked(b)) EXCEPT !.line = Expected(b, line)]
  BY <1>3, <1>4, <1>6 DEF PreviousLine, Show
<1> QED
  BY <1>7, <1>8, ShowHolds

LEMMA PreviousPageHolds == ASSUME Held(tb), PreviousPage PROVE Held(tb')
<1>1. tb.open \in {"text", "search"}
  BY DEF PreviousPage, Reading
<1>2. /\ tb \in Pages /\ tb.text \in Texts /\ tb.h \in Nat /\ tb.h >= 1 /\ tb.length \in Nat /\ tb.length >= 1
      /\ tb.line \in Int
      /\ tb.open = "search" => Terminated(tb.text) /\ tb.label \in [tb.jumps -> Int]
      /\ Terminated(tb.text) =>
            /\ LinesOf(tb.text) \in Nat /\ tb.line \in 0..LinesOf(tb.text) /\ (tb.begin <=> tb.line = 0)
            /\ At(tb, tb.line + tb.length)
            /\ tb.line + tb.length
                 = IF tb.line + tb.h <= LinesOf(tb.text) + 1 THEN tb.line + tb.h ELSE LinesOf(tb.text) + 1
            /\ tb.end <=> tb.line + tb.length = LinesOf(tb.text) + 1
  BY <1>1, Reads
<1>3. PICK n \in Nat : n = tb.length + tb.h
  BY <1>2
<1>4. PICK line \in Int : line = Max({0, tb.line - tb.h}) /\ line = IF 0 >= tb.line - tb.h THEN 0 ELSE tb.line - tb.h
  <2>1. PICK k \in Int : k = tb.line - tb.h
    BY <1>2
  <2>2. Max({0, k}) = IF 0 >= k THEN 0 ELSE k
    BY MaxOfTwo
  <2> QED
    BY <2>1, <2>2
<1>5. ASSUME Terminated(tb.text)
      PROVE  /\ line = IF n <= tb.line + tb.length THEN tb.line + tb.length - n ELSE 0
             /\ line <= LinesOf(tb.text) /\ (line = 0 <=> n >= 1 /\ tb.line + tb.length <= n)
  BY <1>2, <1>3, <1>4, <1>5
<1>6. PICK b : b = BackLines(tb, n)
  OBVIOUS
<1>7. b \in Pages /\ Ready(b, line)
  BY <1>1, <1>5, <1>6, BackHolds
<1>8. tb' = [PrintPage(Marked(b)) EXCEPT !.line = Expected(b, line)]
  BY <1>3, <1>4, <1>6 DEF PreviousPage, Show
<1> QED
  BY <1>7, <1>8, ShowHolds

LEMMA NextLineHolds == ASSUME Held(tb), NextLine PROVE Held(tb')
<1>1. tb.open \in {"text", "search"}
  BY DEF NextLine, Reading
<1>2. /\ tb \in Pages /\ tb.text \in Texts /\ tb.h \in Nat /\ tb.h >= 1 /\ tb.length \in Nat /\ tb.length >= 1
      /\ tb.line \in Int
      /\ tb.open = "search" => Terminated(tb.text) /\ tb.label \in [tb.jumps -> Int]
      /\ Terminated(tb.text) =>
            /\ LinesOf(tb.text) \in Nat /\ tb.line \in 0..LinesOf(tb.text) /\ (tb.begin <=> tb.line = 0)
            /\ At(tb, tb.line + tb.length)
            /\ tb.line + tb.length
                 = IF tb.line + tb.h <= LinesOf(tb.text) + 1 THEN tb.line + tb.h ELSE LinesOf(tb.text) + 1
            /\ tb.end <=> tb.line + tb.length = LinesOf(tb.text) + 1
  BY <1>1, Reads
<1>3. PICK n \in Nat : n = tb.length - 1
  BY <1>2
<1>4. PICK line \in Int : line = tb.line + 1
  BY <1>2
<1>5. ASSUME Terminated(tb.text)
      PROVE  /\ line = IF n <= tb.line + tb.length THEN tb.line + tb.length - n ELSE 0
             /\ line <= LinesOf(tb.text) /\ (line = 0 <=> n >= 1 /\ tb.line + tb.length <= n)
  <2>1. PICK l \in Nat, k \in Nat, h \in Nat, c \in Nat :
              l = tb.line /\ k = tb.length /\ h = tb.h /\ c = LinesOf(tb.text)
    BY <1>2, <1>5
  <2>2. k >= 1 /\ h >= 1 /\ (l + k = IF l + h <= c + 1 THEN l + h ELSE c + 1) /\ l + k # c + 1
    BY <1>2, <1>5, <2>1 DEF NextLine
  <2>3. l + 1 <= c /\ n = k - 1 /\ line = l + 1 /\ n <= l + k /\ l + k - n = l + 1
    BY <1>3, <1>4, <2>1, <2>2
  <2> QED
    BY <2>1, <2>3
<1>6. PICK b : b = BackLines(tb, n)
  OBVIOUS
<1>7. b \in Pages /\ Ready(b, line)
  BY <1>1, <1>5, <1>6, BackHolds
<1>8. tb' = [PrintPage(Marked(b)) EXCEPT !.line = Expected(b, line)]
  BY <1>3, <1>4, <1>6 DEF NextLine, Show
<1> QED
  BY <1>7, <1>8, ShowHolds

LEMMA NextPageHolds == ASSUME Held(tb), NextPage PROVE Held(tb')
<1>1. tb.open \in {"text", "search"}
  BY DEF NextPage, Reading
<1>2. /\ tb \in Pages /\ tb.text \in Texts /\ tb.h \in Nat /\ tb.h >= 1 /\ tb.length \in Nat /\ tb.length >= 1
      /\ tb.line \in Int
      /\ tb.open = "search" => Terminated(tb.text) /\ tb.label \in [tb.jumps -> Int]
      /\ Terminated(tb.text) =>
            /\ LinesOf(tb.text) \in Nat /\ tb.line \in 0..LinesOf(tb.text) /\ (tb.begin <=> tb.line = 0)
            /\ At(tb, tb.line + tb.length)
            /\ tb.line + tb.length
                 = IF tb.line + tb.h <= LinesOf(tb.text) + 1 THEN tb.line + tb.h ELSE LinesOf(tb.text) + 1
            /\ tb.end <=> tb.line + tb.length = LinesOf(tb.text) + 1
  BY <1>1, Reads
<1>3. PICK off \in BOOLEAN, page \in Nat, end \in BOOLEAN : off = FALSE /\ page = tb.page /\ end = tb.end
  BY <1>2 DEF Pages
<1>4. PICK t : t = SteppedBack(tb, page, off, end)
  OBVIOUS
<1>5. t \in Pages /\ Walked(tb, t) /\ t.page = page /\ t.begin = off /\ t.end = end
  <2>1. tb \in Pages
    BY <1>2
  <2> QED
    BY <1>4, <2>1, SteppedParts
<1>6. t = [tb EXCEPT !.begin = FALSE]
  BY <1>2, <1>3, <1>4 DEF SteppedBack, Pages
<1>7. PICK line \in Int : line = tb.line + tb.h
  BY <1>2
<1>8. ASSUME Terminated(t.text) PROVE On(t, line) /\ line # 0
  <2>1. Terminated(tb.text) /\ ~tb.end
    BY <1>5, <1>8 DEF Walked, Redrawn, NextPage
  <2>2. tb.line + tb.length = line /\ line # LinesOf(tb.text) + 1 /\ line # 0
    BY <1>2, <1>7, <2>1
  <2>3. On(tb, line)
    BY <1>2, <2>1, <2>2, BeforeEnd
  <2> QED
    BY <1>3, <1>5, <2>2, <2>3 DEF On, Walked, Redrawn
<1>9. Ready(t, line)
  BY <1>1, <1>2, <1>3, <1>5, <1>8 DEF Ready, Walked, Redrawn
<1>10. tb' = [PrintPage(Marked(t)) EXCEPT !.line = Expected(t, line)]
  BY <1>6, <1>7 DEF NextPage, Show
<1> QED
  BY <1>5, <1>9, <1>10, ShowHolds

Sideways(t, hscroll) == [t EXCEPT !.hscroll = hscroll]
LEMMA SidewaysParts ==
    ASSUME NEW t \in Pages, NEW hscroll \in Int, NEW u, u = Sideways(t, hscroll)
    PROVE  /\ u \in Pages /\ u.open = t.open /\ u.text = t.text /\ u.h = t.h /\ u.page = t.page /\ u.end = t.end
           /\ u.jumps = t.jumps /\ u.label = t.label
  BY DEF Pages, Sideways

LEMMA ScrollSidewaysHolds == ASSUME Held(tb), ScrollSideways PROVE Held(tb')
<1>1. tb.open \in {"text", "search"}
  BY DEF ScrollSideways, Reading
<1>2. /\ tb \in Pages /\ tb.text \in Texts /\ tb.h \in Nat /\ tb.h >= 1 /\ tb.length \in Nat /\ tb.length >= 1
      /\ tb.line \in Int
      /\ tb.open = "search" => Terminated(tb.text) /\ tb.label \in [tb.jumps -> Int]
      /\ Terminated(tb.text) =>
            /\ LinesOf(tb.text) \in Nat /\ tb.line \in 0..LinesOf(tb.text) /\ (tb.begin <=> tb.line = 0)
            /\ At(tb, tb.line + tb.length)
            /\ tb.line + tb.length
                 = IF tb.line + tb.h <= LinesOf(tb.text) + 1 THEN tb.line + tb.h ELSE LinesOf(tb.text) + 1
            /\ tb.end <=> tb.line + tb.length = LinesOf(tb.text) + 1
  BY <1>1, Reads
<1>3. PICK hscroll \in Int : Show(BackLines([tb EXCEPT !.hscroll = hscroll], tb.length), tb.line)
  BY <1>2 DEF ScrollSideways, Pages
<1>4. PICK t : t = Sideways(tb, hscroll)
  OBVIOUS
<1>5. /\ t \in Pages /\ t.open = tb.open /\ t.text = tb.text /\ t.h = tb.h /\ t.page = tb.page /\ t.end = tb.end
      /\ t.jumps = tb.jumps /\ t.label = tb.label
  <2>1. tb \in Pages
    BY <1>2
  <2> QED
    BY <1>4, <2>1, SidewaysParts
<1>6. PICK n \in Nat, line \in Int : n = tb.length /\ line = tb.line
  BY <1>2
<1>7. ASSUME Terminated(t.text)
      PROVE  \E v \in Nat : /\ At(t, v) /\ line = (IF n <= v THEN v - n ELSE 0) /\ line <= LinesOf(t.text)
                           /\ (line = 0 <=> n >= 1 /\ v <= n)
  <2>1. PICK v \in Nat : v = tb.line + tb.length
    BY <1>2, <1>5, <1>7
  <2>2. At(t, v)
    BY <1>2, <1>5, <1>7, <2>1 DEF At, On
  <2>3. line = (IF n <= v THEN v - n ELSE 0) /\ line <= LinesOf(t.text) /\ (line = 0 <=> n >= 1 /\ v <= n)
    BY <1>2, <1>5, <1>6, <1>7, <2>1
  <2> QED
    BY <2>2, <2>3
<1>8. PICK b : b = BackLines(t, n)
  OBVIOUS
<1>9. /\ t.open \in {"text", "search"} /\ t.text \in Texts /\ t.h >= 1
      /\ t.open = "search" => Terminated(t.text) /\ t.label \in [t.jumps -> Int]
  BY <1>1, <1>2, <1>5
<1>10. b \in Pages /\ Ready(b, line)
  BY <1>5, <1>7, <1>8, <1>9, BackReady
<1>11. tb' = [PrintPage(Marked(b)) EXCEPT !.line = Expected(b, line)]
  BY <1>3, <1>4, <1>6, <1>8 DEF Show, Sideways
<1> QED
  BY <1>10, <1>11, ShowHolds

WithHeight(t, h) == [t EXCEPT !.h = h]
LEMMA WithHeightParts ==
    ASSUME NEW t \in Pages, NEW h \in Nat, NEW u, u = WithHeight(t, h)
    PROVE  /\ u \in Pages /\ u.open = t.open /\ u.text = t.text /\ u.h = h /\ u.page = t.page /\ u.begin = t.begin
           /\ u.end = t.end /\ u.jumps = t.jumps /\ u.label = t.label
  BY DEF Pages, WithHeight

LEMMA TextResizeHolds == ASSUME Held(tb), TextResize PROVE Held(tb')
<1>1. tb.open \in {"text", "search"}
  BY DEF TextResize, Reading
<1>2. /\ tb \in Pages /\ tb.text \in Texts /\ tb.h \in Nat /\ tb.h >= 1 /\ tb.length \in Nat /\ tb.length >= 1
      /\ tb.line \in Int
      /\ tb.open = "search" => Terminated(tb.text) /\ tb.label \in [tb.jumps -> Int]
      /\ Terminated(tb.text) =>
            /\ LinesOf(tb.text) \in Nat /\ tb.line \in 0..LinesOf(tb.text) /\ (tb.begin <=> tb.line = 0)
            /\ At(tb, tb.line + tb.length)
            /\ tb.line + tb.length
                 = IF tb.line + tb.h <= LinesOf(tb.text) + 1 THEN tb.line + tb.h ELSE LinesOf(tb.text) + 1
            /\ tb.end <=> tb.line + tb.length = LinesOf(tb.text) + 1
  BY <1>1, Reads
<1>3. PICK n \in Nat : n = tb.h + 4
  BY <1>2
<1>4. PICK line \in Int : /\ line = Max({0, tb.line + tb.length - (tb.h + 4)})
                         /\ line = IF 0 >= tb.line + tb.length - n THEN 0 ELSE tb.line + tb.length - n
  <2>1. PICK k \in Int : k = tb.line + tb.length - (tb.h + 4) /\ k = tb.line + tb.length - n
    BY <1>2, <1>3
  <2>2. Max({0, k}) = IF 0 >= k THEN 0 ELSE k
    BY MaxOfTwo
  <2> QED
    BY <2>1, <2>2
<1>5. ASSUME Terminated(tb.text)
      PROVE  /\ line = IF n <= tb.line + tb.length THEN tb.line + tb.length - n ELSE 0
             /\ line <= LinesOf(tb.text) /\ (line = 0 <=> n >= 1 /\ tb.line + tb.length <= n)
  BY <1>2, <1>3, <1>4, <1>5
<1>6. PICK b : b = BackLines(tb, n)
  OBVIOUS
<1>7. b \in Pages /\ Ready(b, line)
  BY <1>1, <1>5, <1>6, BackHolds
<1>8. PICK h \in Nat : h >= 1 /\ Show([b EXCEPT !.h = h], line)
  <2>1. PICK h \in Heights : Show([BackLines(tb, tb.h + 4) EXCEPT !.h = h], Max({0, tb.line + tb.length - (tb.h + 4)}))
    BY DEF TextResize
  <2>2. h \in Nat /\ h >= 1
    BY TextAssumption
  <2> QED
    BY <1>3, <1>4, <1>6, <2>1, <2>2
<1>9. PICK t : t = WithHeight(b, h)
  OBVIOUS
<1>10. /\ t \in Pages /\ t.open = b.open /\ t.text = b.text /\ t.h = h /\ t.page = b.page /\ t.begin = b.begin
       /\ t.end = b.end /\ t.jumps = b.jumps /\ t.label = b.label
  BY <1>7, <1>9, WithHeightParts
<1>11. Ready(t, line)
  <2>1. \A v : On(b, v) => On(t, v)
    BY <1>10 DEF On
  <2> QED
    BY <1>7, <1>8, <1>10, <2>1 DEF Ready
<1>12. tb' = [PrintPage(Marked(t)) EXCEPT !.line = Expected(t, line)]
  BY <1>8, <1>9 DEF Show, WithHeight
<1> QED
  BY <1>10, <1>11, <1>12, ShowHolds

Opened(t, text, h) == [t EXCEPT !.open = "text", !.text = text, !.h = h]
LEMMA OpenedParts ==
    ASSUME NEW t \in Pages, NEW text \in Texts, NEW h \in Nat, NEW u, u = Opened(t, text, h)
    PROVE  /\ u \in Pages /\ u.open = "text" /\ u.text = text /\ u.h = h /\ u.page = t.page /\ u.begin = t.begin
  BY DEF Pages, Opened

LEMMA OpenTextHolds == ASSUME OpenText PROVE Held(tb')
<1>1. PICK text \in Texts, h \in Heights : Show([NoText(0) EXCEPT !.open = "text", !.text = text, !.h = h], 0)
  BY DEF OpenText
<1>2. h \in Nat /\ h >= 1
  BY TextAssumption
<1>3. PICK no : no = NoText(0)
  OBVIOUS
<1>4. no \in Pages /\ no.page = 0 /\ no.begin
  BY <1>3, NoTextParts
<1>5. PICK t : t = Opened(no, text, h)
  OBVIOUS
<1>6. /\ t \in Pages /\ t.open = "text" /\ t.text = text /\ t.h = h /\ t.page = no.page /\ t.begin = no.begin
  <2>1. no \in Pages /\ h \in Nat /\ text \in Texts
    BY <1>2, <1>4
  <2> QED
    BY ONLY <1>5, <2>1, OpenedParts
<1>7. ASSUME Terminated(t.text) PROVE On(t, 0)
  <2>1. Size(t.text) \in Nat
    BY <1>6, PageText
  <2> QED
    BY <1>4, <1>6, <1>7, <2>1, FirstLine, StartsAre DEF On
<1>8. Ready(t, 0)
  BY <1>2, <1>4, <1>6, <1>7 DEF Ready
<1>9. tb' = [PrintPage(Marked(t)) EXCEPT !.line = Expected(t, 0)]
  BY <1>1, <1>3, <1>5 DEF Show, Opened
<1> QED
  BY <1>6, <1>8, <1>9, ShowHolds

Sought(t, text, h, jumps, label) ==
    [t EXCEPT !.open = "search", !.text = text, !.h = h, !.jumps = jumps, !.label = label]
LEMMA SoughtParts ==
    ASSUME NEW t \in Pages, NEW text \in Texts, NEW h \in Nat, NEW jumps \in SUBSET Nat, NEW label \in Labels,
           NEW u, u = Sought(t, text, h, jumps, label)
    PROVE  /\ u \in Pages /\ u.open = "search" /\ u.text = text /\ u.h = h /\ u.page = t.page /\ u.end = t.end
           /\ u.jumps = jumps /\ u.label = label
  BY DEF Pages, Sought

WithBegin(t, begin) == [t EXCEPT !.begin = begin]
LEMMA WithBeginParts ==
    ASSUME NEW t \in Pages, NEW begin \in BOOLEAN, NEW u, u = WithBegin(t, begin)
    PROVE  /\ u \in Pages /\ u.open = t.open /\ u.text = t.text /\ u.h = t.h /\ u.page = t.page /\ u.end = t.end
           /\ u.jumps = t.jumps /\ u.label = t.label
  BY DEF Pages, WithBegin

LEMMA OpenSearchHolds == ASSUME Held(tb), OpenSearch PROVE Held(tb')
<1>1. tb \in Pages /\ tb.page = 0 /\ ~tb.end /\ tb.vscroll \in Nat
  BY DEF OpenSearch, Held, Pages
<1>2. PICK text \in {t \in Texts : Terminated(t)}, h \in Heights :
          \E marks \in SUBSET {p \in LineStarts(text) : p < Len(text) /\ text[p + 1] # NL} :
             \E t \in {GetLines([tb EXCEPT !.open = "search", !.text = text, !.h = h,
                                         !.jumps = marks, !.label = [p \in marks |-> 0]], tb.vscroll)} :
                Show([t EXCEPT !.begin = tb.vscroll = 0], tb.vscroll)
  BY DEF OpenSearch
<1>3. text \in Texts /\ Terminated(text) /\ h \in Nat /\ h >= 1 /\ Size(text) \in Nat
  BY <1>2, TextAssumption, TextSize
<1>4. PICK marks \in SUBSET {p \in LineStarts(text) : p < Len(text) /\ text[p + 1] # NL} :
             \E t \in {GetLines([tb EXCEPT !.open = "search", !.text = text, !.h = h,
                                         !.jumps = marks, !.label = [p \in marks |-> 0]], tb.vscroll)} :
                Show([t EXCEPT !.begin = tb.vscroll = 0], tb.vscroll)
  BY <1>2
<1>5. marks \in SUBSET Nat
  BY <1>3, StartsAre
<1>6. PICK label : label = [p \in marks |-> 0]
  OBVIOUS
<1>7. label \in [marks -> Int] /\ label \in Labels
  <2>1. marks \in SUBSET Int /\ label \in [marks -> Int]
    BY <1>5, <1>6
  <2> QED
    BY <2>1 DEF Labels
<1>8. PICK s : s = Sought(tb, text, h, marks, label)
  OBVIOUS
<1>9. /\ s \in Pages /\ s.open = "search" /\ s.text = text /\ s.h = h /\ s.page = tb.page /\ s.end = tb.end
      /\ s.jumps = marks /\ s.label = label
  BY <1>1, <1>3, <1>5, <1>7, <1>8, SoughtParts
<1>10. PICK k \in Nat : k = tb.vscroll
  BY <1>1
<1>11. PICK g : g = GetLines(s, k)
  OBVIOUS
<1>12. PICK begin \in BOOLEAN : begin = (k = 0)
  OBVIOUS
<1>13. PICK t : t = WithBegin(g, begin)
  OBVIOUS
<1>14. Show(t, k)
  BY <1>4, <1>6, <1>8, <1>10, <1>11, <1>12, <1>13 DEF Sought, WithBegin
<1>15. PICK n \in Nat : n = LinesOf(text)
  BY <1>3, TextEnds
<1>16. At(s, 0)
  BY <1>1, <1>3, <1>9, FirstLine, StartsAre DEF At, On
<1>17. g \in Pages /\ Walked(s, g) /\ At(g, IF 0 + k <= n + 1 THEN 0 + k ELSE n + 1)
  <2>1. /\ g \in Pages /\ Walked(s, g) /\ g.begin = s.begin
        /\ \A v : At(s, v) => At(g, IF v + k <= LinesOf(s.text) + 1 THEN v + k ELSE LinesOf(s.text) + 1)
        /\ \A v : On(s, v) /\ k > 0 =>
              At(g, IF v + k <= LinesOf(s.text) + 1 THEN v + k ELSE LinesOf(s.text) + 1)
    BY <1>9, <1>11, GetLinesFollows
  <2>2. At(g, IF 0 + k <= LinesOf(s.text) + 1 THEN 0 + k ELSE LinesOf(s.text) + 1)
    BY <1>16, <2>1
  <2> QED
    BY <1>9, <1>15, <2>1, <2>2
<1>18. g.text = text /\ g.open = "search" /\ g.h = h /\ g.jumps = marks /\ g.label = label
  BY <1>9, <1>17 DEF Walked, Redrawn
<1>19. /\ t \in Pages /\ t.open = g.open /\ t.text = g.text /\ t.h = g.h /\ t.page = g.page /\ t.end = g.end
       /\ t.jumps = g.jumps /\ t.label = g.label
  BY <1>13, <1>17, WithBeginParts
<1>20. \E v : On(t, v) /\ (v = k \/ (v = LinesOf(t.text) /\ k >= v))
  <2>1. CASE k <= n
    <3>1. At(g, k) /\ k # n + 1
      BY <1>15, <1>17, <2>1
    <3>2. On(g, k)
      BY <1>15, <1>17, <1>18, <3>1, BeforeEnd
    <3>3. On(t, k)
      BY <1>19, <3>2 DEF On
    <3> QED
      BY <3>3
  <2>2. CASE k > n
    <3>1. At(g, n + 1)
      BY <1>15, <1>17, <2>2
    <3>2. g.end
      BY <1>15, <1>17, <1>18, <3>1, AtLine
    <3>3. t.page = Size(text)
      BY <1>18, <1>19, <3>1, <3>2 DEF At, Size
    <3>4. On(t, n)
      BY <1>3, <1>15, <1>18, <1>19, <3>3, TextEnds DEF On
    <3> QED
      BY <1>15, <1>18, <1>19, <2>2, <3>4
  <2> QED
    BY <1>15, <2>1, <2>2
<1>21. Ready(t, k)
  BY <1>3, <1>7, <1>18, <1>19, <1>20 DEF Ready
<1>22. tb' = [PrintPage(Marked(t)) EXCEPT !.line = Expected(t, k)]
  BY <1>14 DEF Show
<1> QED
  BY <1>19, <1>21, <1>22, ShowHolds

LEMMA JumpHolds == ASSUME Held(tb), Jump PROVE Held(tb')
<1>1. tb \in Pages /\ tb.length \in Nat /\ tb.hscroll \in Int
  BY DEF Held, Pages
<1>2. PICK b : b = BackLines(tb, tb.length)
  OBVIOUS
<1>3. b \in Pages
  BY <1>1, <1>2, BackLinesFollows
<1>4. PICK v \in Nat : v = LinesBefore(tb.text, b.page)
  BY <1>3, LineNumber DEF Pages
<1>5. PICK no : no = NoText(v)
  OBVIOUS
<1>6. no \in Pages /\ no.open = "no" /\ no.page = 0 /\ ~no.end
  BY <1>5, NoTextParts
<1>7. tb' = Sideways(no, tb.hscroll)
  BY <1>2, <1>4, <1>5 DEF Jump, Sideways
<1>8. /\ tb' \in Pages /\ tb'.open = no.open /\ tb'.page = no.page /\ tb'.end = no.end
  BY <1>1, <1>6, <1>7, SidewaysParts
<1> QED
  BY <1>6, <1>8 DEF Held

Unrolled(t, text, h) == [t EXCEPT !.open = "scroll", !.text = text, !.h = h]
LEMMA UnrolledParts ==
    ASSUME NEW t \in Pages, NEW text \in Texts, NEW h \in Nat, NEW u, u = Unrolled(t, text, h)
    PROVE  /\ u \in Pages /\ u.open = "scroll" /\ u.text = text /\ u.h = h /\ u.top = t.top
  BY DEF Pages, Unrolled

LEMMA OpenScrollHolds == ASSUME OpenScroll PROVE Held(tb')
<1>1. PICK text \in Texts, h \in Heights :
          tb' = [NoText(0) EXCEPT !.open = "scroll", !.text = text, !.h = Min({h, LinesOf(text) + 1})]
  BY DEF OpenScroll
<1>2. h \in Nat
  BY TextAssumption
<1>3. PICK n \in Nat : n = LinesOf(text)
  <2>1. Size(text) \in Int
    BY TextSize
  <2> QED
    BY <2>1, LineNumber DEF LinesOf, Size
<1>4. PICK k \in Nat : k = Min({h, n + 1}) /\ k <= n + 1
  <2>1. Min({h, n + 1}) = IF h <= n + 1 THEN h ELSE n + 1
    BY <1>2, MinOfTwo
  <2> QED
    BY <1>2, <2>1
<1>5. PICK no : no = NoText(0)
  OBVIOUS
<1>6. no \in Pages /\ no.top = 0
  BY <1>5, NoTextParts
<1>7. tb' = Unrolled(no, text, k)
  BY <1>1, <1>3, <1>4, <1>5 DEF Unrolled
<1>8. tb' \in Pages /\ tb'.open = "scroll" /\ tb'.text = text /\ tb'.h = k /\ tb'.top = no.top
  BY <1>6, <1>7, UnrolledParts
<1> QED
  BY <1>3, <1>4, <1>6, <1>8 DEF Held, Pad

WithTop(t, top) == [t EXCEPT !.top = top]
LEMMA WithTopParts ==
    ASSUME NEW t \in Pages, NEW top \in Int, NEW u, u = WithTop(t, top)
    PROVE  /\ u \in Pages /\ u.open = t.open /\ u.text = t.text /\ u.h = t.h /\ u.top = top
  BY DEF Pages, WithTop

LEMMA ScrollKeyHolds == ASSUME Held(tb), ScrollKey PROVE Held(tb')
<1>1. tb \in Pages /\ tb.open = "scroll" /\ tb.text \in Texts /\ tb.top \in 0..Pad(tb) - tb.h
  BY DEF Held, ScrollKey
<1>2. PICK n \in Nat, h \in Nat : n = Pad(tb) /\ h = tb.h
  <2>1. Size(tb.text) \in Int
    BY <1>1, TextSize
  <2>2. LinesOf(tb.text) \in Nat
    BY <2>1, LineNumber DEF LinesOf, Size
  <2> QED
    BY <1>1, <2>2 DEF Pad, Pages
<1>3. PICK last \in Nat : last = n - h
  BY <1>1, <1>2
<1>4. PICK top \in Int : tb' = [tb EXCEPT !.top = Clamped(top, last)]
  <2>1. PICK top \in {tb.top + tb.h - 2, tb.top - (tb.h + 2), 0, Pad(tb) - tb.h, tb.top + 1, tb.top - 1} :
               tb' = [tb EXCEPT !.top = Clamped(top, Pad(tb) - tb.h)]
    BY DEF ScrollKey
  <2>2. top \in Int
    BY <1>1, <1>2, <2>1
  <2> QED
    BY <1>2, <1>3, <2>1, <2>2
<1>5. PICK k \in 0..last : k = Clamped(top, last)
  BY DEF Clamped
<1>6. tb' = WithTop(tb, k)
  BY <1>4, <1>5 DEF WithTop
<1>7. tb' \in Pages /\ tb'.open = tb.open /\ tb'.text = tb.text /\ tb'.h = tb.h /\ tb'.top = k
  <2>1. tb \in Pages /\ k \in Int
    BY <1>1
  <2> QED
    BY ONLY <1>6, <2>1, WithTopParts
<1>8. Pad(tb') = n
  BY <1>2, <1>7 DEF Pad
<1> QED
  BY <1>1, <1>2, <1>3, <1>5, <1>7, <1>8 DEF Held

-----------------------------------------------------------------------------

\* No key leaves the page at a line that is not due.
LEMMA TextInductive == TextInv /\ [TextNext]_tb => TextInv'
<1> SUFFICES ASSUME Held(tb), [TextNext]_tb PROVE Held(tb')
  BY DEF TextInv
<1>1. CASE UNCHANGED tb
  <2>1. tb' = tb
    BY <1>1
  <2> QED
    BY <2>1
<1>2. CASE TextClose \/ ScrollClose
  <2>1. tb' = NoText(0)
    BY <1>2 DEF TextClose, ScrollClose
  <2> QED
    BY <2>1, NoTextParts
<1>3. CASE OpenText
  BY <1>3, OpenTextHolds
<1>4. CASE OpenSearch
  BY <1>4, OpenSearchHolds
<1>5. CASE FirstPage
  BY <1>5, FirstPageHolds
<1>6. CASE LastPage
  BY <1>6, LastPageHolds
<1>7. CASE PreviousLine
  BY <1>7, PreviousLineHolds
<1>8. CASE PreviousPage
  BY <1>8, PreviousPageHolds
<1>9. CASE NextLine
  BY <1>9, NextLineHolds
<1>10. CASE NextPage
  BY <1>10, NextPageHolds
<1>11. CASE ScrollSideways
  BY <1>11, ScrollSidewaysHolds
<1>12. CASE TextResize
  BY <1>12, TextResizeHolds
<1>13. CASE Jump
  BY <1>13, JumpHolds
<1>14. CASE OpenScroll
  BY <1>14, OpenScrollHolds
<1>15. CASE ScrollKey
  BY <1>15, ScrollKeyHolds
<1> QED
  BY <1>1, <1>2, <1>3, <1>4, <1>5, <1>6, <1>7, <1>8, <1>9, <1>10, <1>11, <1>12, <1>13, <1>14, <1>15 DEF TextNext

LEMMA TextShows == TextInv => ShowsTheRightLines
<1> SUFFICES ASSUME Held(tb) PROVE ShowsTheRightLines
  BY DEF TextInv
<1>1. ASSUME Reading, Terminated(tb.text)
      PROVE  /\ tb.top \in LineStarts(tb.text) /\ LinesBefore(tb.text, tb.top) = tb.line
             /\ tb.begin <=> tb.line = 0
             /\ tb.end <=> tb.line + tb.h > LinesOf(tb.text)
  <2>1. tb.open \in {"text", "search"}
    BY <1>1 DEF Reading
  <2>2. /\ tb.top \in LineStarts(tb.text) /\ LinesBefore(tb.text, tb.top) = tb.line
        /\ tb.begin <=> tb.line = 0
    BY <1>1, <2>1 DEF Held, Followed
  <2>3. /\ tb \in Pages /\ tb.text \in Texts /\ tb.h \in Nat /\ tb.h >= 1 /\ tb.length \in Nat /\ tb.length >= 1
        /\ tb.line \in Int
        /\ tb.open = "search" => Terminated(tb.text) /\ tb.label \in [tb.jumps -> Int]
        /\ Terminated(tb.text) =>
              /\ LinesOf(tb.text) \in Nat /\ tb.line \in 0..LinesOf(tb.text) /\ (tb.begin <=> tb.line = 0)
              /\ At(tb, tb.line + tb.length)
              /\ tb.line + tb.length
                   = IF tb.line + tb.h <= LinesOf(tb.text) + 1 THEN tb.line + tb.h ELSE LinesOf(tb.text) + 1
              /\ tb.end <=> tb.line + tb.length = LinesOf(tb.text) + 1
    BY <2>1, Reads
  <2> QED
    BY <1>1, <2>2, <2>3
<1>2. tb.open = "search" => KeysFit
  BY DEF Held, Fit, KeysFit
<1>3. tb.open = "scroll" => tb.top \in 0..Pad(tb) - tb.h
  BY DEF Held
<1> QED
  BY <1>1, <1>2, <1>3 DEF ShowsTheRightLines

\* The windows of every text that ends with a newline show, after whatever
\* keys, the lines the reader has asked for: page up and page down move by the
\* lines they say, up stops at the first line and down at the end, the keys of
\* a search are those of the results on the screen, and a pad is never scrolled
\* past its ends (lxdialog/textbox.c, mconf.c's update_text, nconf.gui.c's
\* show_scroll_win).
THEOREM LinesAreRight == TextSpec => []ShowsTheRightLines
<1>1. TextInit => TextInv
  BY NoTextParts DEF TextInit, TextInv
<1>2. TextInv /\ [TextNext]_tb => TextInv'
  BY TextInductive
<1>3. TextInv => ShowsTheRightLines
  BY TextShows
<1> QED
  BY <1>1, <1>2, <1>3, PTL DEF TextSpec

=============================================================================
