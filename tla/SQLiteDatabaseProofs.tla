------------------------ MODULE SQLiteDatabaseProofs ------------------------
(***************************************************************************)
(* Proofs about SQLiteDatabase, for any items, any found files and any     *)
(* number of calls, failing statements and crashes. The rules of ItemRules *)
(* come first, since the refinement of DeviceTable needs that what they    *)
(* accept is what the standards allow. Then Inv, the inductive invariant:  *)
(* what a transaction has made of the schema (Schema), what the step says  *)
(* about the call (Calling) and which rows are still to be copied          *)
(* (Contents). The refinement and the theorem about queries rest on it.    *)
(***************************************************************************)
EXTENDS SQLiteDatabase, SequenceTheorems, TLAPS

Facts == INSTANCE SequenceFacts
-----------------------------------------------------------------------------
(* IsValidUtf8 *)

(* What the loop decides at an index, given what it decides behind it. *)
ValidAt(text, valid, index) ==
    \/ index > Len(text)
    \/ /\ EncodesAt(text, index)
       /\ valid[index + ContinuationCount(text[index]) + 1]

(* The loop goes forward and not beyond the end. *)
LEMMA Forward ==
    ASSUME NEW text \in Seq(Nat), NEW i \in 1..Len(text), EncodesAt(text, i)
    PROVE  /\ ContinuationCount(text[i]) \in 0..3
           /\ i + ContinuationCount(text[i]) <= Len(text)
<1>1. ContinuationCount(text[i]) \in {-1, 0, 1, 2, 3}
  BY DEF ContinuationCount
<1> QED
  BY <1>1 DEF EncodesAt

(* The recursive definition has a solution. *)
LEMMA Utf8LoopEnds ==
    ASSUME NEW text \in Seq(Nat)
    PROVE  \E valid : valid = [index \in 1..Len(text) + 1 |-> ValidAt(text, valid, index)]
<1> DEFINE n == Len(text)
           Solves(f, k) == /\ f = [index \in (n + 1 - k)..n + 1 |-> ValidAt(text, f, index)]
                           /\ \A index \in (n + 1 - k)..n + 1 : f[index] \in BOOLEAN
           Solvable(k) == \E f : Solves(f, k)
           Bad == {k \in Nat : k <= n /\ ~Solvable(k)}
<1>1. n \in Nat
  OBVIOUS
<1> HIDE DEF n
<1>2. 0 \notin Bad
  <2> DEFINE f == [index \in (n + 1 - 0)..n + 1 |-> TRUE]
  <2>1. \A index \in (n + 1 - 0)..n + 1 : ValidAt(text, f, index) = TRUE
    BY <1>1 DEF ValidAt, n
  <2>2. f = [index \in (n + 1 - 0)..n + 1 |-> ValidAt(text, f, index)]
    BY <2>1
  <2>3. Solves(f, 0)
    BY <2>2
  <2> QED
    BY <2>3
<1>3. ASSUME NEW k \in Nat, k \in Bad, k - 1 \notin Bad, k # 0
      PROVE  FALSE
  <2> DEFINE i == n + 1 - k
  <2>1. i \in 1..n /\ k - 1 \in Nat /\ n + 1 - (k - 1) = i + 1
    BY <1>1, <1>3
  <2>2. PICK f : Solves(f, k - 1)
    <3>1. k - 1 <= n
      BY <1>1, <2>1
    <3>2. Solvable(k - 1)
      <4> HIDE DEF Solvable
      <4> QED
        BY <1>3, <2>1, <3>1
    <3> QED
      BY <3>2
  <2>3. /\ f = [index \in (i + 1)..n + 1 |-> ValidAt(text, f, index)]
        /\ \A index \in (i + 1)..n + 1 : f[index] \in BOOLEAN
    BY <2>1, <2>2
  <2> DEFINE g == [index \in i..n + 1 |-> IF index = i THEN ValidAt(text, f, i) ELSE f[index]]
  <2> HIDE DEF i
  <2>4. \A index \in (i + 1)..n + 1 : g[index] = f[index]
    BY <2>1
  <2>5. \A index \in i..n + 1 : ValidAt(text, g, index) = ValidAt(text, f, index)
    <3> SUFFICES ASSUME NEW index \in i..n + 1
                 PROVE  ValidAt(text, g, index) = ValidAt(text, f, index)
      OBVIOUS
    <3>1. CASE index > n
      BY <3>1 DEF ValidAt, n
    <3>2. CASE index <= n /\ EncodesAt(text, index)
      <4>1. index \in 1..Len(text)
        BY <1>1, <2>1, <3>2 DEF n
      <4>2. index + ContinuationCount(text[index]) + 1 \in (i + 1)..n + 1
        <5> DEFINE c == ContinuationCount(text[index])
        <5>1. c \in 0..3 /\ index + c <= n
          BY <3>2, <4>1, Forward DEF n
        <5> HIDE DEF c
        <5>2. index + c + 1 \in (i + 1)..n + 1
          BY <1>1, <2>1, <4>1, <5>1
        <5> QED
          BY <5>2 DEF c
      <4> QED
        BY <2>4, <4>2 DEF ValidAt
    <3>3. CASE index <= n /\ ~EncodesAt(text, index)
      BY <3>3 DEF ValidAt
    <3> QED
      BY <1>1, <2>1, <3>1, <3>2, <3>3
  <2>6. \A index \in i..n + 1 : g[index] = ValidAt(text, f, index)
    <3> SUFFICES ASSUME NEW index \in i..n + 1
                 PROVE  g[index] = ValidAt(text, f, index)
      OBVIOUS
    <3>1. CASE index = i
      BY <3>1
    <3>2. CASE index # i
      <4>1. index \in (i + 1)..n + 1
        BY <1>1, <2>1, <3>2
      <4> HIDE DEF g
      <4>2. f[index] = ValidAt(text, f, index)
        BY <2>3, <4>1, Zenon
      <4> QED
        BY <2>4, <4>1, <4>2
    <3> QED
      BY <3>1, <3>2
  <2>7. g = [index \in i..n + 1 |-> ValidAt(text, g, index)]
    BY <2>5, <2>6
  <2>8. \A index \in i..n + 1 : g[index] \in BOOLEAN
    BY <2>6 DEF ValidAt
  <2>9. Solves(g, k)
    BY <2>7, <2>8 DEF i
  <2> QED
    BY <1>3, <2>9
<1>4. Bad = {}
  <2> SUFFICES ASSUME Bad # {} PROVE FALSE
    OBVIOUS
  <2> HIDE DEF Solvable
  <2>1. PICK k \in Bad : \A m \in Bad : k <= m
    <3>1. Bad \in SUBSET Nat
      OBVIOUS
    <3> HIDE DEF Bad
    <3> QED
      BY <3>1, Facts!LeastElement
  <2>2. k # 0 /\ k \in Nat /\ k - 1 \notin Bad
    <3>1. k \in Nat
      OBVIOUS
    <3> HIDE DEF Bad
    <3>2. k - 1 # k /\ ~(k <= k - 1)
      BY <3>1
    <3> QED
      BY <1>2, <2>1, <3>1, <3>2
  <2> QED
    BY <1>3, <2>1, <2>2
<1>5. \E f : Solves(f, n)
  <2>1. n <= n
    BY <1>1
  <2>2. Solvable(n)
    <3> HIDE DEF Solvable
    <3> QED
      BY <1>1, <1>4, <2>1
  <2> QED
    BY <2>2
<1>6. n + 1 - n = 1
  BY <1>1
<1> QED
  BY <1>5, <1>6 DEF n

(* IsValidUtf8 is what the loop decides at the first byte. *)
LEMMA Utf8LoopFacts ==
    ASSUME NEW text \in Seq(Nat)
    PROVE  \E valid : /\ \A index \in 1..Len(text) + 1 :
                             valid[index] <=> ValidAt(text, valid, index)
                      /\ valid[1] <=> IsValidUtf8(text)
<1> DEFINE v == CHOOSE valid : valid = [index \in 1..Len(text) + 1 |->
                    \/ index > Len(text)
                    \/ /\ EncodesAt(text, index)
                       /\ valid[index + ContinuationCount(text[index]) + 1]]
<1>1. v[1] <=> IsValidUtf8(text)
  BY DEF IsValidUtf8
<1>2. v = [index \in 1..Len(text) + 1 |-> ValidAt(text, v, index)]
  BY Utf8LoopEnds DEF ValidAt
<1> QED
  BY <1>1, <1>2

(* The bytes of a piece. *)
LEMMA PieceBytes ==
    ASSUME NEW text \in Seq(Nat), NEW i \in 1..Len(text), NEW c \in Nat, i + c <= Len(text)
    PROVE  /\ Len(SubSeq(text, i, i + c)) = c + 1
           /\ \A k \in 1..c + 1 : /\ SubSeq(text, i, i + c)[k] = text[i + k - 1]
                                  /\ text[i + k - 1] \in Nat
<1>1. /\ i + c - i + 1 = c + 1
      /\ \A k \in 1..c + 1 : i + k - 1 \in 1..Len(text) /\ k \in 1..(i + c - i + 1)
  OBVIOUS
<1>2. SubSeq(text, i, i + c) = [k \in 1..(i + c - i + 1) |-> text[i + k - 1]]
  OBVIOUS
<1> QED
  BY <1>1, <1>2

(* The code point of two, three and four bytes, and their rows of the      *)
(* table.                                                                  *)
Code2(x, y) == ((x % 32) * 64) + (y % 64)
Code3(x, y, z) == ((((x % 16) * 64) + (y % 64)) * 64) + (z % 64)
Code4(x, y, z, w) == ((((((x % 8) * 64) + (y % 64)) * 64) + (z % 64)) * 64) + (w % 64)
Row2(x) == x \in 194..223
Row3(x, y) ==
    \/ x = 224 /\ y >= 160
    \/ x = 237 /\ y <= 159
    \/ x \in 225..239 \ {237}
Row4(x, y) ==
    \/ x = 240 /\ y >= 144
    \/ x = 244 /\ y <= 143
    \/ x \in 241..243

(* A byte alone, and two, three and four of them: what the loop accepts    *)
(* is a row of the table, and the other way round.                         *)
LEMMA OneByte ==
    ASSUME NEW x \in Nat
    PROVE  ContinuationCount(x) = 0 <=> x \in 0..127
BY DEF ContinuationCount

(* A lead byte for one continuation byte with an encodable value is the    *)
(* table's row of two bytes: overlong forms, which Encodable refuses by    *)
(* their value, are the lead bytes that the row leaves out.                *)
LEMMA TwoBytes ==
    ASSUME NEW x \in Nat, NEW y \in 128..191
    PROVE  ContinuationCount(x) = 1 /\ Encodable(Code2(x, y), 1) <=> Row2(x)
<1> DEFINE cp == Code2(x, y)
<1>1. ContinuationCount(x) = 1 <=> x \in 192..223
  BY DEF ContinuationCount
<1>2. ASSUME x \in 192..223 PROVE cp = ((x - 192) * 64) + (y - 128)
  <2>1. y % 64 = y - 128 /\ x % 32 = x - 192
    BY <1>2, SMT
  <2> QED
    BY <2>1 DEF Code2
<1> HIDE DEF cp
<1>3. Encodable(cp, 1) <=> cp >= 128 /\ cp <= 1114111 /\ ~(cp >= 55296 /\ cp <= 57343)
  BY SMT DEF Encodable, Minimum
<1>4. ASSUME x \in 192..223 PROVE Encodable(cp, 1) <=> Row2(x)
  BY <1>2, <1>3, <1>4, SMT DEF Row2
<1>5. Row2(x) => x \in 192..223
  BY SMT DEF Row2
<1> QED
  BY <1>1, <1>4, <1>5, Zenon DEF cp

(* The same for two continuation bytes: Encodable refuses overlong forms   *)
(* and surrogates by value, the table by the range of the second byte.     *)
LEMMA ThreeBytes ==
    ASSUME NEW x \in Nat, NEW y \in 128..191, NEW z \in 128..191
    PROVE  ContinuationCount(x) = 2 /\ Encodable(Code3(x, y, z), 2) <=> Row3(x, y)
<1> DEFINE cp == Code3(x, y, z)
<1>1. ContinuationCount(x) = 2 <=> x \in 224..239
  BY DEF ContinuationCount
<1>2. ASSUME x \in 224..239 PROVE cp = ((((x - 224) * 64) + (y - 128)) * 64) + (z - 128)
  <2>1. y % 64 = y - 128 /\ z % 64 = z - 128 /\ x % 16 = x - 224
    BY <1>2, SMT
  <2> QED
    BY <2>1 DEF Code3
<1> HIDE DEF cp
<1>3. Encodable(cp, 2) <=> cp >= 2048 /\ cp <= 1114111 /\ ~(cp >= 55296 /\ cp <= 57343)
  BY SMT DEF Encodable, Minimum
<1>4. ASSUME x \in 224..239 PROVE Encodable(cp, 2) <=> Row3(x, y)
  BY <1>2, <1>3, <1>4, SMT DEF Row3
<1>5. Row3(x, y) => x \in 224..239
  BY SMT DEF Row3
<1> QED
  BY <1>1, <1>4, <1>5, Zenon DEF cp

(* The same for three continuation bytes, where the values above the last  *)
(* code point are refused too.                                             *)
LEMMA FourBytes ==
    ASSUME NEW x \in Nat, NEW y \in 128..191, NEW z \in 128..191, NEW w \in 128..191
    PROVE  ContinuationCount(x) = 3 /\ Encodable(Code4(x, y, z, w), 3) <=> Row4(x, y)
<1> DEFINE cp == Code4(x, y, z, w)
<1>1. ContinuationCount(x) = 3 <=> x \in 240..247
  BY DEF ContinuationCount
<1>2. ASSUME x \in 240..247
      PROVE  cp = ((((((x - 240) * 64) + (y - 128)) * 64) + (z - 128)) * 64) + (w - 128)
  <2>1. y % 64 = y - 128 /\ z % 64 = z - 128 /\ w % 64 = w - 128 /\ x % 8 = x - 240
    BY <1>2, SMT
  <2> QED
    BY <2>1 DEF Code4
<1> HIDE DEF cp
<1>3. Encodable(cp, 3) <=> cp >= 65536 /\ cp <= 1114111 /\ ~(cp >= 55296 /\ cp <= 57343)
  BY SMT DEF Encodable, Minimum
<1>4. ASSUME x \in 240..247 PROVE Encodable(cp, 3) <=> Row4(x, y)
  BY <1>2, <1>3, <1>4, SMT DEF Row4
<1>5. Row4(x, y) => x \in 240..247
  BY SMT DEF Row4
<1> QED
  BY <1>1, <1>4, <1>5, Zenon DEF cp

(* One round of the loop accepts exactly the pieces of the table. *)
LEMMA RoundIsPiece ==
    ASSUME NEW text \in Seq(Nat), NEW i \in 1..Len(text), NEW c \in 0..3, i + c <= Len(text)
    PROVE  WellFormedPiece(SubSeq(text, i, i + c))
           <=> EncodesAt(text, i) /\ ContinuationCount(text[i]) = c
<1> DEFINE p == SubSeq(text, i, i + c)
           x == text[i]
           Following == \A k \in 1..c : text[i + k] \in 128..191
<1>1. Len(p) = c + 1 /\ \A k \in 1..c + 1 : p[k] = text[i + k - 1]
  BY PieceBytes
<1>2. x \in Nat /\ p[1] = x
  BY <1>1
<1>3. (\A k \in 2..Len(p) : p[k] \in 128..191) <=> Following
  <2>1. ASSUME \A k \in 2..Len(p) : p[k] \in 128..191, NEW k \in 1..c
        PROVE  text[i + k] \in 128..191
    <3>1. k + 1 \in 2..Len(p) /\ k + 1 \in 1..c + 1 /\ i + (k + 1) - 1 = i + k
      BY <1>1
    <3> HIDE DEF p
    <3> QED
      BY <1>1, <2>1, <3>1
  <2>2. ASSUME Following, NEW k \in 2..Len(p)
        PROVE  p[k] \in 128..191
    <3>1. k - 1 \in 1..c /\ k \in 1..c + 1 /\ i + (k - 1) = i + k - 1
      BY <1>1
    <3> HIDE DEF p
    <3> QED
      BY <1>1, <2>2, <3>1
  <2> QED
    BY <2>1, <2>2
<1> HIDE DEF p, x
<1>4. EncodesAt(text, i) /\ ContinuationCount(text[i]) = c
      <=> Following /\ ContinuationCount(x) = c /\ (c > 0 => Encodable(CodePoint(text, i, c), c))
  <2> HIDE DEF Following
  <2>1. c >= 0
    OBVIOUS
  <2> QED
    BY <2>1 DEF EncodesAt, x, Following
<1>5. CASE ~Following
  BY <1>3, <1>4, <1>5 DEF WellFormedPiece, p
<1>6. CASE Following /\ c = 0
  <2> HIDE DEF Following
  <2>1. WellFormedPiece(p) <=> x \in 0..127
    BY <1>1, <1>2, <1>3, <1>6 DEF WellFormedPiece
  <2>2. EncodesAt(text, i) /\ ContinuationCount(text[i]) = c <=> ContinuationCount(x) = 0
    BY <1>4, <1>6
  <2> QED
    BY <1>2, <2>1, <2>2, OneByte DEF p
<1>7. CASE Following /\ c = 1
  <2>1. \A k \in 1..1 : text[i + k] \in 128..191
    BY <1>7
  <2>2. Len(p) = 2 /\ p[1] = x /\ p[2] = text[i + 1]
    BY <1>1, <1>2, <1>7
  <2>3. CodePoint(text, i, 1) = Code2(x, text[i + 1])
    BY DEF CodePoint, Code2, x
  <2>4. \A k \in 2..Len(p) : p[k] \in 128..191
    BY <1>3, <1>7
  <2>5. WellFormedPiece(p) <=> Row2(x)
    BY <2>2, <2>4 DEF WellFormedPiece, Row2
  <2> HIDE DEF Following
  <2>6. EncodesAt(text, i) /\ ContinuationCount(text[i]) = c
        <=> ContinuationCount(x) = 1 /\ Encodable(CodePoint(text, i, 1), 1)
    BY <1>4, <1>7
  <2>7. ContinuationCount(x) = 1 /\ Encodable(Code2(x, text[i + 1]), 1)
        <=> Row2(x)
    <3>1. text[i + 1] \in 128..191
      BY <2>1
    <3> QED
      BY <1>2, <3>1, TwoBytes, Zenon
  <2> QED
    BY <2>3, <2>5, <2>6, <2>7, Zenon DEF p
<1>8. CASE Following /\ c = 2
  <2>1. \A k \in 1..2 : text[i + k] \in 128..191
    BY <1>8
  <2>2. Len(p) = 3 /\ p[1] = x /\ p[2] = text[i + 1]
    BY <1>1, <1>2, <1>8
  <2>3. CodePoint(text, i, 2) = Code3(x, text[i + 1], text[i + 2])
    BY DEF CodePoint, Code3, x
  <2>4. \A k \in 2..Len(p) : p[k] \in 128..191
    BY <1>3, <1>8
  <2>5. WellFormedPiece(p) <=> Row3(x, text[i + 1])
    BY <2>2, <2>4 DEF WellFormedPiece, Row3
  <2> HIDE DEF Following
  <2>6. EncodesAt(text, i) /\ ContinuationCount(text[i]) = c
        <=> ContinuationCount(x) = 2 /\ Encodable(CodePoint(text, i, 2), 2)
    BY <1>4, <1>8
  <2>7. ContinuationCount(x) = 2 /\ Encodable(Code3(x, text[i + 1], text[i + 2]), 2)
        <=> Row3(x, text[i + 1])
    <3>1. text[i + 1] \in 128..191 /\ text[i + 2] \in 128..191
      BY <2>1
    <3> QED
      BY <1>2, <3>1, ThreeBytes, Zenon
  <2> QED
    BY <2>3, <2>5, <2>6, <2>7, Zenon DEF p
<1>9. CASE Following /\ c = 3
  <2>1. \A k \in 1..3 : text[i + k] \in 128..191
    BY <1>9
  <2>2. Len(p) = 4 /\ p[1] = x /\ p[2] = text[i + 1]
    BY <1>1, <1>2, <1>9
  <2>3. CodePoint(text, i, 3) = Code4(x, text[i + 1], text[i + 2], text[i + 3])
    BY DEF CodePoint, Code4, x
  <2>4. \A k \in 2..Len(p) : p[k] \in 128..191
    BY <1>3, <1>9
  <2>5. WellFormedPiece(p) <=> Row4(x, text[i + 1])
    BY <2>2, <2>4 DEF WellFormedPiece, Row4
  <2> HIDE DEF Following
  <2>6. EncodesAt(text, i) /\ ContinuationCount(text[i]) = c
        <=> ContinuationCount(x) = 3 /\ Encodable(CodePoint(text, i, 3), 3)
    BY <1>4, <1>9
  <2>7. ContinuationCount(x) = 3 /\ Encodable(Code4(x, text[i + 1], text[i + 2], text[i + 3]), 3)
        <=> Row4(x, text[i + 1])
    <3>1. text[i + 1] \in 128..191 /\ text[i + 2] \in 128..191 /\ text[i + 3] \in 128..191
      BY <2>1
    <3> QED
      BY <1>2, <3>1, FourBytes, Zenon
  <2> QED
    BY <2>3, <2>5, <2>6, <2>7, Zenon DEF p
<1> QED
  BY <1>5, <1>6, <1>7, <1>8, <1>9

(* a is the position before b. *)
Before(ends, a, b) == a < b /\ ends \cap (a + 1)..(b - 1) = {}

(* There is only one position before b, so that a CHOOSE of it is that     *)
(* one.                                                                    *)
LEMMA OneBefore ==
    ASSUME NEW ends \in SUBSET Nat, NEW b \in Nat, NEW a \in ends, Before(ends, a, b)
    PROVE  (CHOOSE p \in ends : p < b /\ ends \cap (p + 1)..(b - 1) = {}) = a
<1> DEFINE q == CHOOSE p \in ends : Before(ends, p, b)
<1>1. q \in ends /\ Before(ends, q, b)
  OBVIOUS
<1>2. q = (CHOOSE p \in ends : p < b /\ ends \cap (p + 1)..(b - 1) = {})
  BY DEF Before
<1> HIDE DEF q
<1>3. q \in Nat /\ a \in Nat
  BY <1>1
<1>4. ~(a < q) /\ ~(q < a)
  <2>1. ASSUME a < q PROVE FALSE
    <3>1. q \in (a + 1)..(b - 1)
      BY <1>1, <1>3, <2>1 DEF Before
    <3> QED
      BY <1>1, <3>1, Zenon DEF Before
  <2>2. ASSUME q < a PROVE FALSE
    <3>1. a \in (q + 1)..(b - 1)
      BY <1>3, <2>2 DEF Before
    <3> QED
      BY <1>1, <3>1, Zenon DEF Before
  <2> QED
    BY <2>1, <2>2
<1> QED
  BY <1>2, <1>3, <1>4

(* From position j to the end of the text, piece after piece. *)
Chain(text, ends, j) ==
    /\ ends \subseteq j..Len(text)
    /\ j \in ends /\ Len(text) \in ends
    /\ \A b \in ends \ {j} : \E a \in ends :
          Before(ends, a, b) /\ WellFormedPiece(SubSeq(text, a + 1, b))

(* A round of the loop is a piece more. *)
LEMMA ChainGrows ==
    ASSUME NEW text \in Seq(Nat), NEW j \in 0..Len(text), NEW c \in 0..3,
           j + 1 <= Len(text), j + 1 + c <= Len(text),
           EncodesAt(text, j + 1), ContinuationCount(text[j + 1]) = c,
           NEW ends, Chain(text, ends, j + 1 + c)
    PROVE  Chain(text, ends \cup {j}, j)
<1> DEFINE n == Len(text)
           m == j + 1 + c
           more == ends \cup {j}
<1>1. n \in Nat /\ j \in Nat /\ m \in 1..n /\ j < m
  OBVIOUS
<1>2. ends \subseteq m..n /\ m \in ends /\ n \in ends
  BY DEF Chain
<1>3. WellFormedPiece(SubSeq(text, j + 1, m))
  <2>1. j + 1 \in 1..Len(text) /\ (j + 1) + c <= Len(text)
    OBVIOUS
  <2> QED
    BY <2>1, RoundIsPiece
<1>4. \A b \in ends \ {m} : \E a \in ends :
          Before(ends, a, b) /\ WellFormedPiece(SubSeq(text, a + 1, b))
  BY DEF Chain
<1> HIDE DEF n, m
<1>5. ASSUME NEW b \in more \ {j}
      PROVE  \E a \in more : Before(more, a, b) /\ WellFormedPiece(SubSeq(text, a + 1, b))
  <2>1. CASE b = m
    <3>1. more \cap (j + 1)..(m - 1) = {}
      BY <1>1, <1>2
    <3> QED
      BY <1>1, <1>3, <2>1, <3>1 DEF Before
  <2>2. CASE b # m
    <3>1. b \in ends /\ b \in Nat
      BY <1>1, <1>2
    <3>2. PICK a \in ends : Before(ends, a, b) /\ WellFormedPiece(SubSeq(text, a + 1, b))
      BY <1>4, <2>2, <3>1
    <3>3. a \in Nat /\ j < a
      BY <1>1, <1>2
    <3>4. j \notin (a + 1)..(b - 1)
      BY <1>1, <3>3
    <3> QED
      BY <3>2, <3>4, Zenon DEF Before
  <2> QED
    BY <2>1, <2>2
<1>6. more \subseteq j..n
  BY <1>1, <1>2
<1> QED
  BY <1>2, <1>5, <1>6 DEF Chain, n

(* The loop accepts well-formed texts only, however long. *)
LEMMA AcceptedIsWellFormed ==
    ASSUME NEW text \in Seq(Nat), IsValidUtf8(text)
    PROVE  WellFormed(text)
<1> DEFINE n == Len(text)
<1>1. PICK v : (\A index \in 1..n + 1 : v[index] <=> ValidAt(text, v, index)) /\ v[1]
  BY Utf8LoopFacts
<1> DEFINE Chained(k) == \E ends : Chain(text, ends, n - k)
           Bad == {k \in Nat : k <= n /\ v[n - k + 1] /\ ~Chained(k)}
<1>2. n \in Nat
  OBVIOUS
<1>3. 0 \notin Bad
  <2>1. n - 0 = n /\ {n} \subseteq n..n
    BY <1>2
  <2>2. Chain(text, {n}, n)
    BY <2>1 DEF Chain
  <2>3. Chained(0)
    BY <2>1, <2>2
  <2> QED
    BY <2>3
<1>4. ASSUME NEW k \in Bad, \A m \in Bad : k <= m
      PROVE  FALSE
  <2> DEFINE j == n - k
             c == ContinuationCount(text[j + 1])
  <2>1. k \in Nat /\ k <= n /\ v[j + 1] /\ ~Chained(k) /\ k # 0
    BY <1>3
  <2> HIDE DEF Bad
  <2>2. j \in 0..n /\ j + 1 \in 1..n /\ j + 1 \in 1..n + 1 /\ j + 1 <= n
    BY <1>2, <2>1
  <2>3. EncodesAt(text, j + 1) /\ v[(j + 1) + c + 1]
    <3>1. ValidAt(text, v, j + 1)
      BY <1>1, <2>1, <2>2
    <3>2. ~(j + 1 > Len(text))
      BY <2>2
    <3> HIDE DEF j
    <3> QED
      BY <3>1, <3>2 DEF ValidAt
  <2>4. c \in 0..3 /\ (j + 1) + c <= n
    BY <2>2, <2>3, Forward
  <2> HIDE DEF c
  <2>5. k - 1 - c \in Nat /\ k - 1 - c <= n /\ n - (k - 1 - c) = j + 1 + c
    BY <1>2, <2>1, <2>4
  <2>6. k - 1 - c \notin Bad
    <3>1. ~(k <= k - 1 - c)
      BY <2>1, <2>4
    <3> QED
      BY <1>4, <3>1
  <2>7. v[n - (k - 1 - c) + 1]
    BY <2>3, <2>5
  <2>8. Chained(k - 1 - c)
    <3> HIDE DEF Chained
    <3> QED
      BY <2>5, <2>6, <2>7 DEF Bad
  <2>9. PICK ends : Chain(text, ends, j + 1 + c)
    BY <2>5, <2>8
  <2>10. Chain(text, ends \cup {j}, j)
    <3> HIDE DEF j
    <3> QED
      BY <2>2, <2>3, <2>4, <2>9, ChainGrows DEF c
  <2> QED
    BY <2>1, <2>10
<1>5. Bad = {}
  <2> SUFFICES ASSUME Bad # {} PROVE FALSE
    OBVIOUS
  <2>1. Bad \in SUBSET Nat
    OBVIOUS
  <2> HIDE DEF Bad
  <2> QED
    BY <1>4, <2>1, Facts!LeastElement
<1>6. PICK ends : Chain(text, ends, 0)
  <2>1. n <= n /\ n - n = 0 /\ n - n + 1 = 1
    BY <1>2
  <2>2. Chained(n)
    <3> HIDE DEF Chained
    <3> QED
      BY <1>1, <1>2, <1>5, <2>1
  <2> QED
    BY <2>1, <2>2
<1>7. ends \in SUBSET (0..n) /\ {0, n} \subseteq ends
  BY <1>6 DEF Chain
<1>8. ASSUME NEW b \in ends \ {0}
      PROVE  LET a == CHOOSE a \in ends : a < b /\ ends \cap (a + 1)..(b - 1) = {}
             IN WellFormedPiece(SubSeq(text, a + 1, b))
  <2>1. PICK a \in ends : Before(ends, a, b) /\ WellFormedPiece(SubSeq(text, a + 1, b))
    BY <1>6 DEF Chain
  <2>2. ends \in SUBSET Nat /\ b \in Nat
    BY <1>7
  <2> QED
    BY <2>1, <2>2, OneBefore
<1> QED
  BY <1>7, <1>8 DEF WellFormed

(* And it accepts every one of them. *)
LEMMA WellFormedIsAccepted ==
    ASSUME NEW text \in Seq(Nat), WellFormed(text)
    PROVE  IsValidUtf8(text)
<1> DEFINE n == Len(text)
<1>1. PICK v : /\ \A index \in 1..n + 1 : v[index] <=> ValidAt(text, v, index)
               /\ v[1] <=> IsValidUtf8(text)
  BY Utf8LoopFacts
<1>2. PICK ends \in SUBSET (0..n) :
          /\ {0, n} \subseteq ends
          /\ \A b \in ends \ {0} :
                LET a == CHOOSE a \in ends : a < b /\ ends \cap (a + 1)..(b - 1) = {}
                IN WellFormedPiece(SubSeq(text, a + 1, b))
  BY DEF WellFormed
<1> DEFINE Bad == {k \in Nat : k <= n /\ n - k \in ends /\ ~v[n - k + 1]}
<1>3. n \in Nat
  OBVIOUS
<1>4. 0 \notin Bad
  <2>1. n - 0 + 1 = n + 1 /\ n + 1 \in 1..n + 1 /\ n + 1 > n
    BY <1>3
  <2>2. v[n + 1]
    BY <1>1, <2>1 DEF ValidAt
  <2> QED
    BY <2>1, <2>2
<1>5. ASSUME NEW k \in Bad, \A m \in Bad : k <= m
      PROVE  FALSE
  <2> DEFINE a == n - k
             Ahead == {d \in Nat : d > 0 /\ a + d \in ends}
  <2>1. k \in Nat /\ k <= n /\ a \in ends /\ ~v[a + 1] /\ k # 0
    BY <1>4
  <2>2. a \in Nat /\ a + k = n /\ k > 0 /\ a + 1 \in 1..n /\ a + 1 \in 1..n + 1
    BY <1>3, <2>1
  <2>3. PICK d \in Ahead : \A e \in Ahead : d <= e
    <3>1. Ahead \in SUBSET Nat
      OBVIOUS
    <3>2. k \in Ahead
      BY <1>2, <2>1, <2>2
    <3> HIDE DEF Ahead
    <3> QED
      BY <3>1, <3>2, Facts!LeastElement
  <2> DEFINE b == a + d
  <2> HIDE DEF a, Bad
  <2>4. d \in Nat /\ d > 0 /\ b \in ends /\ b \in 0..n /\ b \in Nat /\ b # 0
    BY <1>2, <2>2
  <2>5. Before(ends, a, b)
    <3>1. ASSUME NEW p \in ends, p \in (a + 1)..(b - 1) PROVE FALSE
      <4>1. p - a \in Nat /\ p - a > 0 /\ a + (p - a) = p /\ ~(d <= p - a)
        BY <2>2, <2>4, <3>1
      <4>2. p - a \in Ahead
        BY <3>1, <4>1
      <4> QED
        BY <2>3, <4>1, <4>2
    <3>2. a < b
      BY <2>2, <2>4
    <3> QED
      BY <3>1, <3>2, Zenon DEF Before
  <2> HIDE DEF b
  <2>6. WellFormedPiece(SubSeq(text, a + 1, b))
    <3>1. ends \in SUBSET Nat
      BY <1>2
    <3>2. (CHOOSE p \in ends : p < b /\ ends \cap (p + 1)..(b - 1) = {}) = a
      BY <2>1, <2>4, <2>5, <3>1, OneBefore
    <3> QED
      BY <1>2, <2>4, <3>2
  <2> DEFINE c == b - (a + 1)
  <2>7. c \in Nat /\ (a + 1) + c = b /\ d = c + 1
    BY <2>2, <2>4 DEF b
  <2>8. c \in 0..3
    <3> HIDE DEF c
    <3>1. Len(SubSeq(text, a + 1, b)) = c + 1
      BY <2>2, <2>4, <2>7, PieceBytes
    <3>2. Len(SubSeq(text, a + 1, b)) \in {1, 2, 3, 4}
      BY <2>6 DEF WellFormedPiece
    <3>3. c \in Nat /\ c + 1 \in {1, 2, 3, 4}
      BY <2>7, <3>1, <3>2, Zenon
    <3> QED
      BY ONLY <3>3, SMT
  <2> HIDE DEF c
  <2>9. EncodesAt(text, a + 1) /\ ContinuationCount(text[a + 1]) = c
    <3>1. (a + 1) + c <= Len(text)
      BY <2>4, <2>7
    <3> QED
      BY <2>2, <2>6, <2>7, <2>8, <3>1, RoundIsPiece
  <2>10. v[b + 1]
    <3>1. k - d \in Nat /\ ~(k <= k - d) /\ k - d <= n /\ n - (k - d) = b
      BY <1>3, <2>1, <2>2, <2>4 DEF b, a
    <3>2. k - d \notin Bad
      BY <1>5, <3>1
    <3> QED
      BY <2>4, <3>1, <3>2 DEF Bad
  <2>11. (a + 1) + c + 1 = b + 1
    BY <2>7
  <2>12. ValidAt(text, v, a + 1)
    BY <2>9, <2>10, <2>11 DEF ValidAt
  <2> QED
    BY <1>1, <2>1, <2>2, <2>12
<1>6. Bad = {}
  <2> SUFFICES ASSUME Bad # {} PROVE FALSE
    OBVIOUS
  <2>1. Bad \in SUBSET Nat
    OBVIOUS
  <2> HIDE DEF Bad
  <2> QED
    BY <1>5, <2>1, Facts!LeastElement
<1>7. n <= n /\ n - n = 0 /\ n - n + 1 = 1
  BY <1>3
<1> QED
  BY <1>1, <1>2, <1>3, <1>6, <1>7

(* The rule for texts is Unicode's: the loop accepts the well-formed       *)
(* sequences of bytes and no others, whatever their length. IsValidUtf8.   *)
THEOREM Utf8RuleIsUnicode ==
    \A text \in Seq(Nat) : IsValidUtf8(text) <=> WellFormed(text)
BY AcceptedIsWellFormed, WellFormedIsAccepted
-----------------------------------------------------------------------------
(* Split *)

(* What the loop over find does with a token. *)
Take(before, token, separator) ==
    IF token = separator
    THEN Append(before, <<>>)
    ELSE [before EXCEPT ![Len(before)] = Append(@, token)]

(* The loop over the first n tokens. *)
SplitLoop(f, s, separator, n) ==
    f = [i \in 0..n |-> IF i = 0 THEN << <<>> >> ELSE Take(f[i - 1], s[i], separator)]

(* What the loop starts with and what one token does to it. *)
LEMMA SplitLoopFacts ==
    ASSUME NEW f, NEW s, NEW separator, NEW n \in Nat, SplitLoop(f, s, separator, n)
    PROVE  /\ f[0] = << <<>> >>
           /\ \A i \in 1..n : f[i] = Take(f[i - 1], s[i], separator)
<1> DEFINE Body(i) == IF i = 0 THEN << <<>> >> ELSE Take(f[i - 1], s[i], separator)
<1>1. f = [i \in 0..n |-> Body(i)]
  BY DEF SplitLoop
<1>2. Body(0) = << <<>> >> /\ \A i \in 1..n : Body(i) = Take(f[i - 1], s[i], separator)
  OBVIOUS
<1>3. 0 \in 0..n /\ \A i \in 1..n : i \in 0..n
  OBVIOUS
<1> HIDE DEF Body
<1> QED
  BY <1>1, <1>2, <1>3

(* The loop of Split is defined for any number of tokens; the recursive    *)
(* function that Split is written with is therefore one.                   *)
LEMMA SplitLoopExists ==
    ASSUME NEW s, NEW separator, NEW n \in Nat
    PROVE  \E f : SplitLoop(f, s, separator, n)
<1> DEFINE Defined(k) == \E f : SplitLoop(f, s, separator, k)
           P == {k \in Nat : Defined(k)}
<1>1. 0 \in P
  <2> DEFINE f == [i \in 0..0 |-> << <<>> >>]
  <2>1. \A i \in 0..0 : (IF i = 0 THEN << <<>> >> ELSE Take(f[i - 1], s[i], separator)) = << <<>> >>
    OBVIOUS
  <2>2. SplitLoop(f, s, separator, 0)
    BY <2>1 DEF SplitLoop
  <2> QED
    BY <2>2
<1>2. ASSUME NEW k \in Nat, k \in P
      PROVE  k + 1 \in P
  <2>1. PICK f : SplitLoop(f, s, separator, k)
    BY <1>2
  <2> DEFINE g == [i \in 0..k + 1 |-> IF i <= k THEN f[i] ELSE Take(f[k], s[k + 1], separator)]
             Body(i) == IF i = 0 THEN << <<>> >> ELSE Take(g[i - 1], s[i], separator)
  <2>2. f[0] = << <<>> >> /\ \A i \in 1..k : f[i] = Take(f[i - 1], s[i], separator)
    BY <2>1, SplitLoopFacts
  <2>3. \A i \in 0..k : g[i] = f[i]
    OBVIOUS
  <2>4. g[k + 1] = Take(f[k], s[k + 1], separator)
    OBVIOUS
  <2>5. DOMAIN g = 0..k + 1 /\ g = [i \in 0..k + 1 |-> g[i]]
    OBVIOUS
  <2> HIDE DEF g
  <2>6. ASSUME NEW i \in 0..k + 1 PROVE g[i] = Body(i)
    <3>1. CASE i = 0
      BY <2>2, <2>3, <3>1
    <3>2. CASE i \in 1..k
      <4>1. i - 1 \in 0..k /\ i \in 0..k /\ i # 0
        BY <3>2
      <4> QED
        BY <2>2, <2>3, <3>2, <4>1
    <3>3. CASE i = k + 1
      <4>1. i - 1 = k /\ k \in 0..k /\ i # 0
        BY <3>3
      <4> QED
        BY <2>3, <2>4, <3>3, <4>1
    <3> QED
      BY <3>1, <3>2, <3>3
  <2>7. SplitLoop(g, s, separator, k + 1)
    BY <2>5, <2>6 DEF SplitLoop
  <2> QED
    BY <2>7
<1> HIDE DEF P
<1>3. n \in P
  BY <1>1, <1>2, Facts!SetInduction
<1> QED
  BY <1>3 DEF P

(* Split is where the loop ends. *)
LEMMA SplitIsLoop ==
    ASSUME NEW s, NEW separator, Len(s) \in Nat
    PROVE  \E f : SplitLoop(f, s, separator, Len(s)) /\ f[Len(s)] = Split(s, separator)
<1> DEFINE f == CHOOSE g : SplitLoop(g, s, separator, Len(s))
<1>1. SplitLoop(f, s, separator, Len(s))
  BY SplitLoopExists
<1>2. Split(s, separator) = f[Len(s)]
  BY DEF Split, SplitLoop, Take
<1> QED
  BY <1>1, <1>2

(* Concatenation, as an operator of its own for the provers. *)
Cat(p, q) == p \o q

(* Appending to a concatenation. *)
LEMMA CatAppend ==
    ASSUME NEW U, NEW p \in Seq(U), NEW q \in Seq(U), NEW e \in U
    PROVE  Append(Cat(p, q), e) = Cat(p, Append(q, e))
BY DEF Cat

(* Taking a token leaves the parts before the last one alone. *)
LEMMA TakeFacts ==
    ASSUME NEW T, NEW q \in Seq(Seq(T)), q # <<>>, NEW token \in T, NEW separator
    PROVE  /\ Take(q, token, separator) \in Seq(Seq(T))
           /\ Take(q, token, separator) # <<>>
           /\ \A p \in Seq(Seq(T)) :
                 Take(Cat(p, q), token, separator) = Cat(p, Take(q, token, separator))
<1> DEFINE U == Seq(T)
<1>1. <<>> \in U
  OBVIOUS
<1>2. Len(q) \in Nat \ {0} /\ q[Len(q)] \in U /\ Append(q[Len(q)], token) \in U
  OBVIOUS
<1> HIDE DEF U
<1>3. CASE token = separator
  <2>1. Take(q, token, separator) = Append(q, <<>>)
    BY <1>3 DEF Take
  <2>2. ASSUME NEW p \in Seq(U) PROVE Append(p \o q, <<>>) = p \o Append(q, <<>>)
    <3>1. q \in Seq(U)
      BY DEF U
    <3> QED
      <4> DEFINE e == <<>>
      <4>1. e \in U
        BY <1>1
      <4> HIDE DEF e
      <4>2. Append(Cat(p, q), e) = Cat(p, Append(q, e))
        BY <3>1, <4>1, CatAppend
      <4> QED
        BY <4>2 DEF e, Cat
  <2>3. \A p \in Seq(U) : Take(p \o q, token, separator) = Append(p \o q, <<>>)
    BY <1>3 DEF Take
  <2>4. Append(q, <<>>) \in Seq(U) /\ Append(q, <<>>) # <<>>
    BY <1>1 DEF U
  <2> QED
    BY <2>1, <2>2, <2>3, <2>4 DEF U, Cat
<1>4. CASE token # separator
  <2> DEFINE x == Append(q[Len(q)], token)
             r == [q EXCEPT ![Len(q)] = x]
  <2>1. Take(q, token, separator) = r
    BY <1>4 DEF Take
  <2>2. q \in Seq(U) /\ x \in U
    BY <1>2 DEF U
  <2> HIDE DEF x
  <2>3. r \in Seq(U) /\ Len(r) = Len(q) /\ r # <<>>
    BY <1>2, <2>2
  <2>4. ASSUME NEW p \in Seq(U) PROVE Take(p \o q, token, separator) = p \o r
    <3> DEFINE pq == p \o q
    <3>1. Len(pq) = Len(p) + Len(q) /\ pq[Len(pq)] = q[Len(q)] /\ pq \in Seq(U)
      BY <1>2, <2>2
    <3>2. Take(pq, token, separator) = [pq EXCEPT ![Len(pq)] = x]
      BY <1>4, <3>1 DEF Take, x
    <3>3. [pq EXCEPT ![Len(pq)] = x] = p \o r
      BY <2>2, <3>1, Facts!ConcatExcept
    <3> QED
      BY <3>2, <3>3
  <2> QED
    BY <2>1, <2>3, <2>4 DEF U, Cat
<1> QED
  BY <1>3, <1>4

(* The loop always has parts. *)
LEMMA SplitLoopType ==
    ASSUME NEW T, NEW s \in Seq(T), NEW separator, NEW f, SplitLoop(f, s, separator, Len(s))
    PROVE  \A i \in 0..Len(s) : f[i] \in Seq(Seq(T)) /\ f[i] # <<>>
<1> DEFINE n == Len(s)
           P == {i \in Nat : i <= n => f[i] \in Seq(Seq(T)) /\ f[i] # <<>>}
<1>1. n \in Nat
  OBVIOUS
<1>2. f[0] = << <<>> >> /\ \A i \in 1..n : f[i] = Take(f[i - 1], s[i], separator)
  BY <1>1, SplitLoopFacts
<1> HIDE DEF n
<1>3. 0 \in P
  <2>1. << <<>> >> \in Seq(Seq(T)) /\ << <<>> >> # <<>>
    OBVIOUS
  <2> QED
    BY <1>2, <2>1
<1>4. ASSUME NEW k \in Nat, k \in P PROVE k + 1 \in P
  <2> SUFFICES ASSUME k + 1 <= n
               PROVE  f[k + 1] \in Seq(Seq(T)) /\ f[k + 1] # <<>>
    OBVIOUS
  <2>1. k <= n /\ k + 1 \in 1..n /\ (k + 1) - 1 = k
    BY <1>1
  <2>2. s[k + 1] \in T
    BY <2>1 DEF n
  <2>3. f[k + 1] = Take(f[k], s[k + 1], separator)
    BY <1>2, <2>1
  <2>4. f[k] \in Seq(Seq(T)) /\ f[k] # <<>>
    BY <1>4, <2>1
  <2> QED
    BY <2>2, <2>3, <2>4, TakeFacts
<1> HIDE DEF P
<1>5. Nat \subseteq P
  BY <1>3, <1>4, Facts!SetInduction
<1> QED
  BY <1>1, <1>5 DEF P, n

(* The parts of a text are a sequence, never empty. *)
LEMMA SplitType ==
    ASSUME NEW T, NEW s \in Seq(T), NEW separator
    PROVE  Split(s, separator) \in Seq(Seq(T)) /\ Split(s, separator) # <<>>
<1>1. Len(s) \in Nat
  OBVIOUS
<1>2. PICK f : SplitLoop(f, s, separator, Len(s)) /\ f[Len(s)] = Split(s, separator)
  BY <1>1, SplitIsLoop
<1>3. Len(s) \in 0..Len(s)
  BY <1>1
<1> QED
  BY <1>2, <1>3, SplitLoopType

(* Without a separator there is one part, the text. *)
LEMMA SplitOne ==
    ASSUME NEW x, NEW separator, x # separator
    PROVE  Split(<<x>>, separator) = << <<x>> >>
<1>1. Len(<<x>>) = 1 /\ <<x>>[1] = x
  OBVIOUS
<1>2. PICK f : SplitLoop(f, <<x>>, separator, 1) /\ f[1] = Split(<<x>>, separator)
  BY <1>1, SplitIsLoop
<1>3. f[0] = << <<>> >> /\ f[1] = Take(f[0], x, separator)
  <2>1. 1 \in 1..1 /\ 1 - 1 = 0
    OBVIOUS
  <2> QED
    BY <1>1, <1>2, <2>1, SplitLoopFacts
<1>4. Take(<< <<>> >>, x, separator) = << <<x>> >>
  BY DEF Take
<1> QED
  BY <1>2, <1>3, <1>4

Between(a, separator, b) == a \o <<separator>> \o b

(* The parts of two texts with a separator between them. *)
LEMMA SplitConcat ==
    ASSUME NEW T, NEW a \in Seq(T), NEW b \in Seq(T), NEW separator \in T
    PROVE  Split(Between(a, separator, b), separator)
           = Cat(Split(a, separator), Split(b, separator))
<1> DEFINE s == a \o <<separator>> \o b
           m == Len(a)
           n == Len(b)
<1>1. m \in Nat /\ n \in Nat /\ s \in Seq(T) /\ Len(s) = m + 1 + n
  OBVIOUS
<1>2. /\ \A i \in 1..m : s[i] = a[i] /\ a[i] \in T
      /\ s[m + 1] = separator
      /\ \A i \in 1..n : s[m + 1 + i] = b[i] /\ b[i] \in T
  OBVIOUS
<1> HIDE DEF s, m, n
<1>3. PICK f : SplitLoop(f, s, separator, m + 1 + n) /\ f[m + 1 + n] = Split(s, separator)
  BY <1>1, SplitIsLoop
<1>4. PICK g : SplitLoop(g, a, separator, m) /\ g[m] = Split(a, separator)
  BY <1>1, SplitIsLoop DEF m
<1>5. PICK h : SplitLoop(h, b, separator, n) /\ h[n] = Split(b, separator)
  BY <1>1, SplitIsLoop DEF n
<1>6. f[0] = << <<>> >> /\ \A i \in 1..m + 1 + n : f[i] = Take(f[i - 1], s[i], separator)
  <2>1. m + 1 + n \in Nat
    BY <1>1
  <2> QED
    BY <1>3, <2>1, SplitLoopFacts
<1>7. g[0] = << <<>> >> /\ \A i \in 1..m : g[i] = Take(g[i - 1], a[i], separator)
  BY <1>1, <1>4, SplitLoopFacts
<1>8. h[0] = << <<>> >> /\ \A i \in 1..n : h[i] = Take(h[i - 1], b[i], separator)
  BY <1>1, <1>5, SplitLoopFacts
<1>9. g[m] \in Seq(Seq(T)) /\ \A i \in 0..n : h[i] \in Seq(Seq(T)) /\ h[i] # <<>>
  <2>1. m \in 0..m
    BY <1>1
  <2> QED
    BY <1>4, <1>5, <2>1, SplitLoopType DEF m, n
<1>10. f[m] = g[m]
  <2> DEFINE P == {i \in Nat : i <= m => f[i] = g[i]}
  <2>1. 0 \in P
    BY <1>6, <1>7
  <2>2. ASSUME NEW k \in Nat, k \in P PROVE k + 1 \in P
    <3> SUFFICES ASSUME k + 1 <= m PROVE f[k + 1] = g[k + 1]
      OBVIOUS
    <3>1. k <= m /\ k + 1 \in 1..m /\ k + 1 \in 1..m + 1 + n /\ (k + 1) - 1 = k
      BY <1>1
    <3>2. f[k] = g[k]
      BY <2>2, <3>1
    <3> QED
      BY <1>2, <1>6, <1>7, <3>1, <3>2
  <2> HIDE DEF P
  <2>3. m \in P
    BY <1>1, <2>1, <2>2, Facts!SetInduction
  <2>4. m <= m
    BY <1>1
  <2> QED
    BY <2>3, <2>4 DEF P
<1>11. f[m + 1] = g[m] \o << <<>> >>
  <2>1. m + 1 \in 1..m + 1 + n /\ (m + 1) - 1 = m
    BY <1>1
  <2>2. f[m + 1] = Take(g[m], separator, separator)
    BY <1>2, <1>6, <1>10, <2>1
  <2>3. Take(g[m], separator, separator) = Append(g[m], <<>>)
    BY DEF Take
  <2>4. \A q \in Seq(Seq(T)) : Append(q, <<>>) = q \o << <<>> >>
    OBVIOUS
  <2> QED
    BY <1>9, <2>2, <2>3, <2>4
<1>12. f[m + 1 + n] = g[m] \o h[n]
  <2> DEFINE P == {i \in Nat : i <= n => f[m + 1 + i] = g[m] \o h[i]}
  <2>1. 0 \in P
    <3>1. m + 1 + 0 = m + 1
      BY <1>1
    <3> QED
      BY <1>8, <1>11, <3>1
  <2>2. ASSUME NEW k \in Nat, k \in P PROVE k + 1 \in P
    <3> SUFFICES ASSUME k + 1 <= n PROVE f[m + 1 + (k + 1)] = g[m] \o h[k + 1]
      <4>1. k + 1 \in Nat
        OBVIOUS
      <4> QED
        BY <4>1, Zenon
    <3>1. /\ k <= n /\ k \in 0..n /\ k + 1 \in 1..n /\ (k + 1) - 1 = k
          /\ m + 1 + (k + 1) \in 1..m + 1 + n /\ m + 1 + (k + 1) - 1 = m + 1 + k
      BY <1>1
    <3>2. f[m + 1 + k] = g[m] \o h[k]
      BY <2>2, <3>1
    <3>3. f[m + 1 + (k + 1)] = Take(g[m] \o h[k], b[k + 1], separator) /\ b[k + 1] \in T
      <4> DEFINE i == m + 1 + (k + 1)
      <4>1. f[i] = Take(f[i - 1], s[i], separator)
        BY <1>6, <3>1
      <4>2. s[i] = b[k + 1] /\ b[k + 1] \in T
        BY <1>2, <3>1
      <4>3. i - 1 = m + 1 + k
        BY <1>1
      <4> HIDE DEF i
      <4> QED
        BY <3>2, <4>1, <4>2, <4>3 DEF i
    <3>4. h[k + 1] = Take(h[k], b[k + 1], separator)
      BY <1>8, <3>1
    <3> QED
      <4>1. h[k] \in Seq(Seq(T)) /\ h[k] # <<>>
        BY <1>9, <3>1
      <4> QED
        <5> DEFINE q == h[k]
                   p == g[m]
                   token == b[k + 1]
        <5>1. q \in Seq(Seq(T)) /\ q # <<>> /\ p \in Seq(Seq(T)) /\ token \in T
          BY <1>9, <3>3, <4>1
        <5> HIDE DEF q, p, token
        <5>2. Take(Cat(p, q), token, separator) = Cat(p, Take(q, token, separator))
          BY <5>1, TakeFacts
        <5> QED
          BY <3>3, <3>4, <5>2 DEF q, p, token, Cat
  <2> HIDE DEF P
  <2>3. n \in P
    BY <1>1, <2>1, <2>2, Facts!SetInduction
  <2>4. n <= n
    BY <1>1
  <2> QED
    BY <2>3, <2>4 DEF P
<1> QED
  BY <1>1, <1>3, <1>4, <1>5, <1>12 DEF s, Between, Cat

(* Without a separator a text is one part. *)
LEMMA SplitNone ==
    ASSUME NEW T, NEW s \in Seq(T), NEW separator, \A k \in 1..Len(s) : s[k] # separator
    PROVE  Len(Split(s, separator)) = 1
<1> DEFINE n == Len(s)
<1>1. n \in Nat
  OBVIOUS
<1>2. PICK f : SplitLoop(f, s, separator, n) /\ f[n] = Split(s, separator)
  BY <1>1, SplitIsLoop
<1>3. f[0] = << <<>> >> /\ \A i \in 1..n : f[i] = Take(f[i - 1], s[i], separator)
  BY <1>1, <1>2, SplitLoopFacts
<1>4. \A i \in 0..n : f[i] \in Seq(Seq(T)) /\ f[i] # <<>>
  BY <1>2, SplitLoopType
<1> DEFINE P == {i \in Nat : i <= n => Len(f[i]) = 1}
<1>5. 0 \in P
  BY <1>3
<1>6. ASSUME NEW k \in Nat, k \in P PROVE k + 1 \in P
  <2> SUFFICES ASSUME k + 1 <= n PROVE Len(f[k + 1]) = 1
    OBVIOUS
  <2>1. k <= n /\ k \in 0..n /\ k + 1 \in 1..n /\ (k + 1) - 1 = k
    BY <1>1
  <2>2. f[k + 1] = Take(f[k], s[k + 1], separator) /\ s[k + 1] # separator
    BY <1>3, <2>1
  <2>3. Len(f[k]) = 1
    BY <1>6, <2>1
  <2> DEFINE q == f[k]
             U == Seq(T)
  <2>4. q \in Seq(U)
    BY <1>4, <2>1
  <2>5. f[k + 1] = [q EXCEPT ![Len(q)] = Append(@, s[k + 1])]
    BY <2>2 DEF Take
  <2> HIDE DEF q, U
  <2>6. Len([q EXCEPT ![Len(q)] = Append(@, s[k + 1])]) = Len(q)
    BY <2>4
  <2> QED
    BY <2>3, <2>5, <2>6 DEF q
<1> HIDE DEF P
<1>7. n \in P
  BY <1>1, <1>5, <1>6, Facts!SetInduction
<1> QED
  BY <1>1, <1>2, <1>7 DEF P

(* Some part has the token. *)
Has(parts, token) == \E p \in 1..Len(parts) : \E j \in 1..Len(parts[p]) : parts[p][j] = token

(* A token that was taken stays in the parts. *)
LEMMA TakeHas ==
    ASSUME NEW T, NEW q \in Seq(Seq(T)), q # <<>>, NEW token \in T, NEW separator, NEW t
    PROVE  /\ Has(q, t) => Has(Take(q, token, separator), t)
           /\ token # separator => Has(Take(q, token, separator), token)
<1> DEFINE U == Seq(T)
           new == Take(q, token, separator)
           n == Len(q)
           last == q[n]
<1>1. q \in Seq(U) /\ <<>> \in U
  OBVIOUS
<1>2. n \in Nat \ {0} /\ last \in Seq(T)
  OBVIOUS
<1>3. /\ Append(last, token) \in U /\ Len(Append(last, token)) = Len(last) + 1
      /\ Len(last) \in Nat
      /\ \A j \in 1..Len(last) : Append(last, token)[j] = last[j]
      /\ Append(last, token)[Len(last) + 1] = token
  BY <1>2
<1> HIDE DEF U, n
<1>4. CASE token = separator
  <2>1. new = Append(q, <<>>)
    BY <1>4 DEF Take
  <2>2. Len(new) = n + 1 /\ \A p \in 1..n : new[p] = q[p]
    BY <1>1, <2>1 DEF n
  <2>3. ASSUME Has(q, t) PROVE Has(new, t)
    <3>1. PICK p \in 1..n : \E j \in 1..Len(q[p]) : q[p][j] = t
      BY <2>3 DEF Has, n
    <3>2. p \in 1..Len(new) /\ new[p] = q[p]
      BY <1>2, <2>2
    <3> HIDE DEF new
    <3> QED
      BY <3>1, <3>2 DEF Has
  <2> QED
    BY <1>4, <2>3
<1>5. CASE token # separator
  <2>1. new = [q EXCEPT ![n] = Append(last, token)]
    BY <1>5 DEF Take, n
  <2>2. /\ Len(new) = n /\ new[n] = Append(last, token)
        /\ \A p \in 1..n : p # n => new[p] = q[p]
    BY <1>1, <1>2, <2>1 DEF n
  <2> HIDE DEF new, last
  <2>3. Has(new, token)
    <3>1. n \in 1..Len(new) /\ Len(last) + 1 \in 1..Len(new[n]) /\ new[n][Len(last) + 1] = token
      BY <1>2, <1>3, <2>2
    <3> QED
      BY <3>1 DEF Has
  <2>4. ASSUME Has(q, t) PROVE Has(new, t)
    <3>1. PICK p \in 1..n : \E j \in 1..Len(q[p]) : q[p][j] = t
      BY <2>4 DEF Has, n
    <3>2. PICK j \in 1..Len(q[p]) : q[p][j] = t
      BY <3>1
    <3>3. CASE p = n
      <4>1. j \in 1..Len(last) /\ last[j] = t
        BY <3>2, <3>3 DEF last
      <4>2. n \in 1..Len(new) /\ j \in 1..Len(new[n]) /\ new[n][j] = t
        BY <1>2, <1>3, <2>2, <4>1
      <4> QED
        BY <4>2 DEF Has
    <3>4. CASE p # n
      <4>1. p \in 1..Len(new) /\ new[p] = q[p]
        BY <2>2, <3>4
      <4> QED
        BY <3>1, <4>1 DEF Has
    <3> QED
      BY <3>3, <3>4
  <2> QED
    BY <2>3, <2>4 DEF new
<1> QED
  BY <1>4, <1>5

(* Every token but the separators is in some part. *)
LEMMA SplitHas ==
    ASSUME NEW T, NEW s \in Seq(T), NEW separator, NEW k \in 1..Len(s), s[k] # separator
    PROVE  Has(Split(s, separator), s[k])
<1> DEFINE n == Len(s)
<1>1. n \in Nat
  OBVIOUS
<1>2. PICK f : SplitLoop(f, s, separator, n) /\ f[n] = Split(s, separator)
  BY <1>1, SplitIsLoop
<1>3. f[0] = << <<>> >> /\ \A i \in 1..n : f[i] = Take(f[i - 1], s[i], separator)
  BY <1>1, <1>2, SplitLoopFacts
<1>4. \A i \in 0..n : f[i] \in Seq(Seq(T)) /\ f[i] # <<>>
  BY <1>2, SplitLoopType
<1> DEFINE P == {i \in Nat : i <= n /\ k <= i => Has(f[i], s[k])}
<1>5. 0 \in P
  OBVIOUS
<1>6. ASSUME NEW i \in Nat, i \in P PROVE i + 1 \in P
  <2> SUFFICES ASSUME i + 1 <= n, k <= i + 1 PROVE Has(f[i + 1], s[k])
    OBVIOUS
  <2>1. i <= n /\ i \in 0..n /\ i + 1 \in 1..n /\ (i + 1) - 1 = i
    BY <1>1
  <2>2. f[i + 1] = Take(f[i], s[i + 1], separator) /\ s[i + 1] \in T
    BY <1>3, <2>1
  <2>3. f[i] \in Seq(Seq(T)) /\ f[i] # <<>>
    BY <1>4, <2>1
  <2>4. CASE k = i + 1
    BY <2>2, <2>3, <2>4, TakeHas
  <2>5. CASE k # i + 1
    <3>1. k <= i
      BY <2>5
    <3>2. Has(f[i], s[k])
      BY <1>6, <2>1, <3>1
    <3> QED
      BY <2>2, <2>3, <3>2, TakeHas
  <2> QED
    BY <2>4, <2>5
<1> HIDE DEF P
<1>7. n \in P
  BY <1>1, <1>5, <1>6, Facts!SetInduction
<1> QED
  BY <1>1, <1>2, <1>7 DEF P

(* A text that is empty, or begins with a separator, begins with an empty  *)
(* part.                                                                   *)
LEMMA SplitStart ==
    ASSUME NEW T, NEW b \in Seq(T), NEW separator \in T, b = <<>> \/ b[1] = separator
    PROVE  Split(b, separator)[1] = <<>>
<1> DEFINE none == <<>>
           U == Seq(T)
<1>1. Split(none, separator) = << <<>> >>
  <2>1. Len(none) = 0
    OBVIOUS
  <2>2. PICK f : SplitLoop(f, none, separator, 0) /\ f[0] = Split(none, separator)
    BY <2>1, SplitIsLoop
  <2> QED
    BY <2>2, SplitLoopFacts
<1>2. CASE b = <<>>
  BY <1>1, <1>2
<1>3. CASE b # <<>>
  <2> DEFINE c == Tail(b)
  <2>1. c \in Seq(T) /\ none \in Seq(T) /\ b = none \o <<separator>> \o c
    BY <1>3
  <2> HIDE DEF c
  <2>2. Split(b, separator) = Cat(Split(none, separator), Split(c, separator))
    <3> HIDE DEF none
    <3> QED
      BY <2>1, SplitConcat DEF Between
  <2>3. Split(c, separator) \in Seq(U)
    BY <2>1, SplitType
  <2> DEFINE q == Split(c, separator)
             e == <<>>
  <2>4. e \in U /\ q \in Seq(U)
    BY <2>3
  <2> HIDE DEF q, U, e
  <2>5. Cat(<<e>>, q)[1] = e
    BY <2>4 DEF Cat
  <2> QED
    BY <1>1, <2>2, <2>5 DEF q, e
<1> QED
  BY <1>2, <1>3

(* A separator before another one, or at the end, leaves an empty part.    *)
LEMMA EmptyPart ==
    ASSUME NEW T, NEW s \in Seq(T), NEW separator \in T,
           NEW k \in 1..Len(s), s[k] = separator, k = Len(s) \/ s[k + 1] = separator
    PROVE  \E p \in 1..Len(Split(s, separator)) : Split(s, separator)[p] = <<>>
<1> DEFINE a == SubSeq(s, 1, k - 1)
           b == SubSeq(s, k + 1, Len(s))
           U == Seq(T)
           pa == Split(a, separator)
           pb == Split(b, separator)
<1>1. a \in Seq(T) /\ b \in Seq(T) /\ s = Between(a, separator, b)
  <2> DEFINE n == Len(s)
             whole == a \o <<separator>> \o b
  <2>1. n \in Nat /\ k \in Nat /\ k - 1 \in Nat /\ n - k \in Nat /\ k <= n
    OBVIOUS
  <2>2. a \in Seq(T) /\ Len(a) = k - 1 /\ \A i \in 1..k - 1 : a[i] = s[i]
    BY <2>1
  <2>3. b \in Seq(T) /\ Len(b) = n - k /\ \A i \in 1..n - k : b[i] = s[k + i]
    BY <2>1
  <2> HIDE DEF a, b, n
  <2>4. /\ whole \in Seq(T) /\ Len(whole) = n
        /\ \A i \in 1..k - 1 : whole[i] = a[i]
        /\ whole[k] = separator
        /\ \A i \in 1..n - k : whole[k + i] = b[i]
    <3> DEFINE front == a \o <<separator>>
    <3>1. /\ front \in Seq(T) /\ Len(front) = k
          /\ \A i \in 1..k - 1 : front[i] = a[i]
          /\ front[k] = separator
      BY <2>1, <2>2
    <3> HIDE DEF front
    <3>2. /\ front \o b \in Seq(T) /\ Len(front \o b) = n
          /\ \A i \in 1..k : (front \o b)[i] = front[i]
          /\ \A i \in 1..n - k : (front \o b)[k + i] = b[i]
      <4>1. /\ front \o b \in Seq(T) /\ Len(front \o b) = k + (n - k)
            /\ \A i \in 1..k + (n - k) :
                  (front \o b)[i] = IF i <= k THEN front[i] ELSE b[i - k]
        <5>1. /\ front \o b \in Seq(T) /\ Len(front \o b) = Len(front) + Len(b)
              /\ \A i \in 1..Len(front) + Len(b) :
                    (front \o b)[i] = IF i <= Len(front) THEN front[i] ELSE b[i - Len(front)]
          BY <2>3, <3>1, ConcatProperties, Zenon
        <5> QED
          BY <2>3, <3>1, <5>1
      <4>2. k + (n - k) = n
        BY <2>1
      <4>3. ASSUME NEW i \in 1..k PROVE (front \o b)[i] = front[i]
        <5>1. i \in 1..n /\ i <= k
          BY <2>1
        <5> QED
          BY <4>1, <4>2, <5>1
      <4>4. ASSUME NEW i \in 1..n - k PROVE (front \o b)[k + i] = b[i]
        <5>1. k + i \in 1..n /\ ~(k + i <= k) /\ (k + i) - k = i
          BY <2>1
        <5> QED
          BY <4>1, <4>2, <5>1
      <4> QED
        BY <4>1, <4>2, <4>3, <4>4
    <3>3. whole = front \o b
      BY <2>2, <2>3 DEF front
    <3>4. \A i \in 1..k - 1 : i \in 1..k
      BY <2>1
    <3>5. k \in 1..k
      BY <2>1
    <3> QED
      BY <3>1, <3>2, <3>3, <3>4, <3>5
  <2> HIDE DEF whole
  <2>5. ASSUME NEW i \in 1..n PROVE s[i] = whole[i]
    <3>1. CASE i < k
      <4>1. i \in 1..k - 1
        BY <2>1, <3>1
      <4> QED
        BY <2>2, <2>4, <4>1
    <3>2. CASE i = k
      BY <2>4, <3>2
    <3>3. CASE i > k
      <4>1. i - k \in 1..n - k /\ k + (i - k) = i
        BY <2>1, <3>3
      <4> QED
        BY <2>3, <2>4, <4>1
    <3> QED
      BY <2>1, <3>1, <3>2, <3>3
  <2>6. s = whole
    BY <2>4, <2>5, SeqEqual DEF n
  <2> QED
    BY <2>2, <2>3, <2>6 DEF whole, Between
<1>2. b = <<>> \/ b[1] = separator
  OBVIOUS
<1> HIDE DEF a, b
<1>3. Split(s, separator) = Cat(pa, pb)
  BY <1>1, SplitConcat
<1>4. pa \in Seq(U) /\ pa # <<>> /\ pb \in Seq(U) /\ pb # <<>>
  BY <1>1, SplitType
<1>5. pb[1] = <<>>
  BY <1>1, <1>2, SplitStart
<1> HIDE DEF pa, pb, U
<1>6. /\ Len(pa) + 1 \in 1..Len(Cat(pa, pb))
      /\ Cat(pa, pb)[Len(pa) + 1] = pb[1]
  BY <1>4 DEF Cat
<1> QED
  BY <1>3, <1>5, <1>6
-----------------------------------------------------------------------------
(* IPv6 addresses *)

Tokens == STRING \cup {"octet", Colon}

(* What CountIpv6Parts finds when it refuses nothing: groups, and possibly *)
(* an IPv4 address as the last part, which counts as two.                  *)
Groups(parts, count, allowIpv4) ==
    /\ \A k \in 1..Len(parts) - 1 : IsGroup(parts[k])
    /\ \/ IsGroup(parts[Len(parts)]) /\ count = Len(parts)
       \/ allowIpv4 /\ IsValidIpv4(parts[Len(parts)]) /\ count = Len(parts) + 1

(* A count that is not negative counts groups and nothing else. *)
LEMMA Counted ==
    ASSUME NEW T, NEW s \in Seq(T), s # <<>>, NEW allowIpv4 \in BOOLEAN,
           CountIpv6Parts(s, allowIpv4) >= 0
    PROVE  Groups(Split(s, Colon), CountIpv6Parts(s, allowIpv4), allowIpv4)
<1> DEFINE parts == Split(s, Colon)
           Embedded(k) == \E j \in DOMAIN parts[k] : parts[k][j] = Dot
           Refused(k) == IF Embedded(k)
                         THEN ~allowIpv4 \/ k < Len(parts) \/ ~IsValidIpv4(parts[k])
                         ELSE ~IsGroup(parts[k])
           count == CountIpv6Parts(s, allowIpv4)
<1>1. parts \in Seq(Seq(T)) /\ parts # <<>>
  BY SplitType
<1>2. Len(parts) \in Nat \ {0} /\ DOMAIN parts = 1..Len(parts)
  <2> DEFINE U == Seq(T)
  <2> HIDE DEF U, parts
  <2>1. parts \in Seq(U)
    BY <1>1 DEF U
  <2> QED
    BY <1>1, <2>1
<1>3. count = IF \E k \in DOMAIN parts : Refused(k) THEN -1
              ELSE Len(parts) + (IF Embedded(Len(parts)) THEN 1 ELSE 0)
  BY DEF CountIpv6Parts
<1> HIDE DEF parts, Refused, Embedded, count
<1>4. count >= 0
  BY DEF count
<1>5. \A k \in DOMAIN parts : ~Refused(k)
  BY <1>3, <1>4
<1>6. count = Len(parts) + (IF Embedded(Len(parts)) THEN 1 ELSE 0)
  BY <1>3, <1>5
<1>7. ASSUME NEW k \in 1..Len(parts) - 1 PROVE IsGroup(parts[k])
  <2>1. k \in DOMAIN parts /\ k < Len(parts)
    BY <1>2
  <2> QED
    BY <1>5, <2>1 DEF Refused
<1>8. Len(parts) \in DOMAIN parts
  BY <1>2
<1>9. CASE Embedded(Len(parts))
  <2>1. allowIpv4 /\ IsValidIpv4(parts[Len(parts)])
    BY <1>5, <1>8, <1>9 DEF Refused
  <2>2. count = Len(parts) + 1
    BY <1>6, <1>9
  <2> QED
    BY <1>7, <2>1, <2>2 DEF Groups, parts, count
<1>10. CASE ~Embedded(Len(parts))
  <2>1. IsGroup(parts[Len(parts)])
    BY <1>5, <1>8, <1>10 DEF Refused
  <2>2. count = Len(parts)
    BY <1>2, <1>6, <1>10
  <2> QED
    BY <1>7, <2>1, <2>2 DEF Groups, parts, count
<1> QED
  BY <1>9, <1>10

(* The groups that a compression stands for. *)
Middle(zeros) == [k \in 1..2 * zeros - 1 |-> IF k % 2 = 1 THEN "octet" ELSE Colon]
Zeros(n) == [k \in 1..n |-> <<"octet">>]

(* The middle of an address that is written out is a sequence of tokens. *)
LEMMA MiddleType ==
    ASSUME NEW z \in Nat \ {0}
    PROVE  Middle(z) \in Seq(Tokens) /\ Len(Middle(z)) = 2 * z - 1
<1>1. 2 * z - 1 \in Nat
  OBVIOUS
<1> QED
  BY <1>1 DEF Middle, Tokens

(* A run of zero groups is a sequence of parts. *)
LEMMA ZerosType ==
    ASSUME NEW z \in Nat
    PROVE  /\ Zeros(z) \in Seq(Seq(Tokens)) /\ Len(Zeros(z)) = z
           /\ \A k \in 1..z : Zeros(z)[k] = <<"octet">>
<1> DEFINE U == Seq(Tokens)
           e == <<"octet">>
<1>1. e \in U
  BY DEF Tokens
<1> HIDE DEF U, e
<1>2. [k \in 1..z |-> e] \in Seq(U) /\ Len([k \in 1..z |-> e]) = z
  BY <1>1
<1> QED
  BY <1>2 DEF Zeros, U, e

(* The groups that a compression stands for are split into as many zero    *)
(* groups.                                                                 *)
LEMMA SplitMiddle ==
    ASSUME NEW z \in Nat
    PROVE  Split(Middle(z + 1), Colon) = Zeros(z + 1)
<1> DEFINE P == {k \in Nat : Split(Middle(k + 1), Colon) = Zeros(k + 1)}
<1>1. 0 \in P
  <2>1. Middle(1) = <<"octet">>
    BY DEF Middle
  <2>2. Zeros(1) = << <<"octet">> >>
    BY DEF Zeros
  <2>3. "octet" # Colon
    BY DEF Colon
  <2> QED
    BY <2>1, <2>2, <2>3, SplitOne
<1>2. ASSUME NEW k \in Nat, k \in P PROVE k + 1 \in P
  <2> DEFINE a == Middle(k + 1)
             b == <<"octet">>
  <2>1. a \in Seq(Tokens) /\ Len(a) = 2 * k + 1 /\ b \in Seq(Tokens) /\ Colon \in Tokens
    <3>1. k + 1 \in Nat \ {0} /\ 2 * (k + 1) - 1 = 2 * k + 1
      OBVIOUS
    <3> QED
      BY <3>1, MiddleType DEF Tokens
  <2>2. Middle(k + 2) = a \o <<Colon>> \o b
    <3> DEFINE l == Middle(k + 2)
               r == a \o <<Colon>> \o b
    <3>1. l \in Seq(Tokens) /\ Len(l) = 2 * k + 3
      <4>1. k + 2 \in Nat \ {0} /\ 2 * (k + 2) - 1 = 2 * k + 3
        OBVIOUS
      <4> QED
        BY <4>1, MiddleType
    <3>2. \A i \in 1..2 * k + 3 : l[i] = IF i % 2 = 1 THEN "octet" ELSE Colon
      <4>1. 2 * (k + 2) - 1 = 2 * k + 3
        OBVIOUS
      <4> QED
        BY <4>1 DEF Middle
    <3>3. \A i \in 1..2 * k + 1 : a[i] = IF i % 2 = 1 THEN "octet" ELSE Colon
      <4>1. 2 * (k + 1) - 1 = 2 * k + 1
        OBVIOUS
      <4> QED
        BY <4>1 DEF Middle
    <3> HIDE DEF a, l
    <3>4. r \in Seq(Tokens) /\ Len(r) = 2 * k + 3
      BY <2>1
    <3>5. /\ \A i \in 1..2 * k + 1 : r[i] = a[i]
          /\ r[2 * k + 2] = Colon /\ r[2 * k + 3] = "octet"
      BY <2>1
    <3>6. (2 * k + 2) % 2 = 0 /\ (2 * k + 3) % 2 = 1
      OBVIOUS
    <3> HIDE DEF r
    <3>7. ASSUME NEW i \in 1..2 * k + 3 PROVE l[i] = r[i]
      <4>1. i \in 1..2 * k + 1 \/ i = 2 * k + 2 \/ i = 2 * k + 3
        OBVIOUS
      <4> QED
        BY <3>2, <3>3, <3>5, <3>6, <4>1
    <3>8. l = r
      BY <3>1, <3>4, <3>7, SeqEqual
    <3> QED
      BY <3>8 DEF l, r
  <2>3. Split(Middle(k + 2), Colon) = Split(a, Colon) \o Split(b, Colon)
    <3> HIDE DEF a, b
    <3>1. Split(Between(a, Colon, b), Colon) = Cat(Split(a, Colon), Split(b, Colon))
      BY <2>1, SplitConcat
    <3> QED
      BY <2>2, <3>1 DEF Between, Cat
  <2>4. Split(b, Colon) = << <<"octet">> >>
    <3>1. "octet" # Colon
      BY DEF Colon
    <3> QED
      BY <3>1, SplitOne
  <2>5. Zeros(k + 2) = Zeros(k + 1) \o << <<"octet">> >>
    <3>1. Zeros(k + 1) \o << <<"octet">> >> = Append(Zeros(k + 1), <<"octet">>)
      OBVIOUS
    <3> QED
      BY DEF Zeros
  <2>6. k + 1 \in Nat /\ (k + 1) + 1 = k + 2
    OBVIOUS
  <2> QED
    BY <1>2, <2>3, <2>4, <2>5, <2>6
<1> HIDE DEF P
<1>3. z \in P
  BY <1>1, <1>2, Facts!SetInduction
<1> QED
  BY <1>3 DEF P

(* Groups before groups. *)
LEMMA JoinGroups ==
    ASSUME NEW U, NEW p \in Seq(U), NEW q \in Seq(U), q # <<>>, NEW count \in Int,
           Groups(q, count, TRUE), \A k \in 1..Len(p) : IsGroup(p[k])
    PROVE  Groups(Cat(p, q), Len(p) + count, TRUE) /\ Cat(p, q) \in Seq(U) /\ Cat(p, q) # <<>>
<1> DEFINE m == Len(p)
           n == Len(q)
           pq == Cat(p, q)
<1>1. n \in Nat \ {0} /\ m \in Nat
  OBVIOUS
<1>2. /\ pq \in Seq(U) /\ Len(pq) = m + n
      /\ \A i \in 1..m + n : pq[i] = IF i <= m THEN p[i] ELSE q[i - m]
  BY ConcatProperties DEF Cat
<1>3. pq # <<>>
  BY <1>1, <1>2
<1> HIDE DEF m, n, pq
<1>4. ASSUME NEW k \in 1..m + n - 1 PROVE IsGroup(pq[k])
  <2>1. CASE k <= m
    BY <1>1, <1>2, <2>1 DEF m
  <2>2. CASE ~(k <= m)
    <3>1. k - m \in 1..n - 1 /\ k \in 1..m + n
      BY <1>1, <2>2
    <3> QED
      BY <1>2, <2>2, <3>1 DEF Groups, n
  <2> QED
    BY <2>1, <2>2
<1>5. pq[m + n] = q[n]
  <2>1. m + n \in 1..m + n /\ ~(m + n <= m) /\ m + n - m = n
    BY <1>1
  <2> DEFINE i == m + n
  <2> HIDE DEF i
  <2>2. /\ i \in 1..i /\ ~(i <= m) /\ i - m = n
        /\ \A j \in 1..i : pq[j] = IF j <= m THEN p[j] ELSE q[j - m]
    BY <1>1, <1>2, <2>1 DEF i
  <2>3. pq[i] = q[i - m]
    BY <2>2
  <2> QED
    BY <2>2, <2>3 DEF i
<1>6. \/ IsGroup(q[n]) /\ m + count = m + n
      \/ IsValidIpv4(q[n]) /\ m + count = (m + n) + 1
  <2>1. \/ IsGroup(q[n]) /\ count = n
        \/ IsValidIpv4(q[n]) /\ count = n + 1
    BY DEF Groups, n
  <2> QED
    BY <1>1, <2>1
<1>7. Groups(pq, m + count, TRUE)
  <2>1. \A k \in 1..Len(pq) - 1 : IsGroup(pq[k])
    BY <1>1, <1>2, <1>4
  <2>2. pq[Len(pq)] = q[n]
    BY <1>2, <1>5
  <2>3. \/ IsGroup(pq[Len(pq)]) /\ m + count = Len(pq)
        \/ IsValidIpv4(pq[Len(pq)]) /\ m + count = Len(pq) + 1
    BY <1>2, <1>6, <2>2
  <2> QED
    BY <2>1, <2>3 DEF Groups
<1> QED
  BY <1>2, <1>3, <1>7 DEF m, pq

(* Eight groups are an address. *)
LEMMA GroupsAreEight ==
    ASSUME NEW address, Groups(Split(address, Colon), 8, TRUE),
           Len(Split(address, Colon)) \in Nat
    PROVE  EightGroups(address)
<1> DEFINE parts == Split(address, Colon)
<1> HIDE DEF parts
<1>1. Groups(parts, 8, TRUE) /\ Len(parts) \in Nat
  BY DEF parts
<1>2. CASE IsGroup(parts[Len(parts)]) /\ Len(parts) = 8
  <2>1. \A k \in 1..8 : k \in 1..Len(parts) - 1 \/ k = Len(parts)
    BY <1>2
  <2>2. \A k \in 1..8 : IsGroup(parts[k])
    BY <1>1, <1>2, <2>1 DEF Groups
  <2> QED
    BY <1>2, <2>2 DEF EightGroups, parts
<1>3. CASE IsValidIpv4(parts[Len(parts)]) /\ Len(parts) = 7
  <2>1. \A k \in 1..6 : k \in 1..Len(parts) - 1
    BY <1>3
  <2>2. \A k \in 1..6 : IsGroup(parts[k])
    BY <1>1, <2>1 DEF Groups
  <2> QED
    BY <1>3, <2>2 DEF EightGroups, parts
<1>4. \/ IsGroup(parts[Len(parts)]) /\ 8 = Len(parts)
      \/ IsValidIpv4(parts[Len(parts)]) /\ 8 = Len(parts) + 1
  BY <1>1 DEF Groups
<1>5. 8 = Len(parts) + 1 => Len(parts) = 7
  <2>1. \A x \in Nat : 8 = x + 1 => x = 7
    OBVIOUS
  <2> QED
    BY <1>1, <2>1
<1> QED
  BY <1>2, <1>3, <1>4, <1>5

(* The groups on both sides of a compression and those that it stands for. *)
LEMMA CompressionIsEight ==
    ASSUME NEW left \in Seq(Tokens), NEW right \in Seq(Tokens), NEW z \in Nat \ {0},
           NEW l \in Nat, NEW r \in Nat, l + r + z = 8,
           IF left = <<>> THEN l = 0 ELSE Groups(Split(left, Colon), l, FALSE),
           IF right = <<>> THEN r = 0 ELSE Groups(Split(right, Colon), r, TRUE)
    PROVE  EightGroups((IF left = <<>> THEN <<>> ELSE Append(left, Colon)) \o Middle(z)
                       \o (IF right = <<>> THEN <<>> ELSE <<Colon>> \o right))
<1> DEFINE U == Seq(Tokens)
           back == IF right = <<>> THEN Middle(z) ELSE Between(Middle(z), Colon, right)
           all == IF left = <<>> THEN back ELSE Between(left, Colon, back)
<1>1. Colon \in Tokens /\ Middle(z) \in Seq(Tokens)
  BY MiddleType DEF Tokens
<1>2. /\ Zeros(z) \in Seq(U) /\ Len(Zeros(z)) = z /\ Zeros(z) # <<>>
      /\ \A k \in 1..z : IsGroup(Zeros(z)[k])
      /\ Split(Middle(z), Colon) = Zeros(z)
  <2>1. z - 1 \in Nat /\ (z - 1) + 1 = z
    OBVIOUS
  <2>2. Split(Middle(z), Colon) = Zeros(z)
    BY <2>1, SplitMiddle
  <2>3. Zeros(z) \in Seq(U) /\ Len(Zeros(z)) = z /\ \A k \in 1..z : Zeros(z)[k] = <<"octet">>
    BY ZerosType
  <2>4. IsGroup(<<"octet">>)
    BY DEF IsGroup, HexGroup
  <2>5. Zeros(z) # <<>>
    BY <2>3
  <2> QED
    BY <2>2, <2>3, <2>4, <2>5
<1>3. back \in Seq(Tokens)
  BY <1>1 DEF Between
<1>4. Split(back, Colon) \in Seq(U) /\ Split(back, Colon) # <<>>
  <2> HIDE DEF back
  <2> QED
    BY <1>3, SplitType
<1>5. Groups(Split(back, Colon), z + r, TRUE)
  <2>1. CASE right = <<>>
    <3>1. Groups(Zeros(z), z, TRUE)
      <4>1. (\A k \in 1..z - 1 : k \in 1..z) /\ z \in 1..z
        OBVIOUS
      <4> QED
        BY <1>2, <4>1 DEF Groups
    <3>2. r = 0 /\ z + r = z
      BY <2>1
    <3> QED
      BY <1>2, <2>1, <3>1, <3>2
  <2>2. CASE right # <<>>
    <3>1. Split(right, Colon) \in Seq(U) /\ Split(right, Colon) # <<>>
      BY SplitType
    <3>2. Split(back, Colon) = Cat(Zeros(z), Split(right, Colon))
      BY <1>1, <1>2, <2>2, SplitConcat
    <3>3. Groups(Split(right, Colon), r, TRUE)
      BY <2>2
    <3> HIDE DEF U, back
    <3>4. Groups(Cat(Zeros(z), Split(right, Colon)), Len(Zeros(z)) + r, TRUE)
      <4>1. \A k \in 1..Len(Zeros(z)) : IsGroup(Zeros(z)[k])
        BY <1>2
      <4>2. r \in Int
        OBVIOUS
      <4> QED
        BY <1>2, <3>1, <3>3, <4>1, <4>2, JoinGroups
    <3> QED
      BY <1>2, <3>2, <3>4
  <2> QED
    BY <2>1, <2>2
<1> HIDE DEF back
<1>6. Groups(Split(all, Colon), 8, TRUE) /\ Len(Split(all, Colon)) \in Nat
  <2>1. CASE left = <<>>
    <3>1. z + r = 8
      BY <2>1
    <3> HIDE DEF U
    <3>2. Len(Split(back, Colon)) \in Nat
      BY <1>4
    <3>3. all = back
      BY <2>1
    <3> QED
      BY <1>5, <3>1, <3>2, <3>3
  <2>2. CASE left # <<>>
    <3> DEFINE p == Split(left, Colon)
               q == Split(back, Colon)
    <3>1. p \in Seq(U) /\ p # <<>>
      BY SplitType
    <3>2. Split(all, Colon) = Cat(p, q)
      BY <1>1, <1>3, <2>2, SplitConcat
    <3>3. Groups(p, l, FALSE)
      BY <2>2
    <3> HIDE DEF U, all, p, q
    <3>4. Len(p) \in Nat /\ Len(p) = l /\ \A k \in 1..Len(p) : IsGroup(p[k])
      <4>1. Len(p) \in Nat
        BY <3>1
      <4>2. IsGroup(p[Len(p)]) /\ l = Len(p) /\ \A k \in 1..Len(p) - 1 : IsGroup(p[k])
        BY <3>3 DEF Groups
      <4>3. \A k \in 1..Len(p) : k = Len(p) \/ k \in 1..Len(p) - 1
        BY <4>1
      <4> QED
        BY <4>1, <4>2, <4>3
    <3>5. q \in Seq(U) /\ q # <<>> /\ Groups(q, z + r, TRUE)
      BY <1>4, <1>5 DEF q
    <3>6. Groups(Cat(p, q), Len(p) + (z + r), TRUE) /\ Cat(p, q) \in Seq(U)
      <4>1. z + r \in Int
        OBVIOUS
      <4> QED
        BY <3>1, <3>4, <3>5, <4>1, JoinGroups
    <3>7. Len(p) + (z + r) = 8
      BY <3>4
    <3>8. Len(Cat(p, q)) \in Nat
      BY <3>6
    <3> QED
      BY <3>2, <3>6, <3>7, <3>8
  <2> QED
    BY <2>1, <2>2
<1>7. EightGroups(all)
  <2> HIDE DEF all
  <2> QED
    BY <1>6, GroupsAreEight
<1>8. (IF left = <<>> THEN <<>> ELSE Append(left, Colon)) \o Middle(z)
         \o (IF right = <<>> THEN <<>> ELSE <<Colon>> \o right) = all
  <2> DEFINE m == Middle(z)
  <2>1. m \in Seq(Tokens)
    BY <1>1
  <2> HIDE DEF m
  <2>2. CASE left = <<>> /\ right = <<>>
    BY <2>1, <2>2 DEF back, m
  <2>3. CASE left # <<>> /\ right = <<>>
    BY <1>1, <2>1, <2>3 DEF back, m, Between
  <2>4. CASE left = <<>> /\ right # <<>>
    BY <1>1, <2>1, <2>4 DEF back, m, Between
  <2>5. CASE left # <<>> /\ right # <<>>
    BY <1>1, <2>1, <2>5 DEF back, m, Between
  <2> QED
    BY <2>2, <2>3, <2>4, <2>5
<1> QED
  BY <1>7, <1>8

(* The loop accepts addresses of RFC 4291 only. *)
LEMMA AcceptedIsRfc4291 ==
    ASSUME NEW address \in Seq(STRING), IsValidIpv6(address)
    PROVE  Rfc4291(address)
<1> DEFINE at == CHOOSE k \in Compressions(address, 1) :
                     \A j \in Compressions(address, 1) : k <= j
           n == Len(address)
<1>1. n \in Nat /\ address \in Seq(Tokens)
  BY DEF Tokens
<1>2. ASSUME NEW s \in Seq(Tokens), NEW allowIpv4 \in BOOLEAN, NEW count \in Nat,
             CountIpv6Parts(s, allowIpv4) = count
      PROVE  IF s = <<>> THEN count = 0 ELSE Groups(Split(s, Colon), count, allowIpv4)
  <2>1. CASE s = <<>>
    BY <1>2, <2>1 DEF CountIpv6Parts
  <2>2. CASE s # <<>>
    <3>1. CountIpv6Parts(s, allowIpv4) >= 0
      BY <1>2
    <3> QED
      BY <1>2, <2>2, <3>1, Counted
  <2> QED
    BY <2>1, <2>2
<1>3. CASE Compressions(address, 1) = {}
  <2>1. CountIpv6Parts(address, TRUE) = 8
    BY <1>3 DEF IsValidIpv6
  <2>2. Groups(Split(address, Colon), 8, TRUE)
    <3>1. address # <<>>
      BY <2>1 DEF CountIpv6Parts
    <3>2. CountIpv6Parts(address, TRUE) >= 0
      <4> DEFINE count == CountIpv6Parts(address, TRUE)
      <4>1. count = 8
        BY <2>1
      <4> HIDE DEF count
      <4>2. count >= 0
        BY <4>1
      <4> QED
        BY <4>2 DEF count
    <3> QED
      BY <1>1, <2>1, <3>1, <3>2, Counted
  <2>3. Len(Split(address, Colon)) \in Nat
    <3> DEFINE U == Seq(Tokens)
    <3>1. Split(address, Colon) \in Seq(U)
      BY <1>1, SplitType
    <3> HIDE DEF U
    <3> QED
      BY <3>1
  <2> QED
    BY <2>2, <2>3, GroupsAreEight DEF Rfc4291
<1>4. CASE Compressions(address, 1) # {}
  <2> DEFINE left == SubSeq(address, 1, at - 1)
             right == SubSeq(address, at + 2, n)
             l == CountIpv6Parts(left, FALSE)
             r == CountIpv6Parts(right, TRUE)
  <2>1. at \in Compressions(address, 1)
    <3>1. Compressions(address, 1) \in SUBSET Nat
      BY <1>1 DEF Compressions
    <3>2. \E k \in Compressions(address, 1) : \A j \in Compressions(address, 1) : k <= j
      BY <1>4, <3>1, Facts!LeastElement
    <3> QED
      BY <3>2
  <2>2. at \in Nat /\ at >= 1 /\ at <= n - 1
    BY <1>1, <2>1 DEF Compressions
  <2>3. FitsIpv6(l, r)
    BY <1>4 DEF IsValidIpv6
  <2> HIDE DEF at
  <2>4. left \in Seq(Tokens) /\ right \in Seq(Tokens)
    BY <1>1, <2>2
  <2>5. l \in Int /\ r \in Int
    <3>1. ASSUME NEW s \in Seq(Tokens), NEW allowIpv4 \in BOOLEAN
          PROVE  CountIpv6Parts(s, allowIpv4) \in Int
      <4> DEFINE U == Seq(Tokens)
      <4>1. Split(s, Colon) \in Seq(U)
        BY SplitType
      <4> HIDE DEF U
      <4>2. Len(Split(s, Colon)) \in Int
        BY <4>1
      <4> QED
        BY <4>2 DEF CountIpv6Parts
    <3> HIDE DEF left, right
    <3> QED
      BY <2>4, <3>1
  <2> HIDE DEF left, right, l, r
  <2>6. l \in Nat /\ r \in Nat /\ l + r < 8
    BY <2>3, <2>5 DEF FitsIpv6
  <2> DEFINE z == 8 - (l + r)
  <2>7. z \in 1..8 /\ z \in Nat \ {0} /\ l + r + z = 8
    BY <2>6
  <2> HIDE DEF z
  <2>8. EightGroups((IF left = <<>> THEN <<>> ELSE Append(left, Colon)) \o Middle(z)
                    \o (IF right = <<>> THEN <<>> ELSE <<Colon>> \o right))
    <3>1. IF left = <<>> THEN l = 0 ELSE Groups(Split(left, Colon), l, FALSE)
      BY <1>2, <2>4, <2>6 DEF l
    <3>2. IF right = <<>> THEN r = 0 ELSE Groups(Split(right, Colon), r, TRUE)
      BY <1>2, <2>4, <2>6 DEF r
    <3> QED
      BY <2>4, <2>6, <2>7, <3>1, <3>2, CompressionIsEight
  <2>9. EightGroups(Expansion(address, at, z))
    BY <2>8 DEF Expansion, Middle, left, right
  <2> QED
    BY <2>1, <2>7, <2>9 DEF Rfc4291
<1> QED
  BY <1>3, <1>4

(* An IPv4 address has a dot; nothing is none. *)
LEMMA Ipv4Dotted ==
    ASSUME NEW T, NEW part \in Seq(T), IsValidIpv4(part)
    PROVE  part # <<>> /\ \E j \in DOMAIN part : part[j] = Dot
<1>1. Len(Split(part, Dot)) = 4
  BY DEF IsValidIpv4
<1>2. ~\A k \in 1..Len(part) : part[k] # Dot
  <2> SUFFICES ASSUME \A k \in 1..Len(part) : part[k] # Dot PROVE FALSE
    OBVIOUS
  <2>1. Len(Split(part, Dot)) = 1
    BY SplitNone
  <2>2. 4 # 1
    OBVIOUS
  <2> QED
    BY <1>1, <2>1, <2>2, Zenon
<1>3. DOMAIN part = 1..Len(part)
  OBVIOUS
<1>4. part = <<>> => 1..Len(part) = {}
  OBVIOUS
<1> QED
  BY <1>2, <1>3, <1>4

(* A group has no dot. *)
LEMMA GroupUndotted ==
    ASSUME NEW T, NEW part \in Seq(T), IsGroup(part)
    PROVE  part # <<>> /\ ~\E j \in DOMAIN part : part[j] = Dot
BY DEF IsGroup, HexGroup, Dot

(* No part of groups is empty. *)
LEMMA GroupsNotEmpty ==
    ASSUME NEW T, NEW parts \in Seq(Seq(T)), NEW count, NEW allowIpv4, Groups(parts, count, allowIpv4)
    PROVE  \A p \in 1..Len(parts) : parts[p] # <<>>
<1> SUFFICES ASSUME NEW p \in 1..Len(parts) PROVE parts[p] # <<>>
  OBVIOUS
<1> DEFINE U == Seq(T)
<1>1. parts[p] \in Seq(T)
  OBVIOUS
<1>2. Len(parts) \in Nat
  OBVIOUS
<1>3. p \in 1..Len(parts) - 1 \/ p = Len(parts)
  BY <1>2
<1>4. IsGroup(parts[p]) \/ IsValidIpv4(parts[p])
  BY <1>3 DEF Groups
<1> QED
  BY <1>1, <1>4, GroupUndotted, Ipv4Dotted

(* What CountIpv6Parts counts when there are groups and nothing else. *)
LEMMA CountsGroups ==
    ASSUME NEW T, NEW s \in Seq(T), s # <<>>, NEW allowIpv4 \in BOOLEAN, NEW count \in Int,
           Groups(Split(s, Colon), count, allowIpv4)
    PROVE  CountIpv6Parts(s, allowIpv4) = count
<1> DEFINE parts == Split(s, Colon)
           Embedded(k) == \E j \in DOMAIN parts[k] : parts[k][j] = Dot
           Refused(k) == IF Embedded(k)
                         THEN ~allowIpv4 \/ k < Len(parts) \/ ~IsValidIpv4(parts[k])
                         ELSE ~IsGroup(parts[k])
<1>1. parts \in Seq(Seq(T)) /\ parts # <<>>
  BY SplitType
<1>2. CountIpv6Parts(s, allowIpv4) =
         IF \E k \in DOMAIN parts : Refused(k) THEN -1
         ELSE Len(parts) + (IF Embedded(Len(parts)) THEN 1 ELSE 0)
  BY DEF CountIpv6Parts
<1> HIDE DEF parts
<1>3. /\ Len(parts) \in Nat \ {0} /\ DOMAIN parts = 1..Len(parts)
      /\ \A k \in DOMAIN parts : parts[k] \in Seq(T)
  <2> DEFINE U == Seq(T)
  <2>1. parts \in Seq(U)
    BY <1>1
  <2> HIDE DEF U
  <2>2. /\ Len(parts) \in Nat \ {0} /\ DOMAIN parts = 1..Len(parts)
        /\ \A k \in DOMAIN parts : parts[k] \in U
    BY <1>1, <2>1
  <2> QED
    BY <2>2 DEF U
<1>4. Groups(parts, count, allowIpv4)
  BY DEF parts
<1>5. Len(parts) \in DOMAIN parts /\ ~(Len(parts) < Len(parts))
  BY <1>3
<1>6. ASSUME NEW k \in DOMAIN parts, IsGroup(parts[k]) PROVE ~Embedded(k) /\ ~Refused(k)
  <2>1. ~Embedded(k)
    BY <1>3, <1>6, GroupUndotted
  <2> QED
    BY <1>6, <2>1
<1>7. \A k \in DOMAIN parts : k # Len(parts) => ~Refused(k)
  <2> TAKE k \in DOMAIN parts
  <2> HAVE k # Len(parts)
  <2>1. k \in 1..Len(parts) - 1
    BY <1>3
  <2>2. IsGroup(parts[k])
    BY <1>4, <2>1 DEF Groups
  <2> HIDE DEF Refused, Embedded
  <2> QED
    BY <1>6, <2>2
<1>8. CASE IsGroup(parts[Len(parts)]) /\ count = Len(parts)
  <2>1. ~Embedded(Len(parts)) /\ ~Refused(Len(parts))
    BY <1>5, <1>6, <1>8
  <2> HIDE DEF Refused, Embedded
  <2>2. ~\E k \in DOMAIN parts : Refused(k)
    BY <1>7, <2>1
  <2> QED
    BY <1>2, <1>3, <1>8, <2>1, <2>2
<1>9. CASE allowIpv4 /\ IsValidIpv4(parts[Len(parts)]) /\ count = Len(parts) + 1
  <2>1. Embedded(Len(parts))
    BY <1>3, <1>5, <1>9, Ipv4Dotted
  <2>2. ~Refused(Len(parts))
    BY <1>5, <1>9, <2>1
  <2> HIDE DEF Refused, Embedded
  <2>3. ~\E k \in DOMAIN parts : Refused(k)
    BY <1>7, <2>2
  <2> QED
    BY <1>2, <1>9, <2>1, <2>3
<1> QED
  BY <1>4, <1>8, <1>9 DEF Groups

(* What was two runs of groups is two runs of groups. *)
LEMMA DivideGroups ==
    ASSUME NEW U, NEW p \in Seq(U), NEW q \in Seq(U), q # <<>>, NEW count \in Int,
           Groups(Cat(p, q), count, TRUE)
    PROVE  /\ \A k \in 1..Len(p) : IsGroup(p[k])
           /\ Groups(q, count - Len(p), TRUE)
           /\ count - Len(p) >= Len(q)
<1> DEFINE m == Len(p)
           n == Len(q)
           pq == Cat(p, q)
<1>1. n \in Nat \ {0} /\ m \in Nat
  OBVIOUS
<1>2. /\ pq \in Seq(U) /\ Len(pq) = m + n
      /\ \A i \in 1..m + n : pq[i] = IF i <= m THEN p[i] ELSE q[i - m]
  BY ConcatProperties DEF Cat
<1>3. Groups(pq, count, TRUE)
  OBVIOUS
<1> HIDE DEF m, n, pq
<1>4. ASSUME NEW k \in 1..m PROVE IsGroup(p[k])
  <2>1. k \in 1..m + n - 1 /\ k \in 1..m + n /\ k <= m
    BY <1>1
  <2>2. pq[k] = p[k]
    BY <1>2, <2>1
  <2>3. k \in 1..Len(pq) - 1
    BY <1>1, <1>2, <2>1
  <2> QED
    BY <1>3, <2>2, <2>3 DEF Groups
<1>5. ASSUME NEW k \in 1..n PROVE pq[m + k] = q[k]
  <2> DEFINE i == m + k
             last == m + n
  <2>1. i \in 1..last /\ ~(i <= m) /\ i - m = k
    BY <1>1
  <2>2. \A j \in 1..last : pq[j] = IF j <= m THEN p[j] ELSE q[j - m]
    BY <1>2
  <2> HIDE DEF i, last
  <2>3. pq[i] = IF i <= m THEN p[i] ELSE q[i - m]
    BY <2>1, <2>2, Zenon
  <2>4. pq[i] = q[i - m]
    BY <2>1, <2>3, Zenon
  <2> QED
    BY <2>1, <2>4 DEF i
<1>6. ASSUME NEW k \in 1..n - 1 PROVE IsGroup(q[k])
  <2>1. m + k \in 1..Len(pq) - 1 /\ k \in 1..n
    BY <1>1, <1>2
  <2> QED
    BY <1>3, <1>5, <2>1 DEF Groups
<1>7. pq[Len(pq)] = q[n]
  <2>1. n \in 1..n
    BY <1>1
  <2> QED
    BY <1>2, <1>5, <2>1
<1>8. \/ IsGroup(q[n]) /\ count = m + n
      \/ IsValidIpv4(q[n]) /\ count = (m + n) + 1
  BY <1>2, <1>3, <1>7 DEF Groups
<1>9. \/ IsGroup(q[n]) /\ count - m = n
      \/ IsValidIpv4(q[n]) /\ count - m = n + 1
  BY <1>1, <1>8
<1>10. count - m >= n
  BY <1>1, <1>9
<1> QED
  BY <1>4, <1>6, <1>9, <1>10 DEF Groups, m, n

(* An address of eight groups has eight groups. *)
LEMMA EightAreGroups ==
    ASSUME NEW address, EightGroups(address)
    PROVE  Groups(Split(address, Colon), 8, TRUE) /\ Len(Split(address, Colon)) \in {7, 8}
<1> DEFINE parts == Split(address, Colon)
<1>1. \/ Len(parts) = 8 /\ \A k \in 1..8 : IsGroup(parts[k])
      \/ Len(parts) = 7 /\ (\A k \in 1..6 : IsGroup(parts[k])) /\ IsValidIpv4(parts[7])
  BY DEF EightGroups
<1> HIDE DEF parts
<1>2. CASE Len(parts) = 8 /\ \A k \in 1..8 : IsGroup(parts[k])
  <2>1. 8 \in 1..8 /\ \A k \in 1..8 - 1 : k \in 1..8
    OBVIOUS
  <2> QED
    BY <1>2, <2>1 DEF Groups, parts
<1>3. CASE Len(parts) = 7 /\ (\A k \in 1..6 : IsGroup(parts[k])) /\ IsValidIpv4(parts[7])
  <2>1. 8 = 7 + 1 /\ 7 - 1 = 6
    OBVIOUS
  <2> QED
    BY <1>3, <2>1 DEF Groups, parts
<1> QED
  BY <1>1, <1>2, <1>3

Parts(s) == IF s = <<>> THEN <<>> ELSE Split(s, Colon)

(* The address in which a compression is written out. *)
Expanded(left, z, right) ==
    (IF left = <<>> THEN <<>> ELSE Append(left, Colon)) \o Middle(z)
    \o (IF right = <<>> THEN <<>> ELSE <<Colon>> \o right)

(* The parts of an address in which a compression is written out. *)
LEMMA ExpandedParts ==
    ASSUME NEW left \in Seq(Tokens), NEW right \in Seq(Tokens), NEW z \in Nat \ {0}
    PROVE  Split(Expanded(left, z, right), Colon)
           = Cat(Parts(left), Cat(Zeros(z), Parts(right)))
<1> DEFINE U == Seq(Tokens)
           back == IF right = <<>> THEN Middle(z) ELSE Between(Middle(z), Colon, right)
           all == IF left = <<>> THEN back ELSE Between(left, Colon, back)
           behind == Cat(Zeros(z), Parts(right))
<1>1. Colon \in Tokens /\ Middle(z) \in Seq(Tokens)
  BY MiddleType DEF Tokens
<1>2. Split(Middle(z), Colon) = Zeros(z) /\ Zeros(z) \in Seq(U)
  <2>1. z - 1 \in Nat /\ (z - 1) + 1 = z
    OBVIOUS
  <2> QED
    BY <2>1, SplitMiddle, ZerosType
<1>3. back \in Seq(Tokens)
  BY <1>1 DEF Between
<1>4. Split(back, Colon) = behind
  <2>1. CASE right = <<>>
    <3>1. behind = Zeros(z) \o <<>>
      BY <2>1 DEF Parts, Cat
    <3> HIDE DEF U
    <3>2. Zeros(z) \o <<>> = Zeros(z)
      BY <1>2
    <3> QED
      BY <1>2, <2>1, <3>1, <3>2
  <2>2. CASE right # <<>>
    <3>1. Split(back, Colon) = Cat(Zeros(z), Split(right, Colon))
      BY <1>1, <1>2, <2>2, SplitConcat
    <3> QED
      BY <2>2, <3>1 DEF Parts
  <2> QED
    BY <2>1, <2>2
<1>5. Split(back, Colon) \in Seq(U)
  <2> HIDE DEF back
  <2> QED
    BY <1>3, SplitType
<1> HIDE DEF back, behind
<1>6. Split(all, Colon) = Cat(Parts(left), behind)
  <2>1. CASE left = <<>>
    <3> DEFINE q == Split(back, Colon)
    <3>1. q \in Seq(U)
      BY <1>5
    <3> HIDE DEF U, q
    <3>2. <<>> \o q = q
      BY <3>1
    <3> QED
      BY <1>4, <2>1, <3>2 DEF Parts, Cat, q
  <2>2. CASE left # <<>>
    <3>1. Split(all, Colon) = Cat(Split(left, Colon), Split(back, Colon))
      BY <1>1, <1>3, <2>2, SplitConcat
    <3> QED
      BY <1>4, <2>2, <3>1 DEF Parts
  <2> QED
    BY <2>1, <2>2
<1>7. Expanded(left, z, right) = all
  <2> DEFINE m == Middle(z)
  <2>1. m \in Seq(Tokens)
    BY <1>1
  <2>0. Expanded(left, z, right) = (IF left = <<>> THEN <<>> ELSE Append(left, Colon)) \o m
                                   \o (IF right = <<>> THEN <<>> ELSE <<Colon>> \o right)
    BY DEF Expanded
  <2> HIDE DEF m
  <2>2. CASE left = <<>> /\ right = <<>>
    BY <2>0, <2>1, <2>2 DEF back, m
  <2>3. CASE left # <<>> /\ right = <<>>
    BY <1>1, <2>0, <2>1, <2>3 DEF back, m, Between
  <2>4. CASE left = <<>> /\ right # <<>>
    <3>1. <<>> \o m = m
      BY <2>1
    <3>2. m \o (<<Colon>> \o right) = m \o <<Colon>> \o right
      BY <1>1, <2>1, Facts!Associative
    <3> QED
      BY <2>0, <2>4, <3>1, <3>2 DEF back, m, Between
  <2>5. CASE left # <<>> /\ right # <<>>
    <3> DEFINE front == left \o <<Colon>>
    <3>1. front \in Seq(Tokens) /\ Append(left, Colon) = front /\ <<Colon>> \in Seq(Tokens)
      BY <1>1
    <3> HIDE DEF front
    <3>2. m \o (<<Colon>> \o right) = m \o <<Colon>> \o right
      BY <2>1, <3>1, Facts!Associative
    <3>3. <<Colon>> \o right \in Seq(Tokens)
      BY <1>1
    <3>4. front \o m \o (<<Colon>> \o right) = front \o (m \o (<<Colon>> \o right))
      BY <2>1, <3>1, <3>3, Facts!Associative
    <3> QED
      BY <2>0, <2>5, <3>1, <3>2, <3>4 DEF back, m, Between, front
  <2> QED
    BY <2>2, <2>3, <2>4, <2>5
<1> QED
  BY <1>6, <1>7 DEF behind

(* Groups have no two separators in a row and none at the end. *)
LEMMA GroupsApart ==
    ASSUME NEW s \in Seq(Tokens), NEW count, NEW allowIpv4, Groups(Split(s, Colon), count, allowIpv4),
           NEW k \in 1..Len(s), s[k] = Colon
    PROVE  k # Len(s) /\ s[k + 1] # Colon
<1>1. Colon \in Tokens
  BY DEF Tokens
<1>2. Split(s, Colon) \in Seq(Seq(Tokens))
  BY SplitType
<1>3. \A p \in 1..Len(Split(s, Colon)) : Split(s, Colon)[p] # <<>>
  BY <1>2, GroupsNotEmpty
<1> QED
  BY <1>1, <1>3, EmptyPart

(* The loop accepts every address of RFC 4291. *)
LEMMA Rfc4291IsAccepted ==
    ASSUME NEW address \in Seq(STRING), Rfc4291(address)
    PROVE  IsValidIpv6(address)
<1> DEFINE n == Len(address)
           U == Seq(Tokens)
<1>1. n \in Nat /\ address \in Seq(Tokens)
  BY DEF Tokens
<1>2. CASE EightGroups(address)
  <2>1. Groups(Split(address, Colon), 8, TRUE) /\ Len(Split(address, Colon)) \in {7, 8}
    BY <1>2, EightAreGroups
  <2>2. address # <<>>
    <3> SUFFICES ASSUME address = <<>> PROVE FALSE
      OBVIOUS
    <3>1. \A k \in 1..Len(address) : address[k] # Colon
      OBVIOUS
    <3>2. Len(Split(address, Colon)) = 1
      BY <1>1, <3>1, SplitNone
    <3>3. 1 \notin {7, 8}
      OBVIOUS
    <3> QED
      BY <2>1, <3>2, <3>3, Zenon
  <2>3. Compressions(address, 1) = {}
    <3> SUFFICES ASSUME NEW k \in Compressions(address, 1) PROVE FALSE
      OBVIOUS
    <3>1. k \in 1..n /\ address[k] = Colon /\ address[k + 1] = Colon
      BY <1>1 DEF Compressions
    <3> QED
      BY <1>1, <2>1, <3>1, GroupsApart
  <2>4. CountIpv6Parts(address, TRUE) = 8
    <3>1. 8 \in Int /\ TRUE \in BOOLEAN
      OBVIOUS
    <3> QED
      BY <1>1, <2>1, <2>2, <3>1, CountsGroups
  <2> QED
    BY <2>3, <2>4 DEF IsValidIpv6
<1>3. CASE \E at \in Compressions(address, 1), zeros \in 1..8 :
              EightGroups(Expansion(address, at, zeros))
  <2>1. PICK at \in Compressions(address, 1), z \in 1..8 : EightGroups(Expansion(address, at, z))
    BY <1>3
  <2> DEFINE left == SubSeq(address, 1, at - 1)
             right == SubSeq(address, at + 2, n)
             lp == Parts(left)
             rp == Parts(right)
             behind == Cat(Zeros(z), rp)
  <2>2. at \in Nat /\ at >= 1 /\ at <= n - 1 /\ address[at] = Colon /\ address[at + 1] = Colon
    BY <1>1 DEF Compressions
  <2>3. /\ left \in Seq(Tokens) /\ Len(left) = at - 1
        /\ \A k \in 1..at - 1 : left[k] = address[k]
    BY <1>1, <2>2
  <2>4. /\ right \in Seq(Tokens) /\ Len(right) = n - (at + 1)
        /\ \A k \in 1..n - (at + 1) : right[k] = address[at + 1 + k]
    BY <1>1, <2>2
  <2>5. EightGroups(Expanded(left, z, right))
    BY <2>1 DEF Expansion, Expanded, Middle
  <2> HIDE DEF left, right, n
  <2>6. Groups(Cat(lp, behind), 8, TRUE)
    <3>1. z \in Nat \ {0}
      OBVIOUS
    <3>2. Split(Expanded(left, z, right), Colon) = Cat(lp, behind)
      BY <2>3, <2>4, <3>1, ExpandedParts
    <3> QED
      BY <2>5, <3>2, EightAreGroups
  <2>7. /\ lp \in Seq(U) /\ rp \in Seq(U)
        /\ right # <<>> => rp # <<>>
    <3>1. \A s \in Seq(Tokens) : Split(s, Colon) \in Seq(U) /\ Split(s, Colon) # <<>>
      BY SplitType
    <3>2. <<>> \in Seq(U)
      OBVIOUS
    <3> QED
      BY <2>3, <2>4, <3>1, <3>2 DEF Parts
  <2>8. Zeros(z) \in Seq(U) /\ Len(Zeros(z)) = z
    BY ZerosType
  <2> DEFINE l == Len(lp)
  <2> HIDE DEF U, lp, rp
  <2>9. /\ behind \in Seq(U) /\ behind # <<>> /\ Len(behind) = z + Len(rp)
        /\ l \in Nat /\ Len(rp) \in Nat
    BY <2>7, <2>8 DEF Cat
  <2> HIDE DEF behind
  <2>10. /\ \A k \in 1..l : IsGroup(lp[k])
         /\ Groups(behind, 8 - l, TRUE)
         /\ 8 - l >= z + Len(rp)
    <3>1. 8 \in Int
      OBVIOUS
    <3> QED
      BY <2>6, <2>7, <2>9, <3>1, DivideGroups
  <2> HIDE DEF l
  <2>11. left # <<>> => Groups(Split(left, Colon), l, FALSE) /\ CountIpv6Parts(left, FALSE) = l
    <3> SUFFICES ASSUME left # <<>> PROVE Groups(Split(left, Colon), l, FALSE) /\ CountIpv6Parts(left, FALSE) = l
      OBVIOUS
    <3>1. lp = Split(left, Colon) /\ lp # <<>>
      BY <2>3, SplitType DEF lp, Parts
    <3>2. l \in 1..l /\ \A k \in 1..l - 1 : k \in 1..l
      BY <2>7, <2>9, <3>1 DEF l
    <3>3. Groups(lp, l, FALSE)
      BY <2>10, <3>2 DEF Groups, l
    <3>4. l \in Int
      BY <2>9
    <3> QED
      BY <2>3, <3>1, <3>3, <3>4, CountsGroups
  <2>12. left = <<>> => CountIpv6Parts(left, FALSE) = l /\ l = 0
    BY DEF CountIpv6Parts, lp, Parts, l
  <2> DEFINE r == IF right = <<>> THEN 0 ELSE (8 - l) - z
  <2>13. right # <<>> => Groups(Split(right, Colon), r, TRUE) /\ CountIpv6Parts(right, TRUE) = r
    <3> SUFFICES ASSUME right # <<>>
                 PROVE  Groups(Split(right, Colon), r, TRUE) /\ CountIpv6Parts(right, TRUE) = r
      OBVIOUS
    <3>1. rp = Split(right, Colon) /\ rp # <<>>
      BY <2>7 DEF rp, Parts
    <3>2. 8 - l \in Int /\ (8 - l) - z \in Int /\ r = (8 - l) - z
      BY <2>9
    <3> HIDE DEF r
    <3>3. Groups(rp, (8 - l) - Len(Zeros(z)), TRUE)
      BY <2>7, <2>8, <2>10, <3>1, <3>2, DivideGroups DEF behind
    <3>4. Groups(Split(right, Colon), r, TRUE)
      BY <2>8, <3>1, <3>2, <3>3
    <3>5. r \in Int
      BY <3>2
    <3> QED
      BY <2>4, <3>4, <3>5, CountsGroups
  <2>14. right = <<>> => CountIpv6Parts(right, TRUE) = r
    BY DEF CountIpv6Parts
  <2>15. FitsIpv6(CountIpv6Parts(left, FALSE), CountIpv6Parts(right, TRUE))
    <3>1. CountIpv6Parts(left, FALSE) = l /\ CountIpv6Parts(right, TRUE) = r
      BY <2>11, <2>12, <2>13, <2>14
    <3>2. l >= 0 /\ r >= 0 /\ l + r < 8
      BY <2>9, <2>10
    <3> QED
      BY <3>1, <3>2 DEF FitsIpv6
  <2>16. ASSUME NEW k \in Compressions(address, 1) PROVE at <= k
    <3> SUFFICES ASSUME k < at PROVE FALSE
      BY <1>1, <2>2 DEF Compressions
    <3>1. k \in 1..at - 1 /\ k \in Nat /\ address[k] = Colon /\ address[k + 1] = Colon
      BY <1>1, <2>2 DEF Compressions
    <3>2. k \in 1..Len(left) /\ left[k] = Colon
      BY <2>3, <3>1
    <3>3. left # <<>>
      BY <3>2
    <3>4. k # Len(left) /\ left[k + 1] # Colon
      BY <2>3, <2>11, <3>2, <3>3, GroupsApart
    <3>5. k + 1 \in 1..at - 1
      BY <2>2, <2>3, <3>1, <3>4
    <3> QED
      BY <2>3, <3>1, <3>4, <3>5
  <2>17. Compressions(address, at + 2) = {}
    <3> SUFFICES ASSUME NEW k \in Compressions(address, at + 2) PROVE FALSE
      OBVIOUS
    <3>1. k \in at + 2..n - 1 /\ k \in Nat /\ address[k] = Colon /\ address[k + 1] = Colon
      BY <1>1, <2>2 DEF Compressions, n
    <3> DEFINE j == k - (at + 1)
    <3>2. /\ j \in 1..n - (at + 1) /\ j + 1 \in 1..n - (at + 1)
          /\ at + 1 + j = k /\ at + 1 + (j + 1) = k + 1
      BY <1>1, <2>2, <3>1
    <3>3. right[j] = Colon /\ right[j + 1] = Colon
      <4> HIDE DEF j
      <4>1. right[j] = address[at + 1 + j] /\ right[j + 1] = address[at + 1 + (j + 1)]
        BY <2>4, <3>2
      <4> QED
        BY <3>1, <3>2, <4>1
    <3>4. j \in 1..Len(right)
      BY <2>4, <3>2
    <3>5. right # <<>>
      BY <3>4
    <3> HIDE DEF j
    <3> QED
      BY <2>4, <2>13, <3>3, <3>4, <3>5, GroupsApart
  <2> DEFINE first == CHOOSE k \in Compressions(address, 1) :
                          \A j \in Compressions(address, 1) : k <= j
  <2>18. first = at
    <3>1. first \in Compressions(address, 1) /\ \A j \in Compressions(address, 1) : first <= j
      BY <2>1, <2>16
    <3> HIDE DEF first
    <3>2. first \in Nat /\ first <= at /\ at <= first
      BY <1>1, <2>1, <2>16, <3>1 DEF Compressions
    <3> QED
      BY <2>2, <3>2
  <2>19. Compressions(address, 1) # {}
    BY <2>1
  <2> HIDE DEF first
  <2>20. /\ Compressions(address, first + 2) = {}
         /\ FitsIpv6(CountIpv6Parts(SubSeq(address, 1, first - 1), FALSE),
                     CountIpv6Parts(SubSeq(address, first + 2, Len(address)), TRUE))
    BY <2>15, <2>17, <2>18 DEF left, right, n
  <2> QED
    BY <2>19, <2>20 DEF IsValidIpv6, first
<1> QED
  BY <1>2, <1>3 DEF Rfc4291

(* The rule for IPv6 addresses is RFC 4291's, whatever the number and the  *)
(* order of the parts, wherever the compression stands and whether or not  *)
(* an IPv4 address ends it: IsValidIpv6 and CountIpv6Parts.                *)
THEOREM Ipv6RuleIsRfc4291 ==
    \A address \in Seq(STRING) : IsValidIpv6(address) <=> Rfc4291(address)
BY AcceptedIsRfc4291, Rfc4291IsAccepted
-----------------------------------------------------------------------------
(* Host names *)

(* What the parts have and the separator is all that a text has. *)
LEMMA OnlyOf ==
    ASSUME NEW T, NEW s \in Seq(T), NEW separator, NEW S,
           \A p \in DOMAIN Split(s, separator) :
              \A j \in 1..Len(Split(s, separator)[p]) : Split(s, separator)[p][j] \in S
    PROVE  \A k \in 1..Len(s) : s[k] \in S \cup {separator}
<1> SUFFICES ASSUME NEW k \in 1..Len(s), s[k] # separator PROVE s[k] \in S
  OBVIOUS
<1> DEFINE parts == Split(s, separator)
           U == Seq(T)
<1>1. parts \in Seq(U)
  BY SplitType
<1>2. Has(parts, s[k])
  BY SplitHas
<1> HIDE DEF parts, U
<1>3. PICK p \in 1..Len(parts) : \E j \in 1..Len(parts[p]) : parts[p][j] = s[k]
  BY <1>2 DEF Has
<1>4. p \in DOMAIN parts
  BY <1>1
<1> QED
  BY <1>3, <1>4 DEF parts

(* A host name has labels and dots and is not numeric. *)
LEMMA HostnameTokens ==
    ASSUME NEW address \in Seq(STRING), IsValidHostname(address)
    PROVE  /\ address # <<>>
           /\ \A k \in 1..Len(address) : address[k] \in Label \cup {Dot}
           /\ \E k \in DOMAIN address : address[k] \notin Decimal \cup {Dot}
<1> DEFINE n == Len(address)
           trailing == address # <<>> /\ address[n] = Dot
           hostname == IF trailing THEN SubSeq(address, 1, n - 1) ELSE address
           labels == Split(hostname, Dot)
<1>1. /\ address # <<>> /\ hostname # <<>> /\ ~NumericDotsOnly(hostname)
      /\ \A k \in DOMAIN labels : Len(labels[k]) = 1 /\ labels[k][1] \in Label
  BY DEF IsValidHostname
<1>2. n \in Nat \ {0} /\ DOMAIN address = 1..n
  BY <1>1
<1>3. /\ hostname \in Seq(STRING) /\ Len(hostname) \in 0..n
      /\ \A k \in 1..Len(hostname) : hostname[k] = address[k]
      /\ \A k \in 1..n : k \notin 1..Len(hostname) => address[k] = Dot
  <2>1. CASE trailing
    <3>1. hostname = SubSeq(address, 1, n - 1)
      BY <2>1
    <3>2. /\ hostname \in Seq(STRING) /\ Len(hostname) = n - 1
          /\ \A k \in 1..n - 1 : hostname[k] = address[k]
      <4>1. n - 1 \in 0..Len(address)
        BY <1>2
      <4>2. SubSeq(address, 1, n - 1) \in Seq(STRING)
        BY <1>2
      <4>3. Len(SubSeq(address, 1, n - 1)) = n - 1
        BY <1>2
      <4>4. \A k \in 1..n - 1 : SubSeq(address, 1, n - 1)[k] = address[k]
        BY <1>2
      <4> QED
        BY <3>1, <4>2, <4>3, <4>4
    <3> HIDE DEF hostname
    <3> QED
      BY <1>2, <2>1, <3>2
  <2>2. CASE ~trailing
    BY <1>2, <2>2
  <2> QED
    BY <2>1, <2>2
<1> HIDE DEF hostname
<1>4. \A p \in DOMAIN labels : \A j \in 1..Len(labels[p]) : labels[p][j] \in Label
  <2> HIDE DEF labels
  <2> TAKE p \in DOMAIN labels
  <2>1. Len(labels[p]) = 1 /\ labels[p][1] \in Label
    BY <1>1
  <2>2. \A j \in 1..Len(labels[p]) : j = 1
    BY <2>1
  <2> QED
    BY <2>1, <2>2
<1>5. \A k \in 1..Len(hostname) : hostname[k] \in Label \cup {Dot}
  BY <1>3, <1>4, OnlyOf
<1>6. PICK k \in DOMAIN hostname : hostname[k] \notin Decimal \cup {Dot}
  BY <1>1 DEF NumericDotsOnly
<1>7. k \in 1..Len(hostname) /\ k \in DOMAIN address
  BY <1>2, <1>3
<1>8. address[k] \notin Decimal \cup {Dot}
  BY <1>3, <1>6, <1>7
<1>9. \A i \in 1..n : address[i] \in Label \cup {Dot}
  <2> TAKE i \in 1..n
  <2>1. CASE i \in 1..Len(hostname)
    BY <1>3, <1>5, <2>1
  <2>2. CASE i \notin 1..Len(hostname)
    BY <1>3, <2>2
  <2> QED
    BY <2>1, <2>2
<1> QED
  BY <1>1, <1>7, <1>8, <1>9

(* A host name is no address of the two other kinds, nor numeric, so that  *)
(* no numeric address that is wrong passes as a name: IsValidHostname.     *)
THEOREM HostnamesAreNames ==
    \A address \in Seq(STRING) :
       IsValidHostname(address) =>
          /\ ~IsValidIpv4(address) /\ ~IsValidIpv6(address)
          /\ \E k \in DOMAIN address : address[k] \notin Decimal \cup {Dot}
<1> SUFFICES ASSUME NEW address \in Seq(STRING), IsValidHostname(address)
             PROVE  /\ ~IsValidIpv4(address) /\ ~IsValidIpv6(address)
                    /\ \E k \in DOMAIN address : address[k] \notin Decimal \cup {Dot}
  OBVIOUS
<1>1. PICK k \in DOMAIN address : address[k] \notin Decimal \cup {Dot}
  BY HostnameTokens
<1>2. ~IsValidIpv4(address)
  <2> SUFFICES ASSUME IsValidIpv4(address) PROVE FALSE
    OBVIOUS
  <2>1. \A p \in DOMAIN Split(address, Dot) : Split(address, Dot)[p] = <<"octet">>
    BY DEF IsValidIpv4
  <2>2. \A j \in 1..Len(<<"octet">>) : <<"octet">>[j] \in {"octet"}
    OBVIOUS
  <2>3. \A i \in 1..Len(address) : address[i] \in {"octet"} \cup {Dot}
    <3> DEFINE parts == Split(address, Dot)
               S == {"octet"}
    <3>1. \A p \in DOMAIN parts : \A j \in 1..Len(parts[p]) : parts[p][j] \in S
      <4> HIDE DEF parts
      <4> QED
        BY <2>1, <2>2 DEF parts
    <3> HIDE DEF S
    <3>2. \A i \in 1..Len(address) : address[i] \in S \cup {Dot}
      BY <3>1, OnlyOf
    <3> QED
      BY <3>2 DEF S
  <2>4. k \in 1..Len(address) /\ "octet" \in Decimal
    BY DEF Decimal
  <2> QED
    BY <1>1, <2>3, <2>4
<1>3. ~IsValidIpv6(address)
  <2> SUFFICES ASSUME IsValidIpv6(address) PROVE FALSE
    OBVIOUS
  <2>1. Colon \notin Label \cup {Dot}
    BY DEF Colon, Dot, Label, Decimal
  <2>2. address # <<>> /\ \A i \in 1..Len(address) : address[i] # Colon
    BY <2>1, HostnameTokens
  <2>3. Len(Split(address, Colon)) = 1
    BY <2>2, SplitNone
  <2>4. Compressions(address, 1) = {}
    BY <2>2 DEF Compressions
  <2>5. CountIpv6Parts(address, TRUE) = 8
    BY <2>4 DEF IsValidIpv6
  <2>6. CountIpv6Parts(address, TRUE) \in {-1, 1, 1 + 1}
    BY <2>2, <2>3 DEF CountIpv6Parts
  <2>7. 8 \notin {-1, 1, 1 + 1}
    OBVIOUS
  <2> QED
    BY <2>5, <2>6, <2>7, Zenon
<1> QED
  BY <1>1, <1>2, <1>3

(* The rules, on any set of texts and of addresses, in every state of an   *)
(* initialised database.                                                   *)
THEOREM RulesFollowStandards == Spec => []ItemRulesMatch
<1>1. \A text \in Texts : IsValidUtf8(text) <=> WellFormed(text)
  BY Utf8RuleIsUnicode, InputsAssumption
<1>2. \A a \in Addresses : IsValidIpv6(a) <=> Rfc4291(a)
  BY Ipv6RuleIsRfc4291, InputsAssumption
<1>3. \A a \in Addresses :
         IsValidHostname(a) => /\ ~IsValidIpv4(a) /\ ~IsValidIpv6(a)
                               /\ \E k \in DOMAIN a : a[k] \notin Decimal \cup {Dot}
  BY HostnamesAreNames, InputsAssumption
<1>4. RulesMatch
  BY <1>1, <1>2, <1>3 DEF RulesMatch
<1>5. ItemRulesMatch
  BY <1>4 DEF ItemRulesMatch
<1> QED
  BY <1>5, PTL
-----------------------------------------------------------------------------
(* The invariant *)

SchemaSteps == {"create", "decode", "createNew", "insertNew", "rename", "version", "validate"}
OperationSteps ==
    {"AddItem", "UpsertItem", "ReplaceAll", "RemoveItem", "Clear", "insert",
     "GetItem", "ContainsItem", "GetAllItems", "CountItems"}
Steps == {"closed", "idle", "Initialize"} \cup SchemaSteps \cup OperationSteps

InitializeCall == [NoCall EXCEPT !.op = "Initialize"]

TypeOK ==
    /\ IsFile(file) /\ IsFile(work) /\ IsFile(original)
    /\ step \in Steps
    /\ call \in Mutations \cup Queries \cup {NoCall, InitializeCall}
    /\ todo \subseteq ItemRecords
    /\ initialized \in BOOLEAN

(* A complete database of schema v1. *)
IsV1(f) ==
    /\ f.version = 1
    /\ DOMAIN f.tables = {"items"} /\ ~f.otherIndex
    /\ f.tables["items"].sql \in {"v1", "v1 quoted"}

(* Only a transaction sees something else than what is committed. *)
NoTransaction == step \in Steps \ {"insertNew", "rename", "version", "validate", "insert"}

Schema ==
    /\ NoTransaction => work = file
    /\ initialized => IsV1(file)
    /\ step \in OperationSteps => initialized
    /\ step = "insert" => IsV1(work)
    /\ step \in SchemaSteps => file.version = 0 /\ ~initialized
    /\ step \in SchemaSteps \ {"decode"} => Supported(file)
    /\ step = "create" => ReadUserObjects(file) = {}
    /\ step \in {"decode", "createNew"} => Migratable(file)
    /\ step = "insertNew" => DOMAIN work.tables = {"items", "items_v1"}
    /\ step = "rename" => DOMAIN work.tables = {"items_v1"}
    /\ step \in {"version", "validate"} => DOMAIN work.tables = {"items"}
    /\ step = "validate" => work.version = 1

(* The thread works on the call that was made. *)
MutationSteps == {"AddItem", "UpsertItem", "ReplaceAll", "RemoveItem", "Clear"}
Calling ==
    /\ step \in {"closed", "idle"} => call = NoCall
    /\ step \in MutationSteps => call \in Mutations /\ call.op = step
    /\ step = "insert" => call \in Mutations /\ call.op = "ReplaceAll"
    /\ step \in {"GetItem", "ContainsItem", "GetAllItems", "CountItems"} =>
          call \in Queries /\ call.op = step
    /\ step \in {"Initialize"} \cup SchemaSteps => call = InitializeCall

(* What a transaction has written and has yet to write is what it was      *)
(* asked to write.                                                         *)
Bound(items) == {BindItem(item) : item \in items}
Contents ==
    /\ step = "insert" =>
          /\ ValidateItems(call.items) /\ todo \subseteq Range(call.items)
          /\ RowsOf(work) \cup Bound(todo) = Bound(Range(call.items))
    /\ step = "createNew" => Bound(todo) = RowsOf(file)
    /\ step = "insertNew" => work.tables["items_v1"].rows \cup Bound(todo) = RowsOf(file)
    /\ step = "rename" => work.tables["items_v1"].rows = RowsOf(file)
    /\ step \in {"version", "validate"} => RowsOf(work) = RowsOf(file)

Inv == TypeOK /\ Schema /\ Calling /\ Contents /\ RefusedFilesKept

USE TypesAssumption
-----------------------------------------------------------------------------
(* Files *)

(* What putting other rows into a table does to a file. *)
LEMMA WithRowsFacts ==
    ASSUME NEW f, IsFile(f), NEW n \in DOMAIN f.tables, NEW rows \in SUBSET Rows
    PROVE  /\ IsFile(WithRows(f, n, rows))
           /\ WithRows(f, n, rows).version = f.version
           /\ WithRows(f, n, rows).otherIndex = f.otherIndex
           /\ DOMAIN WithRows(f, n, rows).tables = DOMAIN f.tables
           /\ WithRows(f, n, rows).tables[n].rows = rows
           /\ WithRows(f, n, rows).tables[n].sql = f.tables[n].sql
           /\ \A m \in DOMAIN f.tables \ {n} :
                 WithRows(f, n, rows).tables[m] = f.tables[m]
<1> DEFINE t == [f.tables[n] EXCEPT !.rows = rows]
           ts == [f.tables EXCEPT ![n] = t]
           g == WithRows(f, n, rows)
<1>1. f \in [version : Int, tables : {f.tables}, otherIndex : BOOLEAN]
      /\ f.tables \in [DOMAIN f.tables -> [sql : CreateStatements, rows : SUBSET Rows]]
  BY DEF IsFile
<1>2. t \in [sql : CreateStatements, rows : SUBSET Rows] /\ t.rows = rows /\ t.sql = f.tables[n].sql
  BY <1>1
<1> HIDE DEF t
<1>3. /\ ts \in [DOMAIN f.tables -> [sql : CreateStatements, rows : SUBSET Rows]]
      /\ DOMAIN ts = DOMAIN f.tables /\ ts[n] = t
      /\ \A m \in DOMAIN f.tables \ {n} : ts[m] = f.tables[m]
  BY <1>1, <1>2
<1>4. g = [f EXCEPT !.tables = ts]
  BY <1>1 DEF WithRows, t
<1> HIDE DEF ts, g
<1>5. g.tables = ts /\ g.version = f.version /\ g.otherIndex = f.otherIndex
      /\ g \in [version : Int, tables : {ts}, otherIndex : BOOLEAN]
  BY <1>1, <1>4
<1>6. IsFile(g)
  BY <1>3, <1>5 DEF IsFile
<1> QED
  BY <1>2, <1>3, <1>5, <1>6 DEF g

(* What putting other tables into a file does. *)
LEMMA WithTablesFacts ==
    ASSUME NEW f, IsFile(f), NEW D, NEW ts \in [D -> [sql : CreateStatements, rows : SUBSET Rows]]
    PROVE  /\ IsFile(WithTables(f, ts))
           /\ WithTables(f, ts).version = f.version
           /\ WithTables(f, ts).otherIndex = f.otherIndex
           /\ WithTables(f, ts).tables = ts
           /\ DOMAIN WithTables(f, ts).tables = D
<1> DEFINE g == WithTables(f, ts)
<1>1. f \in [version : Int, tables : {f.tables}, otherIndex : BOOLEAN]
  BY DEF IsFile
<1>2. g.tables = ts /\ g.version = f.version /\ g.otherIndex = f.otherIndex
      /\ g \in [version : Int, tables : {ts}, otherIndex : BOOLEAN] /\ DOMAIN ts = D
  BY <1>1 DEF WithTables
<1> HIDE DEF g
<1>3. IsFile(g)
  BY <1>2 DEF IsFile
<1> QED
  BY <1>2, <1>3 DEF g

(* A table is created without rows. *)
LEMMA NoRowsFacts ==
    NoRows("v1") \in [sql : CreateStatements, rows : SUBSET Rows] /\ NoRows("v1").rows = {}
BY DEF NoRows, CreateStatements, DeviceColumns

(* Items are bound to rows, and rows that decode are read as items that    *)
(* are bound to the same row again.                                        *)
LEMMA BindFacts ==
    /\ \A item \in ItemRecords : BindItem(item) \in Rows /\ BindItem(item).id = item.id
    /\ \A row \in Rows : DecodeDatabaseItem(row) =>
          ItemOf(row) \in ItemRecords /\ BindItem(ItemOf(row)) = row
<1>1. ASSUME NEW item \in ItemRecords
      PROVE  BindItem(item) \in Rows /\ BindItem(item).id = item.id
  BY DEF ItemRecords, Rows, BindItem
<1>2. ASSUME NEW row \in Rows, DecodeDatabaseItem(row)
      PROVE  ItemOf(row) \in ItemRecords /\ BindItem(ItemOf(row)) = row
  <2>1. row.text = TRUE /\ row.integer = TRUE /\ row.port \in 0..MaxPort /\ row.alive \in {0, 1}
    BY <1>2 DEF DecodeDatabaseItem, Rows
  <2>2. row.port % (MaxPort + 1) = row.port /\ row.port \in Nat
    <3>1. MaxPort \in Nat
      BY SMT DEF MaxPort
    <3> QED
      BY <2>1, <3>1, SMT
  <2>3. ItemOf(row) \in ItemRecords
    BY <2>1, <2>2 DEF ItemRecords, ItemOf, Rows
  <2>4. BindItem(ItemOf(row)) =
           [id |-> row.id, name |-> row.name, address |-> row.address, text |-> row.text,
            integer |-> row.integer, port |-> row.port, alive |-> row.alive]
    BY <2>1, <2>2 DEF BindItem, ItemOf
  <2>5. row = [id |-> row.id, name |-> row.name, address |-> row.address, text |-> row.text,
               integer |-> row.integer, port |-> row.port, alive |-> row.alive]
    BY DEF Rows
  <2> QED
    BY <2>3, <2>4, <2>5
<1> QED
  BY <1>1, <1>2

(* The validation of the schema finds the complete v1 databases. *)
LEMMA V1Facts ==
    ASSUME NEW f, IsFile(f)
    PROVE  /\ f.version = 1 /\ ValidateV1Schema(f) <=> IsV1(f)
           /\ IsV1(f) => Supported(f) /\ TableExists(f, "items")
<1>1. IsV1(f) => Supported(f) /\ TableExists(f, "items")
  BY DEF IsV1, Supported, TableExists
<1>2. f.version = 1 /\ ValidateV1Schema(f) => IsV1(f)
  BY DEF IsV1, ValidateV1Schema, ValidateOnlyItemsObject, ReadUserObjects,
         ValidateDeviceColumns, ValidateUniqueDeviceId, ValidateExactCreateSql, NormalizeSql,
         DeviceColumns
<1>3. IsV1(f) => f.version = 1 /\ ValidateV1Schema(f)
  BY DEF IsV1, ValidateV1Schema, ValidateOnlyItemsObject, ReadUserObjects,
         ValidateDeviceColumns, ValidateUniqueDeviceId, ValidateExactCreateSql, NormalizeSql,
         DeviceColumns
<1> QED
  BY <1>1, <1>2, <1>3
-----------------------------------------------------------------------------
(* The steps *)

(* A call that ends without effect, by an answer, an exception or a crash. *)
LEMMA EndInv ==
    ASSUME Inv, UNCHANGED <<file, original>>, work' = file, step' \in {"idle", "closed"},
           call' = NoCall, todo' = {}, initialized' \in BOOLEAN,
           initialized' => initialized
    PROVE  Inv'
<1>1. TypeOK'
  BY DEF Inv, TypeOK, Steps
<1>2. Schema'
  BY DEF Inv, Schema, IsV1, NoTransaction, SchemaSteps, OperationSteps
<1>3. Calling' /\ Contents'
  BY DEF Calling, Contents, MutationSteps, SchemaSteps
<1>4. RefusedFilesKept'
  BY DEF Inv, RefusedFilesKept
<1> QED
  BY <1>1, <1>2, <1>3, <1>4 DEF Inv

(* An operation that commits what it has made of a v1 database. *)
LEMMA CommitInv ==
    ASSUME Inv, initialized, NEW content, Commit(content), IsFile(content), IsV1(content)
    PROVE  Inv'
<1>1. file' = content /\ work' = content /\ step' = "idle" /\ call' = NoCall /\ todo' = {}
      /\ UNCHANGED <<initialized, original>>
  BY DEF Commit, Done, Returned
<1>2. TypeOK'
  BY <1>1 DEF Inv, TypeOK, Steps
<1>3. Schema'
  BY <1>1 DEF Inv, Schema, IsV1, NoTransaction, SchemaSteps, OperationSteps
<1>4. Calling' /\ Contents'
  BY <1>1 DEF Calling, Contents, MutationSteps, SchemaSteps
<1>5. RefusedFilesKept'
  <2>1. Supported(original)
    BY DEF Inv, RefusedFilesKept
  <2> QED
    BY <1>1, <2>1 DEF RefusedFilesKept, IsV1
<1> QED
  BY <1>2, <1>3, <1>4, <1>5 DEF Inv

(* The rows of a v1 database can be replaced by any rows. *)
LEMMA V1Rows ==
    ASSUME NEW f, IsFile(f), IsV1(f), NEW rows \in SUBSET Rows
    PROVE  /\ IsFile(WithRows(f, "items", rows)) /\ IsV1(WithRows(f, "items", rows))
           /\ RowsOf(WithRows(f, "items", rows)) = rows
<1>1. "items" \in DOMAIN f.tables
  BY DEF IsV1
<1> DEFINE g == WithRows(f, "items", rows)
<1>2. /\ IsFile(g) /\ g.version = f.version /\ g.otherIndex = f.otherIndex
      /\ DOMAIN g.tables = DOMAIN f.tables
      /\ g.tables["items"].rows = rows /\ g.tables["items"].sql = f.tables["items"].sql
  BY <1>1, WithRowsFacts
<1> HIDE DEF g
<1>3. IsV1(g) /\ RowsOf(g) = rows
  BY <1>1, <1>2 DEF IsV1, RowsOf, TableExists
<1> QED
  BY <1>2, <1>3 DEF g

(* Items in a call are items of the callers. *)
LEMMA CallFacts ==
    ASSUME NEW c \in Mutations
    PROVE  /\ Range(c.items) \subseteq Items
           /\ c.op \in {"AddItem", "UpsertItem"} =>
                 c.items[1] \in Items /\ Range(c.items) = {c.items[1]}
           /\ c.op \in MutationSteps
<1>1. CASE c \in {[op |-> o, items |-> <<item>>, id |-> <<>>] :
                      o \in {"AddItem", "UpsertItem"}, item \in Items}
  BY <1>1 DEF Range, MutationSteps
<1>2. CASE c \in {[op |-> "ReplaceAll", items |-> s, id |-> <<>>] :
                      s \in {<<>>} \cup {<<i, j>> : i \in Items, j \in Items}}
  BY <1>2 DEF Range, MutationSteps
<1>3. CASE c \in {[op |-> "RemoveItem", items |-> <<>>, id |-> item.id] : item \in Items}
  BY <1>3 DEF Range, MutationSteps
<1>4. CASE c \in {[op |-> "Clear", items |-> <<>>, id |-> <<>>]}
  BY <1>4 DEF Range, MutationSteps
<1> QED
  BY <1>1, <1>2, <1>3, <1>4 DEF Mutations

QuerySteps == {"GetItem", "ContainsItem", "GetAllItems", "CountItems"}

(* A call is made: EnsureInitialized. *)
LEMMA CallInv ==
    ASSUME Inv, NEW c \in Mutations \cup Queries \cup {InitializeCall}, Call(c)
    PROVE  Inv'
<1>1. UNCHANGED <<file, work, todo, initialized, original>> /\ step = "idle"
  BY DEF Call
<1>2. work = file /\ call = NoCall
  BY <1>1 DEF Inv, Schema, Calling, NoTransaction, Steps, SchemaSteps, OperationSteps
<1>3. CASE UNCHANGED <<step, call>>
  BY <1>1, <1>3 DEF Inv, TypeOK, Schema, Calling, Contents, RefusedFilesKept,
                    NoTransaction, IsV1, IsFile
<1>4. CASE step' = c.op /\ call' = c /\ (c.op = "Initialize" \/ initialized)
  <2>1. \/ c \in Mutations /\ c.op \in MutationSteps
        \/ c \in Queries /\ c.op \in QuerySteps
        \/ c = InitializeCall /\ c.op = "Initialize"
    <3>1. c \in Queries => c.op \in QuerySteps
      BY DEF Queries, QuerySteps
    <3>2. InitializeCall.op = "Initialize"
      BY DEF InitializeCall, NoCall
    <3> QED
      BY <3>1, <3>2, CallFacts
  <2>2. TypeOK'
    BY <1>1, <1>4, <2>1 DEF Inv, TypeOK, Steps, OperationSteps, MutationSteps, QuerySteps
  <2>3. Schema'
    <3>1. step' \notin SchemaSteps \cup {"insert"}
      BY <1>4, <2>1 DEF SchemaSteps, MutationSteps, QuerySteps
    <3>2. step' \in OperationSteps => initialized
      BY <1>4, <2>1 DEF OperationSteps
    <3> QED
      BY <1>1, <1>2, <3>1, <3>2 DEF Inv, Schema, IsV1, SchemaSteps, NoTransaction
  <2>4. Calling' /\ Contents'
    BY <1>4, <2>1 DEF Calling, Contents, MutationSteps, QuerySteps, SchemaSteps
  <2>5. RefusedFilesKept'
    BY <1>1 DEF Inv, RefusedFilesKept
  <2> QED
    BY <2>2, <2>3, <2>4, <2>5 DEF Inv
<1> QED
  BY <1>3, <1>4 DEF Call

(* Initialize ends at once or begins with the schema. *)
LEMMA InitializeInv ==
    ASSUME Inv, Initialize
    PROVE  Inv'
<1>1. UNCHANGED <<file, original>> /\ step = "Initialize" /\ work = file
      /\ call = InitializeCall /\ IsFile(file)
  BY DEF Initialize, Inv, TypeOK, Schema, Calling, NoTransaction, Steps, SchemaSteps,
         OperationSteps
<1>2. CASE file.version = 1
  <2>1. initialized' = ValidateV1Schema(file) /\ work' = file /\ step' = "idle"
        /\ call' = NoCall /\ todo' = {}
    BY <1>2 DEF Initialize, Throw, Done, Returned
  <2>2. initialized' \in BOOLEAN
    BY <2>1 DEF ValidateV1Schema, ValidateOnlyItemsObject
  <2>3. TypeOK'
    BY <1>1, <2>1, <2>2 DEF Inv, TypeOK, Steps
  <2>4. Schema'
    BY <1>1, <1>2, <2>1, V1Facts DEF Schema, IsV1, NoTransaction, SchemaSteps, OperationSteps
  <2>5. Calling' /\ Contents'
    BY <2>1 DEF Calling, Contents, MutationSteps, SchemaSteps
  <2>6. RefusedFilesKept'
    <3>1. initialized' => Supported(file)
      BY <1>1, <1>2, <2>1, V1Facts
    <3> QED
      BY <1>1, <1>2, <3>1 DEF Inv, RefusedFilesKept
  <2> QED
    BY <2>3, <2>4, <2>5, <2>6 DEF Inv
<1>3. CASE initialized' = FALSE /\ Throw
  BY <1>1, <1>3, EndInv DEF Throw, Returned
<1>4. CASE /\ file.version = 0 /\ initialized' = FALSE
           /\ UNCHANGED <<work, call, todo>>
           /\ \/ step' = "create" /\ ReadUserObjects(file) = {}
              \/ step' = "decode" /\ Migratable(file)
  <2>1. TypeOK'
    BY <1>1, <1>4 DEF Inv, TypeOK, Steps, SchemaSteps
  <2>2. Schema'
    <3>1. step' = "create" => Supported(file)
      BY <1>4 DEF Supported, ReadUserObjects
    <3>2. step' \in {"create", "decode"}
      BY <1>4
    <3>3. Supported(file)' <=> Supported(file)
      BY <1>1 DEF Supported, RowsOf, TableExists, DecodeDatabaseItem
    <3>4. Migratable(file)' <=> Migratable(file)
      BY <1>1
    <3> QED
      BY <1>1, <1>4, <3>1, <3>2, <3>3, <3>4 DEF Schema, NoTransaction, SchemaSteps, OperationSteps
  <2>3. Calling' /\ Contents'
    BY <1>1, <1>4 DEF Calling, Contents, MutationSteps, SchemaSteps
  <2>4. RefusedFilesKept'
    BY <1>1, <1>4 DEF Inv, RefusedFilesKept
  <2> QED
    BY <2>1, <2>2, <2>3, <2>4 DEF Inv
<1> QED
  BY <1>2, <1>3, <1>4 DEF Initialize

(* A step from one place in the creation or migration to another leaves    *)
(* the committed file as it was found.                                     *)
LEMMA SchemaStep ==
    ASSUME Inv, step \in SchemaSteps, step' \in SchemaSteps \ {"create", "decode"},
           UNCHANGED <<file, call, initialized, original>>, Supported(file),
           IsFile(work'), todo' \subseteq ItemRecords,
           step' = "createNew" => work' = file /\ Migratable(file),
           step' = "insertNew" => DOMAIN work'.tables = {"items", "items_v1"},
           step' = "rename" => DOMAIN work'.tables = {"items_v1"},
           step' \in {"version", "validate"} => DOMAIN work'.tables = {"items"},
           step' = "validate" => work'.version = 1,
           Contents'
    PROVE  Inv'
<1>1. TypeOK'
  BY DEF Inv, TypeOK, Steps
<1>2. Schema'
  <2>1. Supported(file)' /\ (Migratable(file) => Migratable(file)')
    BY DEF Supported, RowsOf, TableExists, DecodeDatabaseItem
  <2>2. step' \notin OperationSteps /\ file.version = 0 /\ ~initialized
    BY DEF Inv, Schema, SchemaSteps, OperationSteps
  <2>3. NoTransaction' => work' = file'
    BY DEF NoTransaction, Steps, SchemaSteps
  <2> QED
    BY <2>1, <2>2, <2>3 DEF Schema, OperationSteps, SchemaSteps
<1>3. Calling'
  BY DEF Inv, Calling, MutationSteps, SchemaSteps
<1>4. RefusedFilesKept'
  BY DEF Inv, RefusedFilesKept
<1> QED
  BY <1>1, <1>2, <1>3, <1>4 DEF Inv

(* The creation of an empty database. *)
LEMMA CreateV1Inv ==
    ASSUME Inv, CreateV1
    PROVE  Inv'
<1> DEFINE ts == [n \in {"items"} |-> NoRows("v1")]
<1>1. /\ step = "create" /\ step' = "version" /\ work' = WithTables(work, ts)
      /\ UNCHANGED <<file, call, initialized, original, todo>>
  BY DEF CreateV1, Statement, InTransaction
<1>2. ts \in [{"items"} -> [sql : CreateStatements, rows : SUBSET Rows]] /\ ts["items"].rows = {}
  BY NoRowsFacts
<1>3. IsFile(work) /\ work = file /\ todo \subseteq ItemRecords
      /\ file.version = 0 /\ Supported(file) /\ ReadUserObjects(file) = {}
  <2>1. IsFile(work) /\ work = file /\ todo \subseteq ItemRecords
        /\ file.version = 0 /\ Supported(file)
    BY <1>1 DEF Inv, TypeOK, Schema, NoTransaction, Steps, SchemaSteps
  <2> QED
    BY <2>1, <1>1 DEF Inv, Schema
<1> HIDE DEF ts
<1>4. IsFile(work') /\ work'.tables = ts /\ DOMAIN work'.tables = {"items"}
  BY <1>1, <1>2, <1>3, WithTablesFacts
<1>5. RowsOf(work') = {} /\ RowsOf(file) = {}
  BY <1>2, <1>3, <1>4 DEF RowsOf, TableExists, ReadUserObjects
<1>6. Contents'
  BY <1>1, <1>5 DEF Contents, RowsOf, TableExists
<1> QED
  BY <1>1, <1>3, <1>4, <1>6, SchemaStep DEF SchemaSteps

(* The migration reads every row. *)
LEMMA DecodeInv ==
    ASSUME Inv, Decode
    PROVE  Inv'
<1>1. step = "decode" /\ UNCHANGED <<file, initialized, original>> /\ IsFile(file) /\ work = file
      /\ file.version = 0 /\ Migratable(file) /\ initialized \in BOOLEAN
  BY DEF Decode, Inv, TypeOK, Schema, NoTransaction, Steps, SchemaSteps
<1> DEFINE rows == file.tables["items"].rows
<1>2. "items" \in DOMAIN file.tables /\ rows \in SUBSET Rows
  BY <1>1 DEF Migratable, ValidateOnlyItemsObject, ReadUserObjects, IsFile
<1>3. CASE Throw
  BY <1>1, <1>3, EndInv DEF Throw, Returned
<1>4. CASE /\ \A row \in rows : DecodeDatabaseItem(row)
           /\ todo' = {ItemOf(row) : row \in rows} /\ step' = "createNew"
           /\ UNCHANGED <<work, call>>
  <2>1. todo' \subseteq ItemRecords /\ Bound(todo') = rows
    <3>1. \A row \in rows : ItemOf(row) \in ItemRecords /\ BindItem(ItemOf(row)) = row
      BY <1>2, <1>4, BindFacts
    <3>2. \A row \in rows : row \in Bound(todo')
      BY <1>4, <3>1 DEF Bound
    <3>3. \A row \in Bound(todo') : row \in rows
      BY <1>4, <3>1 DEF Bound
    <3> QED
      BY <1>4, <3>1, <3>2, <3>3
  <2>2. RowsOf(file) = rows
    BY <1>2 DEF RowsOf, TableExists
  <2>3. Supported(file)
    <3>1. \A row \in rows : row.port \in 0..MaxPort /\ DecodeDatabaseItem(row)
      BY <1>4 DEF DecodeDatabaseItem
    <3>2. DOMAIN file.tables = {"items"} /\ ~file.otherIndex
          /\ file.tables["items"].sql = "unversioned"
      BY <1>1 DEF Migratable, ValidateOnlyItemsObject, ReadUserObjects, ValidateDeviceColumns,
                  ValidateUniqueDeviceId, ValidateExactCreateSql, NormalizeSql
    <3> QED
      BY <1>1, <2>2, <3>1, <3>2 DEF Supported
  <2>4. Contents'
    BY <1>1, <1>4, <2>1, <2>2 DEF Contents, RowsOf, TableExists
  <2> QED
    BY <1>1, <1>4, <2>1, <2>3, <2>4, SchemaStep DEF SchemaSteps
<1> QED
  BY <1>3, <1>4 DEF Decode

(* The statements of the migration. *)
LEMMA MigrationInv ==
    ASSUME Inv, CreateItemsV1 \/ DropItems \/ RenameItemsV1 \/ SetUserVersion
                \/ \E item \in todo : InsertMigrated(item)
    PROVE  Inv'
<1>1. IsFile(work) /\ IsFile(file) /\ todo \subseteq ItemRecords
  BY DEF Inv, TypeOK
<1>2. work.tables \in [DOMAIN work.tables -> [sql : CreateStatements, rows : SUBSET Rows]]
  BY <1>1 DEF IsFile
<1>3. CASE CreateItemsV1
  <2> DEFINE ts == [n \in {"items", "items_v1"} |->
                       IF n = "items" THEN work.tables[n] ELSE NoRows("v1")]
  <2>1. /\ step = "createNew" /\ step' = "insertNew" /\ work' = WithTables(work, ts)
        /\ UNCHANGED <<file, call, initialized, original, todo>>
    BY <1>3 DEF CreateItemsV1, Statement, InTransaction
  <2>2. work = file /\ Supported(file) /\ Bound(todo) = RowsOf(file) /\ "items" \in DOMAIN work.tables
    BY <2>1 DEF Inv, Schema, Contents, NoTransaction, Steps, SchemaSteps, Migratable,
                ValidateOnlyItemsObject, ReadUserObjects
  <2>3. ts \in [{"items", "items_v1"} -> [sql : CreateStatements, rows : SUBSET Rows]]
    BY <1>2, <2>2, NoRowsFacts
  <2>4. ts["items_v1"].rows = {}
    BY NoRowsFacts
  <2> HIDE DEF ts
  <2>5. IsFile(work') /\ work'.tables = ts /\ DOMAIN work'.tables = {"items", "items_v1"}
    BY <1>1, <2>1, <2>3, WithTablesFacts
  <2>6. Contents'
    BY <2>1, <2>2, <2>4, <2>5 DEF Contents, RowsOf, TableExists
  <2> QED
    BY <1>1, <2>1, <2>2, <2>5, <2>6, SchemaStep DEF SchemaSteps
<1>4. ASSUME NEW item \in todo, InsertMigrated(item)
      PROVE  Inv'
  <2> DEFINE rows == work.tables["items_v1"].rows
             new == rows \cup {BindItem(item)}
  <2>1. /\ step = "insertNew" /\ step' = "insertNew"
        /\ work' = WithRows(work, "items_v1", new) /\ todo' = todo \ {item}
        /\ UNCHANGED <<file, call, initialized, original>>
    BY <1>4 DEF InsertMigrated, Statement, InTransaction, InsertItem
  <2>2. Supported(file) /\ rows \cup Bound(todo) = RowsOf(file)
        /\ DOMAIN work.tables = {"items", "items_v1"}
    BY <2>1 DEF Inv, Schema, Contents, SchemaSteps
  <2>3. rows \in SUBSET Rows /\ new \in SUBSET Rows
    BY <1>1, <1>2, <2>2, BindFacts
  <2>4. new \cup Bound(todo \ {item}) = rows \cup Bound(todo)
    BY DEF Bound
  <2> HIDE DEF rows, new
  <2>5. IsFile(work') /\ DOMAIN work'.tables = {"items", "items_v1"}
        /\ work'.tables["items_v1"].rows = new
    BY <1>1, <2>1, <2>2, <2>3, WithRowsFacts
  <2>6. Contents'
    BY <2>1, <2>2, <2>4, <2>5 DEF Contents, RowsOf, TableExists
  <2> QED
    BY <1>1, <2>1, <2>2, <2>5, <2>6, SchemaStep DEF SchemaSteps
<1>5. CASE DropItems
  <2> DEFINE ts == [n \in {"items_v1"} |-> work.tables[n]]
  <2>1. /\ step = "insertNew" /\ step' = "rename" /\ work' = WithTables(work, ts) /\ todo = {}
        /\ UNCHANGED <<file, call, initialized, original, todo>>
    BY <1>5 DEF DropItems, Statement, InTransaction
  <2>2. Supported(file) /\ work.tables["items_v1"].rows \cup Bound(todo) = RowsOf(file)
        /\ "items_v1" \in DOMAIN work.tables
    BY <2>1 DEF Inv, Schema, Contents, SchemaSteps
  <2>3. ts \in [{"items_v1"} -> [sql : CreateStatements, rows : SUBSET Rows]]
    BY <1>2, <2>2
  <2>4. ts["items_v1"].rows = RowsOf(file)
    BY <2>1, <2>2 DEF Bound
  <2> HIDE DEF ts
  <2>5. IsFile(work') /\ work'.tables = ts /\ DOMAIN work'.tables = {"items_v1"}
    BY <1>1, <2>1, <2>3, WithTablesFacts
  <2>6. Contents'
    BY <2>1, <2>4, <2>5 DEF Contents, RowsOf, TableExists
  <2> QED
    BY <1>1, <2>1, <2>2, <2>5, <2>6, SchemaStep DEF SchemaSteps
<1>6. CASE RenameItemsV1
  <2> DEFINE t == [work.tables["items_v1"] EXCEPT !.sql = "v1 quoted"]
             ts == [n \in {"items"} |-> t]
  <2>1. /\ step = "rename" /\ step' = "version" /\ work' = WithTables(work, ts)
        /\ UNCHANGED <<file, call, initialized, original, todo>>
    BY <1>6 DEF RenameItemsV1, Statement, InTransaction
  <2>2. Supported(file) /\ work.tables["items_v1"].rows = RowsOf(file)
        /\ "items_v1" \in DOMAIN work.tables
    BY <2>1 DEF Inv, Schema, Contents, SchemaSteps
  <2>3. t \in [sql : CreateStatements, rows : SUBSET Rows] /\ t.rows = RowsOf(file)
    <3>1. work.tables["items_v1"] \in [sql : CreateStatements, rows : SUBSET Rows]
      BY <1>2, <2>2
    <3> QED
      BY <2>2, <3>1 DEF CreateStatements, DeviceColumns
  <2> HIDE DEF t
  <2>4. /\ ts \in [{"items"} -> [sql : CreateStatements, rows : SUBSET Rows]]
        /\ ts["items"].rows = RowsOf(file)
    BY <2>3
  <2> HIDE DEF ts
  <2>5. IsFile(work') /\ work'.tables = ts /\ DOMAIN work'.tables = {"items"}
    BY <1>1, <2>1, <2>4, WithTablesFacts
  <2>6. Contents'
    BY <2>1, <2>4, <2>5 DEF Contents, RowsOf, TableExists
  <2> QED
    BY <1>1, <2>1, <2>2, <2>5, <2>6, SchemaStep DEF SchemaSteps
<1>7. CASE SetUserVersion
  <2>1. /\ step = "version" /\ step' = "validate" /\ work' = [work EXCEPT !.version = 1]
        /\ UNCHANGED <<file, call, initialized, original, todo>>
    BY <1>7 DEF SetUserVersion, Statement, InTransaction
  <2>2. Supported(file) /\ RowsOf(work) = RowsOf(file) /\ DOMAIN work.tables = {"items"}
    BY <2>1 DEF Inv, Schema, Contents, SchemaSteps
  <2>3. IsFile(work') /\ work'.tables = work.tables /\ work'.version = 1
    BY <1>1, <2>1 DEF IsFile
  <2>4. Contents'
    BY <2>1, <2>2, <2>3 DEF Contents, RowsOf, TableExists
  <2> QED
    BY <1>1, <2>1, <2>2, <2>3, <2>4, SchemaStep DEF SchemaSteps
<1> QED
  BY <1>3, <1>4, <1>5, <1>6, <1>7

(* The transaction of Initialize is committed: the database is complete. *)
LEMMA CommitSchemaInv ==
    ASSUME Inv, CommitSchema
    PROVE  Inv'
<1>1. /\ step = "validate" /\ ValidateV1Schema(work) /\ file' = work /\ step' = "idle"
      /\ call' = NoCall /\ todo' = {} /\ initialized' = TRUE /\ UNCHANGED <<work, original>>
  BY DEF CommitSchema, Done, Returned
<1>2. IsFile(work) /\ IsV1(work)
  BY <1>1, V1Facts DEF Inv, TypeOK, Schema
<1>3. Supported(original)
  <2>1. Supported(file)
    BY <1>1 DEF Inv, Schema, SchemaSteps
  <2> QED
    BY <2>1 DEF Inv, RefusedFilesKept
<1>4. TypeOK'
  BY <1>1, <1>2 DEF Inv, TypeOK, Steps
<1>5. Schema'
  BY <1>1, <1>2 DEF Schema, IsV1, NoTransaction, SchemaSteps, OperationSteps
<1>6. Calling' /\ Contents'
  BY <1>1 DEF Calling, Contents, MutationSteps, SchemaSteps
<1>7. RefusedFilesKept'
  BY <1>1, <1>2, <1>3 DEF RefusedFilesKept, IsV1
<1> QED
  BY <1>4, <1>5, <1>6, <1>7 DEF Inv

(* What an operation works on: a complete database. *)
LEMMA OperationFacts ==
    ASSUME Inv, step \in MutationSteps
    PROVE  /\ initialized /\ IsFile(file) /\ IsV1(file) /\ work = file
           /\ call \in Mutations /\ call.op = step
           /\ file.tables["items"].rows \in SUBSET Rows
           /\ RowsOf(file) = file.tables["items"].rows
           /\ Range(call.items) \subseteq ItemRecords
<1>1. initialized /\ IsFile(file) /\ IsV1(file) /\ work = file
      /\ call \in Mutations /\ call.op = step
  BY DEF Inv, TypeOK, Schema, Calling, NoTransaction, Steps, OperationSteps, MutationSteps
<1>2. file.tables["items"].rows \in SUBSET Rows /\ RowsOf(file) = file.tables["items"].rows
  BY <1>1 DEF IsV1, IsFile, RowsOf, TableExists
<1>3. Range(call.items) \subseteq ItemRecords
  BY <1>1, CallFacts
<1> QED
  BY <1>1, <1>2, <1>3

(* The rows that an operation without a transaction commits. *)
LEMMA CommitsRows ==
    ASSUME Inv, AddItem \/ UpsertItem \/ RemoveItem \/ Clear
    PROVE  \/ Refuse
           \/ \E rows \in SUBSET Rows :
                 /\ Commit(WithRows(file, "items", rows))
                 /\ \/ /\ step = "AddItem" /\ ValidateItem(call.items[1])
                       /\ \A r \in RowsOf(file) : r.id # call.items[1].id
                       /\ rows = RowsOf(file) \cup {BindItem(call.items[1])}
                    \/ /\ step = "UpsertItem" /\ ValidateItem(call.items[1])
                       /\ rows = {r \in RowsOf(file) : r.id # call.items[1].id}
                                 \cup {BindItem(call.items[1])}
                    \/ /\ step = "RemoveItem"
                       /\ rows = {r \in RowsOf(file) : r.id # call.id}
                    \/ step = "Clear" /\ rows = {}
<1>1. step \in MutationSteps
  BY DEF AddItem, UpsertItem, RemoveItem, Clear, MutationSteps
<1>2. RowsOf(file) \in SUBSET Rows /\ RowsOf(file) = file.tables["items"].rows
      /\ call \in Mutations /\ call.op = step /\ Range(call.items) \subseteq ItemRecords
  BY <1>1, OperationFacts
<1>3. step \in {"AddItem", "UpsertItem"} =>
         call.items[1] \in ItemRecords /\ BindItem(call.items[1]) \in Rows
         /\ BindItem(call.items[1]).id = call.items[1].id
  BY <1>2, CallFacts, BindFacts
<1>4. CASE AddItem
  <2> DEFINE rows == RowsOf(file) \cup {BindItem(call.items[1])}
  <2>1. step = "AddItem"
    BY <1>4 DEF AddItem
  <2>2. rows \in SUBSET Rows
    BY <1>2, <1>3, <2>1
  <2>3. Refuse \/ (/\ Commit(WithRows(file, "items", rows)) /\ ValidateItem(call.items[1])
                   /\ Accepts(file.tables["items"], BindItem(call.items[1])))
    BY <1>2, <1>4 DEF AddItem, InsertItem
  <2>4. Accepts(file.tables["items"], BindItem(call.items[1])) =>
            \A r \in RowsOf(file) : r.id # call.items[1].id
    BY <1>2, <1>3, <2>1 DEF Accepts
  <2> QED
    BY <2>1, <2>2, <2>3, <2>4
<1>5. CASE UpsertItem
  <2> DEFINE rows == {r \in RowsOf(file) : r.id # call.items[1].id}
                     \cup {BindItem(call.items[1])}
  <2>1. step = "UpsertItem"
    BY <1>5 DEF UpsertItem
  <2>2. rows \in SUBSET Rows
    BY <1>2, <1>3, <2>1
  <2>3. Refuse \/ (Commit(WithRows(file, "items", rows)) /\ ValidateItem(call.items[1]))
    BY <1>2, <1>5 DEF UpsertItem
  <2> QED
    BY <2>1, <2>2, <2>3
<1>6. CASE RemoveItem
  <2> DEFINE rows == {r \in RowsOf(file) : r.id # call.id}
  <2>1. step = "RemoveItem" /\ Commit(WithRows(file, "items", rows))
    BY <1>2, <1>6 DEF RemoveItem
  <2>2. rows \in SUBSET Rows
    BY <1>2
  <2> QED
    BY <2>1, <2>2
<1>7. CASE Clear
  BY <1>7 DEF Clear
<1> QED
  BY <1>4, <1>5, <1>6, <1>7

(* An operation without a transaction. *)
LEMMA OperationInv ==
    ASSUME Inv, AddItem \/ UpsertItem \/ RemoveItem \/ Clear
    PROVE  Inv'
<1>1. step \in MutationSteps
  BY DEF AddItem, UpsertItem, RemoveItem, Clear, MutationSteps
<1>2. initialized /\ IsFile(file) /\ IsV1(file)
  BY <1>1, OperationFacts
<1>3. CASE Refuse
  BY <1>3, EndInv DEF Refuse, Throw, Returned, Inv, TypeOK
<1>4. ASSUME NEW rows \in SUBSET Rows, Commit(WithRows(file, "items", rows))
      PROVE  Inv'
  BY <1>2, <1>4, V1Rows, CommitInv
<1> QED
  BY <1>3, <1>4, CommitsRows

(* A step inside the transaction of ReplaceAll. *)
LEMMA InsertInv ==
    ASSUME Inv, initialized, step' = "insert", call \in Mutations, call.op = "ReplaceAll",
           UNCHANGED <<file, call, initialized, original>>,
           IsFile(work'), IsV1(work'), ValidateItems(call.items),
           todo' \subseteq Range(call.items), Range(call.items) \subseteq ItemRecords,
           RowsOf(work') \cup Bound(todo') = Bound(Range(call.items))
    PROVE  Inv'
<1>1. TypeOK'
  BY DEF Inv, TypeOK, Steps, OperationSteps
<1>2. Schema'
  BY DEF Inv, Schema, IsV1, NoTransaction, SchemaSteps, OperationSteps
<1>3. Calling'
  BY DEF Calling, MutationSteps, SchemaSteps
<1>4. Contents'
  BY DEF Contents, RowsOf, TableExists
<1>5. RefusedFilesKept'
  BY DEF Inv, RefusedFilesKept
<1> QED
  BY <1>1, <1>2, <1>3, <1>4, <1>5 DEF Inv

(* ReplaceAll and its transaction. *)
LEMMA ReplaceInv ==
    ASSUME Inv, ReplaceAll \/ ReplaceCommit \/ \E item \in todo : ReplaceInsert(item)
    PROVE  Inv'
<1>1. CASE ReplaceAll
  <2>1. step = "ReplaceAll" /\ step \in MutationSteps
    BY <1>1 DEF ReplaceAll, MutationSteps
  <2>2. /\ initialized /\ IsFile(file) /\ IsV1(file) /\ work = file
        /\ call \in Mutations /\ call.op = "ReplaceAll" /\ Range(call.items) \subseteq ItemRecords
    BY <2>1, OperationFacts
  <2>3. CASE Refuse
    BY <2>3, EndInv DEF Refuse, Throw, Returned, Inv, TypeOK
  <2>4. CASE /\ ValidateItems(call.items) /\ todo' = Range(call.items)
             /\ Statement("insert", WithRows(work, "items", {}))
    <3>1. /\ step' = "insert" /\ work' = WithRows(work, "items", {})
          /\ UNCHANGED <<file, call, initialized, original>>
      BY <2>4 DEF Statement, InTransaction
    <3>2. IsFile(work') /\ IsV1(work') /\ RowsOf(work') = {}
      BY <2>2, <3>1, V1Rows
    <3> QED
      BY <2>2, <2>4, <3>1, <3>2, InsertInv
  <2> QED
    BY <1>1, <2>3, <2>4 DEF ReplaceAll
<1>2. ASSUME NEW item \in todo, ReplaceInsert(item)
      PROVE  Inv'
  <2> DEFINE rows == work.tables["items"].rows \cup {BindItem(item)}
  <2>1. /\ step = "insert" /\ step' = "insert" /\ todo' = todo \ {item}
        /\ work' = WithRows(work, "items", rows)
        /\ UNCHANGED <<file, call, initialized, original>>
    BY <1>2 DEF ReplaceInsert, Statement, InTransaction, InsertItem
  <2>2. /\ initialized /\ IsFile(work) /\ IsV1(work) /\ call \in Mutations
        /\ call.op = "ReplaceAll" /\ todo \subseteq ItemRecords
        /\ ValidateItems(call.items) /\ todo \subseteq Range(call.items)
        /\ RowsOf(work) \cup Bound(todo) = Bound(Range(call.items))
    BY <2>1 DEF Inv, TypeOK, Schema, Calling, Contents, OperationSteps
  <2>3. work.tables["items"].rows = RowsOf(work) /\ RowsOf(work) \in SUBSET Rows
    BY <2>2 DEF IsV1, IsFile, RowsOf, TableExists
  <2>4. rows \in SUBSET Rows
    BY <2>2, <2>3, BindFacts
  <2>5. rows \cup Bound(todo \ {item}) = RowsOf(work) \cup Bound(todo)
    BY <2>3 DEF Bound
  <2> HIDE DEF rows
  <2>6. IsFile(work') /\ IsV1(work') /\ RowsOf(work') = rows
    BY <2>1, <2>2, <2>4, V1Rows
  <2> QED
    BY <2>1, <2>2, <2>5, <2>6, InsertInv, CallFacts
<1>3. CASE ReplaceCommit
  <2>1. step = "insert" /\ Commit(work)
    BY <1>3 DEF ReplaceCommit
  <2>2. initialized /\ IsFile(work) /\ IsV1(work)
    BY <2>1 DEF Inv, TypeOK, Schema, OperationSteps
  <2> QED
    BY <2>1, <2>2, CommitInv
<1> QED
  BY <1>1, <1>2, <1>3

(* The answers, the failing statements, the crash and the next process. *)
LEMMA AnswerInv ==
    ASSUME Inv, Open \/ Query \/ ContainsItem \/ CountItems \/ StatementFails \/ Crash
    PROVE  Inv'
<1>1. initialized \in BOOLEAN
  BY DEF Inv, TypeOK
<1>2. CASE Open
  <2>1. step = "closed" /\ step' = "idle" /\ work = file /\ call = NoCall
        /\ UNCHANGED <<file, work, call, todo, initialized, original>>
    BY <1>2 DEF Open, Inv, Schema, Calling, NoTransaction, Steps, SchemaSteps, OperationSteps
  <2>2. TypeOK'
    BY <2>1 DEF Inv, TypeOK, Steps
  <2>3. Schema'
    BY <2>1 DEF Inv, Schema, IsV1, NoTransaction, SchemaSteps, OperationSteps
  <2>4. Calling' /\ Contents'
    BY <2>1 DEF Calling, Contents, MutationSteps, SchemaSteps
  <2>5. RefusedFilesKept'
    BY <2>1 DEF Inv, RefusedFilesKept
  <2> QED
    BY <2>2, <2>3, <2>4, <2>5 DEF Inv
<1>3. CASE Query \/ ContainsItem \/ CountItems
  <2>1. step \in QuerySteps /\ UNCHANGED <<file, work, initialized, original>>
        /\ step' = "idle" /\ call' = NoCall /\ todo' = {}
    BY <1>3 DEF Query, ContainsItem, CountItems, Returned, QuerySteps
  <2>2. work = file
    BY <2>1 DEF Inv, Schema, NoTransaction, Steps, OperationSteps, QuerySteps
  <2> QED
    BY <1>1, <2>1, <2>2, EndInv
<1>4. CASE StatementFails \/ Crash
  <2>1. UNCHANGED <<file, original>> /\ work' = file /\ step' \in {"idle", "closed"}
        /\ call' = NoCall /\ todo' = {}
        /\ (initialized' = FALSE \/ initialized' = (initialized /\ call.op # "Initialize"))
    BY <1>4 DEF StatementFails, Crash, Throw, Returned
  <2> QED
    BY <1>1, <2>1, EndInv
<1> QED
  BY <1>2, <1>3, <1>4

(* The invariant holds when the program is first started ... *)
LEMMA InitInv == Init => Inv
<1> SUFFICES ASSUME Init PROVE Inv
  OBVIOUS
<1>1. TypeOK
  BY DEF Init, TypeOK, Steps
<1>2. Schema /\ Calling /\ Contents
  BY DEF Init, Schema, Calling, Contents, NoTransaction, SchemaSteps, OperationSteps,
         MutationSteps
<1>3. RefusedFilesKept
  BY DEF Init, RefusedFilesKept
<1> QED
  BY <1>1, <1>2, <1>3 DEF Inv

(* ... and every step keeps it. *)
LEMMA NextInv == Inv /\ [Next]_vars => Inv'
<1> SUFFICES ASSUME Inv, [Next]_vars PROVE Inv'
  OBVIOUS
<1>1. CASE \E c \in Mutations \cup Queries \cup {[NoCall EXCEPT !.op = "Initialize"]} : Call(c)
  BY <1>1, CallInv DEF InitializeCall
<1>2. CASE Initialize
  BY <1>2, InitializeInv
<1>3. CASE CreateV1
  BY <1>3, CreateV1Inv
<1>4. CASE Decode
  BY <1>4, DecodeInv
<1>5. CASE \/ CreateItemsV1 \/ DropItems \/ RenameItemsV1 \/ SetUserVersion
           \/ \E item \in todo : InsertMigrated(item)
  BY <1>5, MigrationInv
<1>6. CASE CommitSchema
  BY <1>6, CommitSchemaInv
<1>7. CASE AddItem \/ UpsertItem \/ RemoveItem \/ Clear
  BY <1>7, OperationInv
<1>8. CASE ReplaceAll \/ ReplaceCommit \/ \E item \in todo : ReplaceInsert(item)
  BY <1>8, ReplaceInv
<1>9. CASE Open \/ Query \/ ContainsItem \/ CountItems \/ StatementFails \/ Crash
  BY <1>9, AnswerInv
<1>10. CASE UNCHANGED vars
  <2>1. UNCHANGED <<file, work, step, call, todo, initialized, original>>
    BY <1>10 DEF vars
  <2>2. TypeOK'
    BY <2>1 DEF Inv, TypeOK
  <2>3. Schema'
    BY <2>1 DEF Inv, Schema, IsV1, NoTransaction
  <2>4. Calling' /\ Contents'
    BY <2>1 DEF Inv, Calling, Contents, RowsOf, TableExists
  <2>5. RefusedFilesKept'
    BY <2>1 DEF Inv, RefusedFilesKept
  <2> QED
    BY <2>2, <2>3, <2>4, <2>5 DEF Inv
<1> QED
  BY <1>1, <1>2, <1>3, <1>4, <1>5, <1>6, <1>7, <1>8, <1>9, <1>10 DEF Next

(* Every reachable state satisfies Inv. *)
THEOREM InvHolds == Spec => []Inv
BY InitInv, NextInv, PTL DEF Spec

(* A file that Initialize refuses is never touched, and any other one is   *)
(* at every moment as it was found or a complete v1 database, wherever     *)
(* the migration fails or the process dies.                                *)
THEOREM ForeignFilesAreSafe == Spec => []RefusedFilesKept
BY InvHolds, PTL DEF Inv
-----------------------------------------------------------------------------
(* The database implements DeviceTable. *)

(* The call that the abstract table sees. *)
TableCall == RowCall(IF call \in Mutations THEN call ELSE NoCall)

(* A call that is validated asks for rows that may be written. *)
LEMMA ValidIsStorable ==
    ASSUME NEW item \in Items, ValidateItem(item)
    PROVE  BindItem(item) \in StorableRows
<1>1. item.id \in Seq(Nat) /\ item.name \in Seq(Nat) /\ item.address \in Seq(STRING)
  BY DEF ItemRecords
<1>2. /\ Len(item.id) \in 1..MaxIdBytes /\ WellFormed(item.id)
      /\ Len(item.name) \in 1..MaxNameBytes /\ WellFormed(item.name)
  BY <1>1, Utf8RuleIsUnicode DEF ValidateItem, ValidateSizedUtf8
<1>3. IsValidIpv4(item.address) \/ Rfc4291(item.address) \/ IsValidHostname(item.address)
  BY <1>1, Ipv6RuleIsRfc4291 DEF ValidateItem, IsValidAddress
<1> QED
  BY <1>2, <1>3 DEF StorableRows

(* A call of the database differs from none. *)
LEMMA RowCallFacts ==
    ASSUME NEW c \in Mutations
    PROVE  /\ RowCall(c) # RowCall(NoCall)
           /\ RowCall(c).op = c.op /\ RowCall(c).id = c.id
           /\ RowCall(c).rows = Bound(Range(c.items))
           /\ c # NoCall
<1>1. c.op # "none" /\ NoCall.op = "none"
  BY CallFacts DEF MutationSteps, NoCall
<1> QED
  BY <1>1 DEF RowCall, Bound

(* Neither the thread's own call nor none is a mutation unless it is one. *)
LEMMA NotMutations == NoCall \notin Mutations /\ InitializeCall \notin Mutations
                      /\ \A c \in Queries : c \notin Mutations
<1>1. NoCall.op = "none" /\ InitializeCall.op = "Initialize"
  BY DEF NoCall, InitializeCall
<1>2. \A c \in Queries : c.op \in QuerySteps
  BY DEF Queries, QuerySteps
<1> QED
  BY <1>1, <1>2, CallFacts DEF MutationSteps, QuerySteps

(* A call that ends without having changed a row is given up, or was none  *)
(* of the table's.                                                         *)
LEMMA GivesUp ==
    ASSUME call' = NoCall, RowsOf(file') = RowsOf(file)
    PROVE  Table!Next \/ UNCHANGED <<RowsOf(file), TableCall>>
<1>1. TableCall' = RowCall(NoCall) /\ RowsOf(file)' = RowsOf(file)
  BY NotMutations DEF TableCall, RowCall, RowsOf, TableExists, BindItem, NoCall
<1>2. CASE call \in Mutations
  <2>1. TableCall = RowCall(call) /\ TableCall # RowCall(NoCall)
    BY <1>2, RowCallFacts DEF TableCall
  <2> QED
    BY <1>1, <2>1 DEF Table!Next, Table!GiveUp, TableCall
<1>3. CASE call \notin Mutations
  BY <1>1, <1>3 DEF TableCall
<1> QED
  BY <1>2, <1>3

(* What a call asks for, in terms of the rows. *)
Asked(c, rows) ==
    \/ /\ c.op = "AddItem" /\ \A r \in RowsOf(file) : r.id # c.items[1].id
       /\ rows = RowsOf(file) \cup {BindItem(c.items[1])}
    \/ /\ c.op = "UpsertItem"
       /\ rows = {r \in RowsOf(file) : r.id # c.items[1].id} \cup {BindItem(c.items[1])}
    \/ c.op = "ReplaceAll" /\ rows = Bound(Range(c.items))
    \/ c.op = "RemoveItem" /\ rows = {r \in RowsOf(file) : r.id # c.id}
    \/ c.op = "Clear" /\ rows = {}

(* Only three operations come with items. *)
LEMMA NoItems ==
    ASSUME NEW c \in Mutations, c.op \in {"RemoveItem", "Clear"}
    PROVE  Range(c.items) = {}
BY DEF Mutations, Range

(* The commit of what a call asks for is its effect on the table. *)
LEMMA TakesEffect ==
    ASSUME call \in Mutations, call' = NoCall,
           \A item \in Range(call.items) : ValidateItem(item),
           Asked(call, RowsOf(file'))
    PROVE  Table!Next
<1>1. TableCall' = RowCall(NoCall) /\ RowsOf(file)' = RowsOf(file')
  BY NotMutations DEF TableCall, RowCall, RowsOf, TableExists, BindItem, NoCall
<1>2. TableCall = RowCall(call) /\ TableCall # RowCall(NoCall)
      /\ TableCall.op = call.op /\ TableCall.id = call.id
      /\ TableCall.rows = Bound(Range(call.items))
  BY RowCallFacts DEF TableCall
<1>3. TableCall.rows \subseteq StorableRows
  BY <1>2, CallFacts, ValidIsStorable DEF Bound
<1>4. call.op \in {"AddItem", "UpsertItem"} =>
         TableCall.rows = {BindItem(call.items[1])} /\ BindItem(call.items[1]).id = call.items[1].id
  <2>1. call.op \in {"AddItem", "UpsertItem"} =>
           Range(call.items) = {call.items[1]} /\ call.items[1] \in ItemRecords
    BY CallFacts
  <2> QED
    BY <1>2, <2>1, BindFacts DEF Bound
<1>5. call.op = "AddItem" => Table!Ids(TableCall.rows) \cap Table!Ids(RowsOf(file)) = {}
  BY <1>4 DEF Table!Ids, Asked
<1>6. RowsOf(file') = Table!Effect(TableCall)
  <2>1. CASE call.op = "AddItem"
    BY <1>2, <1>4, <2>1 DEF Asked, Table!Effect
  <2>2. CASE call.op = "UpsertItem"
    <3>1. Table!Ids(TableCall.rows) = {call.items[1].id}
      BY <1>4, <2>2 DEF Table!Ids
    <3> QED
      BY <1>2, <1>4, <2>2, <3>1 DEF Asked, Table!Effect
  <2>3. CASE call.op = "ReplaceAll"
    BY <1>2, <2>3 DEF Asked, Table!Effect
  <2>4. CASE call.op = "RemoveItem"
    BY <1>2, <2>4 DEF Asked, Table!Effect
  <2>5. CASE call.op = "Clear"
    BY <1>2, <2>5 DEF Asked, Table!Effect
  <2> QED
    BY <2>1, <2>2, <2>3, <2>4, <2>5 DEF Asked
<1>7. Table!TakeEffect
  BY <1>1, <1>2, <1>3, <1>5, <1>6 DEF Table!TakeEffect, TableCall
<1> QED
  BY <1>7 DEF Table!Next

(* Every step of the database is one of the table, or none. *)
LEMMA TableStep ==
    ASSUME Inv, [Next]_vars
    PROVE  Table!Next \/ UNCHANGED <<RowsOf(file), TableCall>>
<1>1. ASSUME UNCHANGED <<file, call>>
      PROVE  UNCHANGED <<RowsOf(file), TableCall>>
  BY <1>1 DEF RowsOf, TableExists, TableCall, RowCall, Range, BindItem, Mutations, NoCall
<1>2. ASSUME NEW c \in Mutations \cup Queries \cup {InitializeCall}, Call(c)
      PROVE  Table!Next \/ UNCHANGED <<RowsOf(file), TableCall>>
  <2>1. step = "idle" /\ call = NoCall /\ file' = file
    BY <1>2 DEF Call, Inv, Calling
  <2>2. RowsOf(file)' = RowsOf(file) /\ TableCall = RowCall(NoCall)
    BY <2>1, NotMutations DEF RowsOf, TableExists, TableCall
  <2>3. CASE call' = call
    BY <1>1, <2>1, <2>3
  <2>4. CASE call' = c /\ c \in Mutations
    <3>1. TableCall' = RowCall(c)
      BY <2>4 DEF TableCall, RowCall, BindItem, Range
    <3>2. Table!Ask
      BY <2>2, <2>4, <3>1 DEF Table!Ask, TableCall
    <3> QED
      BY <3>2 DEF Table!Next
  <2>5. CASE call' = c /\ c \notin Mutations
    <3>1. TableCall' = RowCall(NoCall)
      BY <2>5 DEF TableCall, RowCall, BindItem, Range, NoCall
    <3> QED
      BY <2>2, <3>1
  <2> QED
    BY <1>2, <2>3, <2>4, <2>5 DEF Call
<1>3. CASE Initialize \/ Decode
  <2>1. file' = file /\ (call' = call \/ call' = NoCall)
    BY <1>3 DEF Initialize, Decode, Throw, Done, Returned
  <2> QED
    BY <1>1, <2>1, GivesUp
<1>4. CASE \/ CreateV1 \/ CreateItemsV1 \/ DropItems \/ RenameItemsV1 \/ SetUserVersion
           \/ \E item \in todo : InsertMigrated(item) \/ ReplaceInsert(item)
  <2>1. UNCHANGED <<file, call>>
    BY <1>4 DEF CreateV1, CreateItemsV1, DropItems, RenameItemsV1, SetUserVersion,
                InsertMigrated, ReplaceInsert, Statement, InTransaction
  <2> QED
    BY <1>1, <2>1
<1>5. CASE CommitSchema
  <2>1. step = "validate" /\ file' = work /\ call' = NoCall
    BY <1>5 DEF CommitSchema, Done, Returned
  <2>2. RowsOf(file') = RowsOf(file)
    BY <2>1 DEF Inv, Contents
  <2> QED
    BY <2>1, <2>2, GivesUp
<1>6. CASE AddItem \/ UpsertItem \/ RemoveItem \/ Clear
  <2>1. step \in MutationSteps
    BY <1>6 DEF AddItem, UpsertItem, RemoveItem, Clear, MutationSteps
  <2>2. IsFile(file) /\ IsV1(file) /\ call \in Mutations /\ call.op = step
    BY <2>1, OperationFacts
  <2>3. CASE Refuse
    BY <2>3, GivesUp DEF Refuse, Throw, Returned
  <2>4. ASSUME NEW rows \in SUBSET Rows, Commit(WithRows(file, "items", rows)),
               Asked(call, rows), call.op # "ReplaceAll",
               call.op \in {"AddItem", "UpsertItem"} => ValidateItem(call.items[1])
        PROVE  Table!Next
    <3>1. file' = WithRows(file, "items", rows) /\ call' = NoCall
      BY <2>4 DEF Commit, Done, Returned
    <3>2. RowsOf(file') = rows
      BY <2>2, <3>1, V1Rows
    <3>3. \A item \in Range(call.items) : ValidateItem(item)
      <4>1. CASE call.op \in {"AddItem", "UpsertItem"}
        BY <2>2, <2>4, <4>1, CallFacts
      <4>2. CASE call.op \in {"RemoveItem", "Clear"}
        BY <2>2, <4>2, NoItems
      <4> QED
        BY <2>4, <4>1, <4>2 DEF Asked
    <3> QED
      BY <2>2, <2>4, <3>1, <3>2, <3>3, TakesEffect
  <2>5. Refuse \/ \E rows \in SUBSET Rows :
            /\ Commit(WithRows(file, "items", rows)) /\ Asked(call, rows)
            /\ call.op # "ReplaceAll"
            /\ call.op \in {"AddItem", "UpsertItem"} => ValidateItem(call.items[1])
    BY <1>6, <2>2, CommitsRows DEF Asked
  <2> QED
    BY <2>3, <2>4, <2>5
<1>7. CASE ReplaceAll
  <2>1. file' = file /\ (call' = call \/ call' = NoCall)
    BY <1>7 DEF ReplaceAll, Statement, InTransaction, Refuse, Throw, Returned
  <2> QED
    BY <1>1, <2>1, GivesUp
<1>8. CASE ReplaceCommit
  <2>1. step = "insert" /\ todo = {} /\ file' = work /\ call' = NoCall
    BY <1>8 DEF ReplaceCommit, Commit, Done, Returned
  <2>2. call \in Mutations /\ call.op = "ReplaceAll" /\ ValidateItems(call.items)
        /\ RowsOf(work) = Bound(Range(call.items))
    BY <2>1 DEF Inv, Calling, Contents, Bound
  <2>3. \A item \in Range(call.items) : ValidateItem(item)
    BY <2>2 DEF ValidateItems, Range
  <2> QED
    BY <2>1, <2>2, <2>3, TakesEffect DEF Asked
<1>9. CASE Open \/ Query \/ ContainsItem \/ CountItems \/ StatementFails \/ Crash
  <2>1. file' = file /\ (call' = call \/ call' = NoCall)
    BY <1>9 DEF Open, Query, ContainsItem, CountItems, StatementFails, Crash, Throw, Returned
  <2> QED
    BY <1>1, <2>1, GivesUp
<1>10. CASE UNCHANGED vars
  BY <1>1, <1>10 DEF vars
<1> QED
  BY <1>2, <1>3, <1>4, <1>5, <1>6, <1>7, <1>8, <1>9, <1>10 DEF Next, InitializeCall

(* The database is what IDatabase promises: the committed rows change only *)
(* as the call in progress asks, all at once or not at all, with valid     *)
(* rows only, whatever fails or crashes and wherever.                       *)
THEOREM DatabaseImplementsTable == Spec => ImplementsDeviceTable
<1>1. Init => Table!Init
  BY NotMutations DEF Init, Table!Init
<1>2. Inv /\ [Next]_vars => [Table!Next]_<<RowsOf(file), TableCall>>
  BY TableStep
<1> QED
  BY <1>1, <1>2, InvHolds, PTL DEF Spec, ImplementsDeviceTable, Table!Spec, TableCall
-----------------------------------------------------------------------------
(* Queries *)

(* What a query answers. *)
LEMMA AnswerStep ==
    ASSUME Inv, Query
    PROVE  ReadsWhatIsStored'
<1>1. step \in QuerySteps /\ file' = file
  BY DEF Query, QuerySteps
<1>2. IsV1(file) /\ IsFile(file) /\ call.op = step
  BY <1>1 DEF Inv, TypeOK, Schema, Calling, OperationSteps, QuerySteps
<1>3. RowsOf(file) = file.tables["items"].rows /\ RowsOf(file) \subseteq Rows
  BY <1>2 DEF IsV1, RowsOf, TableExists, IsFile
<1>4. RowsOf(file)' = RowsOf(file)
  BY <1>1 DEF RowsOf, TableExists
<1> SUFFICES ASSUME result'.kind = "items" PROVE ReadsWhatIsStored'
  BY DEF ReadsWhatIsStored
<1>5. /\ \A r \in Selected : DecodeDatabaseItem(r)
      /\ result' = [kind |-> "items", call |-> call, items |-> {ItemOf(r) : r \in Selected}]
  BY DEF Query, Returned
<1>6. Selected = {row \in RowsOf(file) : result'.call.op = "GetItem" => row.id = result'.call.id}
  BY <1>2, <1>3, <1>5 DEF Selected
<1>7. \A r \in Selected : ItemOf(r) \in ItemRecords /\ BindItem(ItemOf(r)) = r
  BY <1>3, <1>5, <1>6, BindFacts
<1>8. {BindItem(item) : item \in result'.items} = Selected
  BY <1>5, <1>7
<1>9. ASSUME NEW item \in result'.items
      PROVE  WellFormed(item.id) /\ WellFormed(item.name)
  <2>1. PICK r \in Selected : item = ItemOf(r)
    BY <1>5, <1>9
  <2>2. item.id \in Seq(Nat) /\ item.name \in Seq(Nat)
    BY <1>7, <2>1 DEF ItemRecords
  <2>3. IsValidUtf8(item.id) /\ IsValidUtf8(item.name)
    BY <1>5, <2>1 DEF DecodeDatabaseItem, ValidateItem, ValidateSizedUtf8
  <2> QED
    BY <2>2, <2>3, Utf8RuleIsUnicode
<1>10. {BindItem(item) : item \in result'.items} =
          {row \in RowsOf(file)' : result'.call.op = "GetItem" => row.id = result'.call.id}
  BY <1>4, <1>6, <1>8
<1> QED
  BY <1>9, <1>10, Zenon DEF ReadsWhatIsStored, BindItem

(* No other step answers with items, and the rows do not change under an   *)
(* answer.                                                                 *)
LEMMA ReadsStep ==
    ASSUME Inv, ReadsWhatIsStored, [Next]_vars
    PROVE  ReadsWhatIsStored'
<1>1. CASE Query
  BY <1>1, AnswerStep
<1>2. CASE result' = result /\ file' = file
  BY <1>2 DEF ReadsWhatIsStored, RowsOf, TableExists, BindItem
<1>3. CASE result'.kind # "items"
  BY <1>3 DEF ReadsWhatIsStored
<1>4. Query \/ (result' = result /\ file' = file) \/ result'.kind # "items"
  <2>1. Throw \/ Done => result'.kind # "items"
    BY DEF Throw, Done, Returned
  <2>2. \A content : Commit(content) => Done
    BY DEF Commit
  <2>3. ASSUME NEW c, Call(c)
        PROVE  (result' = result /\ file' = file) \/ result'.kind # "items"
    BY <2>3 DEF Call
  <2>4. CASE Open \/ CreateV1 \/ CreateItemsV1 \/ DropItems \/ RenameItemsV1 \/ SetUserVersion
             \/ (\E item \in todo : InsertMigrated(item) \/ ReplaceInsert(item)) \/ UNCHANGED vars
    BY <2>4 DEF vars, Open, CreateV1, CreateItemsV1, DropItems, RenameItemsV1, SetUserVersion,
                InsertMigrated, ReplaceInsert, Statement, InTransaction
  <2>5. CASE Initialize \/ Decode \/ CommitSchema
    BY <2>1, <2>5, Zenon DEF Initialize, Decode, CommitSchema
  <2>6. CASE AddItem \/ UpsertItem \/ RemoveItem \/ Clear \/ ReplaceAll \/ ReplaceCommit
    <3>1. Refuse => Throw
      BY DEF Refuse
    <3>2. \A content : Statement("insert", content) => result' = result /\ file' = file
      BY DEF Statement, InTransaction
    <3> QED
      BY <2>1, <2>2, <2>6, <3>1, <3>2, Zenon
         DEF AddItem, UpsertItem, RemoveItem, Clear, ReplaceAll, ReplaceCommit
  <2>7. CASE ContainsItem \/ CountItems \/ Crash
    BY <2>7 DEF ContainsItem, CountItems, Crash, Returned
  <2>8. CASE StatementFails
    BY <2>1, <2>8 DEF StatementFails
  <2> QED
    BY <2>3, <2>4, <2>5, <2>6, <2>7, <2>8 DEF Next
<1> QED
  BY <1>1, <1>2, <1>3, <1>4

(* A query throws or returns what is stored: exactly the rows it asks for  *)
(* at that moment, to the last bit of their ports and with well-formed     *)
(* texts, whoever wrote them.                                              *)
THEOREM QueriesReadWhatIsStored == Spec => []ReadsWhatIsStored
<1>1. Init => ReadsWhatIsStored
  BY DEF Init, ReadsWhatIsStored
<1>2. Inv /\ ReadsWhatIsStored /\ [Next]_vars => ReadsWhatIsStored'
  BY ReadsStep
<1> QED
  BY <1>1, <1>2, InvHolds, PTL DEF Spec
=============================================================================
