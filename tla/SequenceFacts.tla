---------------------------- MODULE SequenceFacts ----------------------------
(***************************************************************************)
(* Facts about sequences and sets of naturals that the proofs about the    *)
(* queues of several components rest on.  None of them is about the        *)
(* program.                                                                *)
(***************************************************************************)
EXTENDS Integers, Sequences, SequencesExt, SequenceTheorems, WellFoundedInduction, TLAPS

(* A nonempty set of natural numbers has a least element. *)
LEMMA LeastElement ==
    ASSUME NEW S \in SUBSET Nat, S # {}
    PROVE  \E m \in S : \A n \in S : m <= n
<1>1. IsWellFoundedOn(OpToRel(<, Nat), Nat)
  BY NatLessThanWellFounded
<1>2. PICK m \in S : \A n \in S : <<n, m>> \notin OpToRel(<, Nat)
  BY <1>1, WFMin
<1>3. \A n \in S : <<n, m>> \in OpToRel(<, Nat) <=> n < m
  BY DEF OpToRel
<1>4. \A n \in S : ~(n < m)
  BY <1>2, <1>3, Zenon
<1> QED
  BY <1>4

(* Induction over the naturals, for a set. *)
LEMMA SetInduction ==
    ASSUME NEW P, 0 \in P, \A k \in Nat : k \in P => k + 1 \in P
    PROVE  Nat \subseteq P
<1> DEFINE Bad == Nat \ P
<1> SUFFICES ASSUME Bad # {} PROVE FALSE
  OBVIOUS
<1>1. PICK m \in Bad : \A k \in Bad : m <= k
  <2>1. Bad \in SUBSET Nat
    OBVIOUS
  <2> HIDE DEF Bad
  <2> QED
    BY <2>1, LeastElement
<1>2. m \in Nat /\ m \notin P /\ m # 0
  OBVIOUS
<1>3. m - 1 \in Nat /\ (m - 1) + 1 = m /\ ~(m <= m - 1)
  BY <1>2
<1>4. m - 1 \in P
  BY <1>1, <1>3
<1> QED
  BY <1>2, <1>3, <1>4

(* A loop of n rounds whose body maps X to X has a run: what makes a       *)
(* recursive function over 0..n well defined.                              *)
LEMMA Iteration ==
    ASSUME NEW X, NEW start \in X, NEW n \in Nat, NEW step \in [1..n -> [X -> X]]
    PROVE  \E g \in [0..n -> X] : /\ g[0] = start
                                  /\ \A k \in 1..n : g[k] = step[k][g[k - 1]]
<1> DEFINE Run(g, m) == g[0] = start /\ \A k \in 1..m : g[k] = step[k][g[k - 1]]
           Good == {m \in Nat : m <= n => \E g \in [0..m -> X] : Run(g, m)}
<1>1. 0 \in Good
  <2> DEFINE g == [k \in 0..0 |-> start]
  <2>1. g \in [0..0 -> X] /\ Run(g, 0)
    OBVIOUS
  <2> QED
    BY <2>1
<1>2. ASSUME NEW m \in Nat, m \in Good PROVE m + 1 \in Good
  <2> HIDE DEF Run
  <2> SUFFICES ASSUME m + 1 <= n PROVE \E g \in [0..m + 1 -> X] : Run(g, m + 1)
    OBVIOUS
  <2>1. PICK g \in [0..m -> X] : Run(g, m)
    BY <1>2
  <2> DEFINE h == [k \in 0..m + 1 |-> IF k = m + 1 THEN step[m + 1][g[m]] ELSE g[k]]
  <2>2. h \in [0..m + 1 -> X]
    <3>1. m + 1 \in 1..n /\ g[m] \in X
      OBVIOUS
    <3>2. step[m + 1][g[m]] \in X
      BY <3>1
    <3> QED
      BY <3>2
  <2>3. ASSUME NEW k \in 1..m + 1 PROVE h[k] = step[k][h[k - 1]]
    <3>1. CASE k = m + 1
      <4>1. h[k - 1] = g[m] /\ h[k] = step[m + 1][g[m]]
        BY <3>1
      <4> QED
        BY <3>1, <4>1
    <3>2. CASE k \in 1..m
      <4>1. h[k] = g[k] /\ h[k - 1] = g[k - 1]
        BY <3>2
      <4> QED
        BY <2>1, <3>2, <4>1 DEF Run
    <3> QED
      BY <3>1, <3>2
  <2>4. h[0] = start
    BY <2>1 DEF Run
  <2> HIDE DEF h
  <2>5. Run(h, m + 1)
    BY <2>3, <2>4 DEF Run
  <2> QED
    BY <2>2, <2>5
<1> HIDE DEF Good
<1>3. Nat \subseteq Good
  BY <1>1, <1>2, SetInduction
<1>4. n \in Good
  BY <1>3
<1> QED
  BY <1>4 DEF Good

(* What appending to a sequence does. *)
LEMMA AppendFacts ==
    ASSUME NEW T, NEW s \in Seq(T), NEW x \in T
    PROVE  /\ Append(s, x) \in Seq(T)
           /\ Len(Append(s, x)) = Len(s) + 1
           /\ DOMAIN Append(s, x) = 1..(Len(s) + 1)
           /\ \A i \in DOMAIN s : Append(s, x)[i] = s[i]
           /\ Append(s, x)[Len(s) + 1] = x
           /\ Append(s, x) # <<>>
OBVIOUS

(* What removing the front of a nonempty sequence does. *)
LEMMA TailFacts ==
    ASSUME NEW T, NEW s \in Seq(T), s # <<>>
    PROVE  /\ Tail(s) \in Seq(T)
           /\ Len(Tail(s)) = Len(s) - 1
           /\ DOMAIN Tail(s) = 1..(Len(s) - 1)
           /\ \A i \in DOMAIN Tail(s) : Tail(s)[i] = s[i + 1]
           /\ Head(s) = s[1]
           /\ Head(s) \in T
           /\ 1 \in DOMAIN s
OBVIOUS

(* What removing the back of a nonempty sequence does. *)
LEMMA FrontFacts ==
    ASSUME NEW T, NEW s \in Seq(T), s # <<>>
    PROVE  /\ Front(s) \in Seq(T)
           /\ DOMAIN Front(s) = 1..(Len(s) - 1)
           /\ \A i \in DOMAIN Front(s) : Front(s)[i] = s[i]
           /\ Last(s) = s[Len(s)]
           /\ Last(s) \in T
           /\ Len(s) \in DOMAIN s
           /\ DOMAIN s = 1..Len(s)
<1>1. Len(s) \in Nat \ {0}
  OBVIOUS
<1> QED
  BY <1>1 DEF Front, Last

(* What joining two sequences does. *)
LEMMA ConcatFacts ==
    ASSUME NEW T, NEW r \in Seq(T), NEW s \in Seq(T)
    PROVE  /\ r \o s \in Seq(T)
           /\ Len(r \o s) = Len(r) + Len(s)
           /\ DOMAIN (r \o s) = 1..(Len(r) + Len(s))
           /\ \A i \in 1..Len(r) : (r \o s)[i] = r[i]
           /\ \A i \in 1..Len(s) : (r \o s)[Len(r) + i] = s[i]
           /\ \A i \in (Len(r) + 1)..(Len(r) + Len(s)) :
                 /\ (r \o s)[i] = s[i - Len(r)]
                 /\ i - Len(r) \in 1..Len(s)
OBVIOUS

(* What inserting an element at position i does. *)
LEMMA InsertAtFacts ==
    ASSUME NEW T, NEW s \in Seq(T), NEW x \in T, NEW i \in 1..(Len(s) + 1)
    PROVE  /\ InsertAt(s, i, x) \in Seq(T)
           /\ DOMAIN InsertAt(s, i, x) = 1..(Len(s) + 1)
           /\ \A j \in 1..(i - 1) : InsertAt(s, i, x)[j] = s[j]
           /\ InsertAt(s, i, x)[i] = x
           /\ \A j \in (i + 1)..(Len(s) + 1) : InsertAt(s, i, x)[j] = s[j - 1]
           /\ InsertAt(s, i, x) # <<>>
<1> DEFINE a == SubSeq(s, 1, i - 1)
           b == SubSeq(s, i, Len(s))
<1>1. /\ a \in Seq(T) /\ Len(a) = i - 1
      /\ \A j \in 1..(i - 1) : a[j] = s[j]
  OBVIOUS
<1>2. /\ b \in Seq(T) /\ Len(b) = Len(s) - i + 1
      /\ \A j \in 1..(Len(s) - i + 1) : b[j] = s[i + j - 1]
  OBVIOUS
<1>3. InsertAt(s, i, x) = (a \o <<x>>) \o b
  BY DEF InsertAt
<1> HIDE DEF a, b
<1>4. /\ a \o <<x>> \in Seq(T) /\ Len(a \o <<x>>) = i
      /\ \A j \in 1..(i - 1) : (a \o <<x>>)[j] = s[j]
      /\ (a \o <<x>>)[i] = x
  BY <1>1
<1> DEFINE ax == a \o <<x>>
<1> HIDE DEF ax
<1>5. /\ ax \o b \in Seq(T) /\ Len(ax \o b) = Len(s) + 1
      /\ \A j \in 1..i : (ax \o b)[j] = ax[j]
      /\ \A j \in (i + 1)..(Len(s) + 1) : (ax \o b)[j] = b[j - i]
  BY <1>2, <1>4 DEF ax
<1>6. \A j \in (i + 1)..(Len(s) + 1) : b[j - i] = s[j - 1]
  <2> SUFFICES ASSUME NEW j \in (i + 1)..(Len(s) + 1)
               PROVE  b[j - i] = s[j - 1]
    OBVIOUS
  <2>1. j - i \in 1..(Len(s) - i + 1) /\ i + (j - i) - 1 = j - 1
    OBVIOUS
  <2> QED
    BY <1>2, <2>1
<1> QED
  BY <1>3, <1>4, <1>5, <1>6 DEF ax

(* Appending a new element to a sequence without repetition. *)
LEMMA AppendDistinct ==
    ASSUME NEW T, NEW s \in Seq(T), NEW x \in T
    PROVE  /\ ToSet(Append(s, x)) = ToSet(s) \cup {x}
           /\ IsInjective(s) /\ x \notin ToSet(s) => IsInjective(Append(s, x))
<1>1. DOMAIN s = 1..Len(s) /\ Len(s) \in Nat
  OBVIOUS
<1>2. /\ DOMAIN Append(s, x) = DOMAIN s \cup {Len(s) + 1}
      /\ \A i \in DOMAIN s : Append(s, x)[i] = s[i]
      /\ Append(s, x)[Len(s) + 1] = x
  BY <1>1, AppendFacts
<1> HIDE <1>1
<1>3. ToSet(Append(s, x)) = ToSet(s) \cup {x}
  BY <1>2 DEF ToSet
<1> QED
  BY <1>2, <1>3 DEF ToSet, IsInjective

(* The rest of a sequence without repetition, and its head. *)
LEMMA TailDistinct ==
    ASSUME NEW T, NEW s \in Seq(T), s # <<>>, IsInjective(s)
    PROVE  /\ IsInjective(Tail(s))
           /\ \A i \in DOMAIN Tail(s) :
                 i + 1 \in DOMAIN s /\ Tail(s)[i] = s[i + 1] /\ Tail(s)[i] # Head(s)
<1>1. DOMAIN s = 1..Len(s) /\ Len(s) \in Nat /\ 1 \in DOMAIN s /\ Head(s) = s[1]
  BY TailFacts
<1>2. /\ DOMAIN Tail(s) = 1..(Len(s) - 1)
      /\ \A i \in DOMAIN Tail(s) : Tail(s)[i] = s[i + 1]
  BY TailFacts
<1>3. \A i \in DOMAIN Tail(s) : i \in Nat \ {0} /\ i + 1 \in DOMAIN s /\ i + 1 # 1
  BY <1>1, <1>2
<1>4. \A i \in DOMAIN Tail(s) : Tail(s)[i] # Head(s)
  BY <1>1, <1>2, <1>3 DEF IsInjective
<1>5. \A i, j \in DOMAIN Tail(s) : Tail(s)[i] = Tail(s)[j] => i + 1 = j + 1
  BY <1>2, <1>3 DEF IsInjective
<1>6. IsInjective(Tail(s))
  BY <1>3, <1>5 DEF IsInjective
<1> QED
  BY <1>2, <1>3, <1>4, <1>6

(* Removing the last element of a sequence without repetition. *)
LEMMA FrontDistinct ==
    ASSUME NEW T, NEW s \in Seq(T), s # <<>>, IsInjective(s)
    PROVE  /\ ToSet(Front(s)) = ToSet(s) \ {Last(s)}
           /\ Last(s) \in ToSet(s)
           /\ IsInjective(Front(s))
<1>0. /\ Len(s) \in DOMAIN s /\ DOMAIN s = 1..Len(s)
      /\ Last(s) = s[Len(s)]
      /\ DOMAIN Front(s) = 1..(Len(s) - 1)
      /\ \A i \in DOMAIN Front(s) : Front(s)[i] = s[i]
  BY FrontFacts
<1>1. Len(s) \in Nat
  OBVIOUS
<1>2. /\ DOMAIN Front(s) = DOMAIN s \ {Len(s)}
      /\ \A i \in DOMAIN Front(s) : Front(s)[i] = s[i]
  BY <1>0, <1>1
<1>3. ToSet(Front(s)) = ToSet(s) \ {Last(s)} /\ Last(s) \in ToSet(s)
  BY <1>0, <1>2 DEF ToSet, IsInjective
<1> QED
  BY <1>2, <1>3 DEF IsInjective

(* Joining two sequences without repetition that share no element. *)
LEMMA ConcatDistinct ==
    ASSUME NEW T, NEW r \in Seq(T), NEW s \in Seq(T)
    PROVE  /\ ToSet(r \o s) = ToSet(r) \cup ToSet(s)
           /\ IsInjective(r) /\ IsInjective(s) /\ ToSet(r) \cap ToSet(s) = {}
                 => IsInjective(r \o s)
<1>1. /\ Len(r) \in Nat /\ DOMAIN r = 1..Len(r)
      /\ Len(s) \in Nat /\ DOMAIN s = 1..Len(s)
  OBVIOUS
<1>2. /\ DOMAIN (r \o s) = 1..(Len(r) + Len(s))
      /\ \A i \in DOMAIN r : (r \o s)[i] = r[i]
      /\ \A i \in DOMAIN s : (r \o s)[Len(r) + i] = s[i]
      /\ \A i \in DOMAIN (r \o s) :
            i \notin DOMAIN r => /\ i - Len(r) \in DOMAIN s
                                /\ (r \o s)[i] = s[i - Len(r)]
  BY <1>1, ConcatFacts
<1>3. ToSet(r \o s) \subseteq ToSet(r) \cup ToSet(s)
  BY <1>2 DEF ToSet
<1>4. ToSet(r) \subseteq ToSet(r \o s)
  BY <1>1, <1>2 DEF ToSet
<1>5. ToSet(s) \subseteq ToSet(r \o s)
  <2> SUFFICES ASSUME NEW i \in DOMAIN s PROVE s[i] \in ToSet(r \o s)
    BY DEF ToSet
  <2>1. Len(r) + i \in DOMAIN (r \o s) /\ (r \o s)[Len(r) + i] = s[i]
    BY <1>1, <1>2
  <2> QED
    BY <2>1, Zenon DEF ToSet
<1>6. ASSUME IsInjective(r), IsInjective(s), ToSet(r) \cap ToSet(s) = {},
             NEW i \in DOMAIN (r \o s), NEW j \in DOMAIN (r \o s),
             (r \o s)[i] = (r \o s)[j]
      PROVE  i = j
  <2>1. i \in Int /\ j \in Int
    BY <1>1, <1>2
  <2>2. CASE i \in DOMAIN r /\ j \in DOMAIN r
    BY <1>2, <1>6, <2>2 DEF IsInjective
  <2>6. /\ \A k \in DOMAIN r : r[k] \in ToSet(r)
        /\ \A k \in DOMAIN s : s[k] \in ToSet(s)
    BY DEF ToSet
  <2>3. CASE i \in DOMAIN r /\ j \notin DOMAIN r
    BY <1>2, <1>6, <2>3, <2>6
  <2>4. CASE i \notin DOMAIN r /\ j \in DOMAIN r
    BY <1>2, <1>6, <2>4, <2>6
  <2>5. CASE i \notin DOMAIN r /\ j \notin DOMAIN r
    <3>1. i - Len(r) = j - Len(r)
      BY <1>2, <1>6, <2>5 DEF IsInjective
    <3> QED
      BY <1>1, <2>1, <3>1
  <2> QED
    BY <2>2, <2>3, <2>4, <2>5
<1>7. IsInjective(r) /\ IsInjective(s) /\ ToSet(r) \cap ToSet(s) = {}
        => IsInjective(r \o s)
  BY <1>6 DEF IsInjective
<1> QED
  BY <1>3, <1>4, <1>5, <1>7

(* Changing the last element of a concatenation. *)
LEMMA ConcatExcept ==
    ASSUME NEW U, NEW p \in Seq(U), NEW q \in Seq(U), NEW x \in U, q # <<>>
    PROVE  [p \o q EXCEPT ![Len(p) + Len(q)] = x] = p \o [q EXCEPT ![Len(q)] = x]
<1> DEFINE m == Len(p)
           n == Len(q)
           pq == p \o q
           l == [pq EXCEPT ![m + n] = x]
           t == [q EXCEPT ![n] = x]
           r == p \o t
<1>1. n \in Nat \ {0} /\ m \in Nat
  OBVIOUS
<1>2. /\ pq \in Seq(U) /\ Len(pq) = m + n
      /\ \A i \in 1..m + n : pq[i] = IF i <= m THEN p[i] ELSE q[i - m]
  BY ConcatProperties
<1>3. n \in 1..n /\ m + n \in 1..m + n
  BY <1>1
<1>4. /\ t \in Seq(U) /\ Len(t) = n
      /\ \A i \in 1..n : t[i] = IF i = n THEN x ELSE q[i]
  BY <1>3, ExceptSeq
<1> HIDE DEF pq, m, n, t
<1>5. /\ l \in Seq(U) /\ Len(l) = m + n
      /\ \A i \in 1..m + n : l[i] = IF i = m + n THEN x ELSE pq[i]
  BY <1>2, <1>3, ExceptSeq
<1>6. /\ r \in Seq(U) /\ Len(r) = m + n
      /\ \A i \in 1..m + n : r[i] = IF i <= m THEN p[i] ELSE t[i - m]
  <2>1. Len(p) + Len(t) = m + n /\ Len(p) = m
    BY <1>4 DEF m
  <2> QED
    BY <1>4, <2>1, ConcatProperties
<1> HIDE DEF l, r
<1>7. ASSUME NEW i \in 1..m + n PROVE l[i] = r[i]
  <2>1. CASE i <= m
    <3>1. i # m + n
      BY <1>1, <2>1
    <3> QED
      BY <1>2, <1>5, <1>6, <2>1, <3>1
  <2>2. CASE ~(i <= m)
    <3>1. i - m \in 1..n /\ (i - m = n <=> i = m + n)
      BY <1>1, <2>2
    <3>2. r[i] = IF i = m + n THEN x ELSE q[i - m]
      BY <1>4, <1>6, <2>2, <3>1
    <3> QED
      BY <1>2, <1>5, <2>2, <3>2
  <2> QED
    BY <2>1, <2>2
<1>8. l = r
  BY <1>5, <1>6, <1>7, SeqEqual
<1> QED
  BY <1>8 DEF l, r, t, pq, m, n

(* Concatenation is associative. *)
LEMMA Associative ==
    ASSUME NEW T, NEW a \in Seq(T), NEW b \in Seq(T), NEW c \in Seq(T)
    PROVE  a \o (b \o c) = a \o b \o c
<1> DEFINE x == a \o b
           y == b \o c
           k == Len(a)
           m == Len(b)
           n == Len(c)
<1>1. k \in Nat /\ m \in Nat /\ n \in Nat
  OBVIOUS
<1>2. x \in Seq(T) /\ Len(x) = k + m /\ \A i \in 1..k + m : x[i] = IF i <= k THEN a[i] ELSE b[i - k]
  BY ConcatProperties
<1>3. y \in Seq(T) /\ Len(y) = m + n /\ \A i \in 1..m + n : y[i] = IF i <= m THEN b[i] ELSE c[i - m]
  BY ConcatProperties
<1> HIDE DEF x, y
<1> DEFINE l == a \o y
           r == x \o c
<1>4. l \in Seq(T) /\ Len(l) = k + (m + n) /\ \A i \in 1..k + (m + n) : l[i] = IF i <= k THEN a[i] ELSE y[i - k]
  <2>1. y \in Seq(T) /\ Len(y) = m + n
    BY <1>3
  <2> HIDE DEF m, n
  <2>2. /\ l \in Seq(T) /\ Len(l) = Len(a) + Len(y)
        /\ \A i \in 1..Len(a) + Len(y) : l[i] = IF i <= Len(a) THEN a[i] ELSE y[i - Len(a)]
    BY <2>1, ConcatProperties, Zenon
  <2> QED
    BY <2>1, <2>2, Zenon
<1>5. l \in Seq(T) /\ r \in Seq(T) /\ Len(r) = (k + m) + n
      /\ \A i \in 1..(k + m) + n : r[i] = IF i <= k + m THEN x[i] ELSE c[i - (k + m)]
  <2>1. x \in Seq(T) /\ Len(x) = k + m
    BY <1>2
  <2> HIDE DEF k, m
  <2>2. /\ r \in Seq(T) /\ Len(r) = Len(x) + Len(c)
        /\ \A i \in 1..Len(x) + Len(c) : r[i] = IF i <= Len(x) THEN x[i] ELSE c[i - Len(x)]
    BY <2>1, ConcatProperties, Zenon
  <2> QED
    BY <1>4, <2>1, <2>2, Zenon
<1> HIDE DEF k, m, n, l, r
<1>6. (k + m) + n = k + (m + n)
  BY <1>1
<1>7. ASSUME NEW i \in 1..k + m + n PROVE l[i] = r[i]
  <2>1. l[i] = IF i <= k THEN a[i] ELSE y[i - k]
    BY <1>4, <1>6
  <2>2. r[i] = IF i <= k + m THEN x[i] ELSE c[i - (k + m)]
    BY <1>5
  <2>3. CASE i <= k
    BY <1>1, <1>2, <2>1, <2>2, <2>3
  <2>4. CASE i > k /\ i <= k + m
    <3> DEFINE j == i - k
    <3>1. j \in 1..m + n /\ j <= m /\ ~(i <= k) /\ i \in 1..k + m
      BY <1>1, <2>4
    <3>2. x[i] = b[j]
      BY <1>2, <2>4, <3>1
    <3> HIDE DEF j
    <3>3. y[j] = b[j]
      BY <1>3, <3>1
    <3> QED
      BY <2>1, <2>2, <2>4, <3>1, <3>2, <3>3 DEF j
  <2>5. CASE i > k + m
    <3>1. i - k \in 1..m + n /\ ~(i - k <= m) /\ (i - k) - m = i - (k + m) /\ ~(i <= k) /\ ~(i <= k + m)
      BY <1>1, <2>5
    <3> DEFINE j == i - k
    <3> HIDE DEF j
    <3>2. j \in 1..m + n /\ ~(j <= m) /\ j - m = i - (k + m)
      BY <3>1 DEF j
    <3>3. y[j] = c[j - m]
      BY <1>3, <3>2
    <3> QED
      BY <2>1, <2>2, <3>1, <3>2, <3>3 DEF j
  <2> QED
    BY <1>1, <2>3, <2>4, <2>5
<1>8. l = r
  BY <1>4, <1>5, <1>6, <1>7, SeqEqual
<1> QED
  BY <1>8 DEF l, r, x, y
=============================================================================
