----------------------------- MODULE StreamLemmas -----------------------------
(***************************************************************************)
(* What the proofs about the readers share: induction over the natural     *)
(* numbers, and what each method of Buffer does to the cursors and to the  *)
(* unread bytes.                                                           *)
(***************************************************************************)
EXTENDS BufferOps, ZstdOps, SequencesExt, SequenceTheorems, WellFoundedInduction, TLAPS

\* A non-empty set of natural numbers has a least element.
LEMMA NatMin ==
  ASSUME NEW T \in SUBSET Nat, T # {}
  PROVE  \E x \in T : \A y \in T : x <= y
<1> DEFINE R == {ss \in Nat \X Nat : ss[1] < ss[2]}
<1>1. IsWellFoundedOn(R, Nat)
  BY NatLessThanWellFounded DEF OpToRel
<1>2. \A a, b \in Nat : a < b => <<a, b>> \in R
  OBVIOUS
<1> HIDE DEF R
<1>3. PICK x \in T : \A y \in T : ~ (<<y, x>> \in R)
  BY <1>1, WFMin
<1>4. \A y \in T : ~(y < x)
  BY <1>2, <1>3
<1> QED
  BY <1>4

\* Induction over the natural numbers, for a set instead of a predicate.
LEMMA SetInduction ==
  ASSUME NEW S \in SUBSET Nat, 0 \in S, \A n \in S : n + 1 \in S
  PROVE  S = Nat
<1> SUFFICES ASSUME S # Nat PROVE FALSE
  OBVIOUS
<1>1. PICK x \in Nat \ S : \A y \in Nat \ S : x <= y
  BY NatMin
<1>2. x # 0 /\ x - 1 \in Nat
  BY <1>1
<1>3. x - 1 \in S
  BY <1>1, <1>2
<1> QED
  BY <1>1, <1>2, <1>3

-----------------------------------------------------------------------------
(* Sequences in parts.                                                     *)

\* What a concatenation holds.
LEMMA ConcatParts ==
  ASSUME NEW S, NEW x \in Seq(S), NEW y \in Seq(S)
  PROVE  /\ x \o y \in Seq(S) /\ Len(x \o y) = Len(x) + Len(y)
         /\ \A i \in 1..Len(x) : (x \o y)[i] = x[i]
         /\ \A i \in 1..Len(y) : (x \o y)[Len(x) + i] = y[i]
OBVIOUS

\* To drop from a concatenation, drop from its first part.
LEMMA DropConcat ==
  ASSUME NEW S, NEW s \in Seq(S), NEW t \in Seq(S), NEW n \in 0..Len(s)
  PROVE  SubSeq(s \o t, n + 1, Len(s \o t)) = SubSeq(s, n + 1, Len(s)) \o t
<1> DEFINE a == SubSeq(s, n + 1, Len(s))
           c == s \o t
           l == SubSeq(c, n + 1, Len(c))
           r == a \o t
<1>1. Len(s) \in Nat /\ Len(t) \in Nat /\ n \in Nat /\ n <= Len(s)
  OBVIOUS
<1>2. /\ c \in Seq(S) /\ Len(c) = Len(s) + Len(t)
      /\ \A i \in 1..Len(s) : c[i] = s[i]
      /\ \A i \in 1..Len(t) : c[Len(s) + i] = t[i]
  OBVIOUS
<1>3. a \in Seq(S) /\ Len(a) = Len(s) - n /\ \A i \in 1..(Len(s) - n) : a[i] = s[n + i]
  OBVIOUS
<1> HIDE DEF a, c
<1>4. l \in Seq(S) /\ Len(l) = Len(c) - n /\ \A i \in 1..(Len(c) - n) : l[i] = c[n + i]
  BY <1>1, <1>2
<1>5. /\ r \in Seq(S) /\ Len(r) = Len(a) + Len(t)
      /\ \A i \in 1..Len(a) : r[i] = a[i]
      /\ \A i \in 1..Len(t) : r[Len(a) + i] = t[i]
  <2>1. a \in Seq(S) /\ t \in Seq(S)
    BY <1>3
  <2> QED
    BY <2>1, ConcatParts
<1> HIDE DEF l, r
<1>6. Len(l) = Len(r)
  BY <1>1, <1>2, <1>3, <1>4, <1>5
<1>7. ASSUME NEW i \in 1..Len(l) PROVE l[i] = r[i]
  <2>1. l[i] = c[n + i]
    BY <1>4
  <2>2. CASE i <= Len(s) - n
    <3>1. i \in 1..Len(a) /\ i \in 1..(Len(s) - n) /\ n + i \in 1..Len(s)
      BY <1>1, <1>2, <1>3, <1>4, <2>2
    <3> QED
      BY <1>2, <1>3, <1>5, <2>1, <3>1
  <2>3. CASE ~(i <= Len(s) - n)
    <3> DEFINE j == i - (Len(s) - n)
    <3>1. j \in 1..Len(t) /\ Len(s) + j = n + i /\ Len(a) + j = i
      BY <1>1, <1>2, <1>3, <1>4, <2>3
    <3> HIDE DEF j
    <3> QED
      BY <1>2, <1>5, <2>1, <3>1
  <2> QED
    BY <2>2, <2>3
<1>8. l = r
  BY <1>4, <1>5, <1>6, <1>7, SeqEqual
<1> QED
  BY <1>8 DEF a, c, l, r

\* The parts of a sequence.
LEMMA TakeDrop ==
  ASSUME NEW S, NEW w \in Seq(S), NEW n \in 0..Len(w)
  PROVE  /\ SubSeq(w, 1, n) \in Seq(S) /\ Len(SubSeq(w, 1, n)) = n
         /\ \A i \in 1..n : SubSeq(w, 1, n)[i] = w[i]
         /\ SubSeq(w, n + 1, Len(w)) \in Seq(S) /\ Len(SubSeq(w, n + 1, Len(w))) = Len(w) - n
         /\ \A i \in 1..(Len(w) - n) : SubSeq(w, n + 1, Len(w))[i] = w[n + i]
OBVIOUS

\* Put together again, they make the sequence.
LEMMA Rejoined ==
  ASSUME NEW S, NEW w \in Seq(S), NEW n \in 0..Len(w)
  PROVE  SubSeq(w, 1, n) \o SubSeq(w, n + 1, Len(w)) = w
<1> DEFINE a == SubSeq(w, 1, n)
           b == SubSeq(w, n + 1, Len(w))
           ab == a \o b
<1>0. /\ a \in Seq(S) /\ Len(a) = n /\ \A i \in 1..n : a[i] = w[i]
      /\ b \in Seq(S) /\ Len(b) = Len(w) - n /\ \A i \in 1..(Len(w) - n) : b[i] = w[n + i]
  BY TakeDrop
<1> HIDE DEF a, b
<1>1. Len(w) \in Nat /\ n \in Nat /\ n <= Len(w)
  OBVIOUS
<1>2. /\ ab \in Seq(S) /\ Len(ab) = Len(a) + Len(b)
      /\ \A i \in 1..Len(a) : ab[i] = a[i]
      /\ \A i \in 1..Len(b) : ab[Len(a) + i] = b[i]
  <2> HIDE DEF ab
  <2>1. \A x, y \in Seq(S) : /\ x \o y \in Seq(S) /\ Len(x \o y) = Len(x) + Len(y)
                             /\ \A i \in 1..Len(x) : (x \o y)[i] = x[i]
                             /\ \A i \in 1..Len(y) : (x \o y)[Len(x) + i] = y[i]
    BY ConcatParts, SMTT(30)
  <2>2. ab = a \o b
    BY DEF ab
  <2> QED
    BY <1>0, <2>1, <2>2, ZenonT(60)
<1> HIDE DEF ab
<1>3. Len(ab) = Len(w)
  BY <1>0, <1>1, <1>2
<1>4. ASSUME NEW i \in 1..Len(w) PROVE ab[i] = w[i]
  <2>1. CASE i <= n
    BY <1>0, <1>1, <1>2, <2>1
  <2>2. CASE ~(i <= n)
    <3> DEFINE j == i - n
    <3>1. j \in 1..Len(b) /\ j \in 1..(Len(w) - n) /\ Len(a) + j = i /\ n + j = i
      BY <1>0, <1>1, <2>2
    <3> HIDE DEF j
    <3>2. ab[Len(a) + j] = b[j]
      BY <1>2, <3>1, Zenon
    <3>3. b[j] = w[n + j]
      BY <1>0, <3>1, Zenon
    <3> QED
      BY <3>1, <3>2, <3>3, Zenon
  <2> QED
    BY <2>1, <2>2
<1>5. ab = w
  BY <1>2, <1>3, <1>4, SeqEqual
<1> QED
  BY <1>5 DEF a, b, ab
-----------------------------------------------------------------------------
(* Recursive functions over a sequence.                                    *)

\* f computes its value at k from its value at k - 1.
Recurs(f, T, n, init, step) ==
  f \in [0..n -> T] /\ f[0] = init /\ \A k \in 1..n : f[k] = step[k][f[k - 1]]

\* There is such a function.
LEMMA RecursionExists ==
  ASSUME NEW T, NEW n \in Nat, NEW init \in T, NEW step \in [1..n -> [T -> T]]
  PROVE  \E f : Recurs(f, T, n, init, step)
<1> DEFINE Fcn(m, f) == /\ f \in [0..m -> T] /\ f[0] = init
                        /\ \A k \in 1..m : f[k] = step[k][f[k - 1]]
           S == {m \in Nat : m <= n => \E f : Fcn(m, f)}
<1>1. 0 \in S
  <2> DEFINE g == [k \in 0..0 |-> init]
  <2>1. Fcn(0, g)
    OBVIOUS
  <2> QED
    BY <2>1
<1>2. ASSUME NEW m \in S PROVE m + 1 \in S
  <2> HIDE DEF Fcn
  <2>0. m \in Nat /\ m + 1 \in Nat
    BY <1>2
  <2> SUFFICES ASSUME m + 1 <= n PROVE \E f : Fcn(m + 1, f)
    BY <2>0, Zenon
  <2>1. m \in Nat /\ m <= n
    BY <2>0
  <2>2. PICK f : Fcn(m, f)
    BY <1>2, <2>1
  <2> USE DEF Fcn
  <2> DEFINE g == [k \in 0..(m + 1) |-> IF k = m + 1 THEN step[m + 1][f[m]] ELSE f[k]]
  <2>3. f \in [0..m -> T] /\ f[m] \in T
    BY <2>1, <2>2
  <2>4. step[m + 1][f[m]] \in T
    BY <2>1, <2>3
  <2>5. g \in [0..(m + 1) -> T] /\ g[0] = init
    BY <2>1, <2>2, <2>3, <2>4
  <2>6. ASSUME NEW k \in 1..(m + 1) PROVE g[k] = step[k][g[k - 1]]
    <3>1. CASE k = m + 1
      <4>1. k - 1 = m /\ m \in 0..(m + 1) /\ m # m + 1 /\ k \in 0..(m + 1)
        BY <2>1, <3>1
      <4>2. g[k - 1] = f[m] /\ g[k] = step[m + 1][f[m]]
        BY <3>1, <4>1
      <4> QED
        BY <3>1, <4>2
    <3>2. CASE k # m + 1
      <4>1. k \in 1..m /\ k - 1 \in 0..(m + 1) /\ k - 1 # m + 1 /\ k \in 0..(m + 1)
        BY <2>1, <3>2
      <4>2. g[k - 1] = f[k - 1] /\ g[k] = f[k]
        BY <3>2, <4>1
      <4> QED
        BY <2>2, <4>1, <4>2
    <3> QED
      BY <3>1, <3>2
  <2>7. Fcn(m + 1, g)
    BY <2>5, <2>6
  <2> QED
    BY <2>7
<1>3. S = Nat
  BY <1>1, <1>2, SetInduction
<1>4. \E f : Fcn(n, f)
  BY <1>3
<1> QED
  BY <1>4 DEF Recurs

\* f holds the concatenations of the first k of seqs.
Concatenates(f, seqs) == f[0] = << >> /\ \A k \in 1..Len(seqs) : f[k] = f[k - 1] \o seqs[k]

\* FlattenSeq concatenates them all.
LEMMA Flattening ==
  ASSUME NEW B, NEW seqs \in Seq(Seq(B))
  PROVE  \E f \in [0..Len(seqs) -> Seq(B)] :
           Concatenates(f, seqs) /\ FlattenSeq(seqs) = f[Len(seqs)]
<1> DEFINE n == Len(seqs)
           step == [k \in 1..n |-> [s \in Seq(B) |-> s \o seqs[k]]]
<1>1. n \in Nat /\ \A k \in 1..n : seqs[k] \in Seq(B)
  BY ElementOfSeq
<1>2. << >> \in Seq(B) /\ step \in [1..n -> [Seq(B) -> Seq(B)]]
  BY <1>1, EmptySeq, ConcatParts
<1>3. PICK f \in [0..n -> Seq(B)] : f[0] = << >> /\ \A k \in 1..n : f[k] = step[k][f[k - 1]]
  <2>1. \E f : Recurs(f, Seq(B), n, << >>, step)
    BY <1>1, <1>2, RecursionExists
  <2> QED
    BY <2>1 DEF Recurs
<1>4. Concatenates(f, seqs)
  <2>1. ASSUME NEW k \in 1..n PROVE f[k] = f[k - 1] \o seqs[k]
    <3>1. k - 1 \in 0..n
      BY <1>1
    <3>2. f[k - 1] \in Seq(B)
      BY <3>1
    <3> QED
      BY <1>3, <3>2
  <2> QED
    BY <1>3, <2>1 DEF Concatenates
<1>5. FlattenSeq(seqs) = f[n]
  <2>1. CASE n = 0
    BY <1>3, <2>1, EmptySeq DEF FlattenSeq
  <2>2. CASE n # 0
    <3> DEFINE Is(g) == g = [i \in 1..n |-> IF i = 1 THEN seqs[i] ELSE g[i - 1] \o seqs[i]]
               flatten == CHOOSE g : Is(g)
               g0 == [i \in 1..n |-> f[i]]
    <3>1. Is(g0)
      <4> SUFFICES ASSUME NEW i \in 1..n
                   PROVE  g0[i] = IF i = 1 THEN seqs[i] ELSE g0[i - 1] \o seqs[i]
        BY Zenon
      <4>1. f[i] = f[i - 1] \o seqs[i]
        BY <1>4 DEF Concatenates
      <4>2. CASE i = 1
        <5>1. << >> \o seqs[i] = seqs[i]
          BY <1>1
        <5>2. i - 1 = 0 /\ f[0] = << >>
          BY <1>3, <4>2
        <5>3. f[i] = seqs[i]
          BY <4>1, <5>1, <5>2
        <5> QED
          BY <4>2, <5>3
      <4>3. CASE i # 1
        <5>1. i - 1 \in 1..n
          BY <1>1, <4>3
        <5> QED
          BY <4>1, <4>3, <5>1
      <4> QED
        BY <4>2, <4>3
    <3>2. Is(flatten)
      BY <3>1, Zenon
    <3>3. FlattenSeq(seqs) = flatten[n]
      BY <2>2, Zenon DEF FlattenSeq
    <3> HIDE DEF flatten
    <3> DEFINE S == {k \in Nat : k + 1 <= n => flatten[k + 1] = f[k + 1]}
    <3>4. \A i \in 1..n : flatten[i] = IF i = 1 THEN seqs[i] ELSE flatten[i - 1] \o seqs[i]
      BY <3>2, Zenon
    <3>5. 0 \in S
      <4>1. 1 <= n => 1 \in 1..n
        BY <1>1
      <4>2. 1 <= n => f[1] = << >> \o seqs[1] /\ << >> \o seqs[1] = seqs[1]
        <5>1. 1 <= n => f[1] = f[1 - 1] \o seqs[1]
          BY <1>4, <4>1 DEF Concatenates
        <5>2. 1 <= n => << >> \o seqs[1] = seqs[1]
          BY <1>1, <4>1
        <5>3. 1 - 1 = 0 /\ f[0] = << >>
          BY <1>3
        <5> QED
          BY <5>1, <5>2, <5>3
      <4> QED
        BY <3>4, <4>1, <4>2
    <3>6. ASSUME NEW k \in S PROVE k + 1 \in S
      <4> SUFFICES ASSUME (k + 1) + 1 <= n PROVE flatten[(k + 1) + 1] = f[(k + 1) + 1]
        BY <3>6
      <4>1. k \in Nat /\ (k + 1) + 1 \in 1..n /\ (k + 1) + 1 # 1 /\ ((k + 1) + 1) - 1 = k + 1
            /\ k + 1 <= n
        BY <1>1, <3>6
      <4>2. flatten[k + 1] = f[k + 1]
        BY <3>6, <4>1
      <4>3. flatten[(k + 1) + 1] = flatten[k + 1] \o seqs[(k + 1) + 1]
        BY <3>4, <4>1
      <4>4. f[(k + 1) + 1] = f[k + 1] \o seqs[(k + 1) + 1]
        BY <1>4, <4>1 DEF Concatenates
      <4> QED
        BY <4>2, <4>3, <4>4
    <3>7. S = Nat
      BY <3>5, <3>6, SetInduction
    <3>8. n - 1 \in Nat /\ (n - 1) + 1 = n
      BY <1>1, <2>2
    <3>9. n - 1 \in S
      BY <3>7, <3>8
    <3> QED
      BY <3>3, <3>8, <3>9
  <2> QED
    BY <2>1, <2>2
<1> QED
  BY <1>4, <1>5

\* s and t begin with the same m members.
BeginAlike(s, t, m) ==
  Len(s) \in Nat /\ Len(t) \in Nat /\ m <= Len(s) /\ m <= Len(t) /\ \A k \in 1..m : s[k] = t[k]

\* Sequences that begin alike are concatenated alike.
LEMMA SameConcatenation ==
  ASSUME NEW s, NEW t, NEW f, Concatenates(f, s), NEW g, Concatenates(g, t),
         NEW m \in Nat, BeginAlike(s, t, m)
  PROVE  f[m] = g[m]
<1> DEFINE S == {k \in Nat : k <= m => f[k] = g[k]}
<1>1. 0 \in S
  BY DEF Concatenates
<1>2. ASSUME NEW k \in S PROVE k + 1 \in S
  <2> SUFFICES ASSUME k + 1 <= m PROVE f[k + 1] = g[k + 1]
    BY <1>2
  <2>1. /\ k \in Nat /\ k <= m /\ k + 1 \in 1..m /\ k + 1 \in 1..Len(s) /\ k + 1 \in 1..Len(t)
        /\ (k + 1) - 1 = k /\ s[k + 1] = t[k + 1]
    BY <1>2 DEF BeginAlike
  <2>2. f[k] = g[k]
    BY <1>2, <2>1
  <2>3. f[k + 1] = f[k] \o s[k + 1] /\ g[k + 1] = g[k] \o t[k + 1]
    BY <2>1 DEF Concatenates
  <2> QED
    BY <2>1, <2>2, <2>3
<1>3. S = Nat
  BY <1>1, <1>2, SetInduction
<1> QED
  BY <1>3

\* FlattenSeq, for the parts of a sequence of sequences.
LEMMA FlattenParts ==
  ASSUME NEW B, NEW a \in Seq(Seq(B)), NEW b \in Seq(Seq(B))
  PROVE  FlattenSeq(a) \in Seq(B) /\ FlattenSeq(a \o b) = FlattenSeq(a) \o FlattenSeq(b)
<1> DEFINE n == Len(a)
           c == a \o b
<1>0. \A x, y, z \in Seq(B) : (x \o y) \o z = x \o (y \o z)
  BY ConcatAssociative, SMTT(30)
<1>1. /\ n \in Nat /\ Len(b) \in Nat /\ c \in Seq(Seq(B)) /\ Len(c) = n + Len(b)
      /\ \A i \in 1..n : c[i] = a[i]
      /\ \A i \in 1..Len(b) : c[n + i] = b[i] /\ b[i] \in Seq(B)
  BY ElementOfSeq, ConcatParts
<1> HIDE DEF n, c
<1>a. \A p, q : Concatenates(p, c) /\ Concatenates(q, a) => p[n] = q[n]
  <2>1. n \in Nat /\ BeginAlike(c, a, n)
    BY <1>1 DEF n, BeginAlike
  <2> QED
    BY <2>1, SameConcatenation
<1>2. PICK f \in [0..n -> Seq(B)] : Concatenates(f, a) /\ FlattenSeq(a) = f[n]
  BY Flattening DEF n
<1>3. PICK g \in [0..Len(b) -> Seq(B)] : Concatenates(g, b) /\ FlattenSeq(b) = g[Len(b)]
  BY Flattening
<1>4. PICK h \in [0..Len(c) -> Seq(B)] : Concatenates(h, c) /\ FlattenSeq(c) = h[Len(c)]
  BY <1>1, Flattening
<1>5. f[n] \in Seq(B)
  BY <1>1
<1> DEFINE P(k) == h[n + k] = f[n] \o g[k]
           S == {k \in Nat : k <= Len(b) => P(k)}
<1>6. P(0)
  <2>1. h[n] = f[n]
    BY <1>2, <1>4, <1>a
  <2>2. n + 0 = n
    BY <1>1
  <2>3. g[0] = << >> /\ f[n] \o << >> = f[n]
    BY <1>3, <1>5 DEF Concatenates
  <2> QED
    BY <2>1, <2>2, <2>3
<1>7. ASSUME NEW k \in Nat, k + 1 <= Len(b), P(k) PROVE P(k + 1)
  <2>1. /\ k + 1 \in 1..Len(b) /\ (k + 1) - 1 = k /\ k \in 0..Len(b)
        /\ n + (k + 1) \in 1..Len(c) /\ (n + (k + 1)) - 1 = n + k
    BY <1>1, <1>7
  <2>2. h[n + k] = f[n] \o g[k]
    BY <1>7
  <2>3. h[n + (k + 1)] = h[n + k] \o b[k + 1]
    <3>1. h[n + (k + 1)] = h[n + k] \o c[n + (k + 1)]
      BY <1>4, <2>1 DEF Concatenates
    <3> QED
      BY <1>1, <2>1, <3>1
  <2>4. g[k + 1] = g[k] \o b[k + 1]
    BY <1>3, <2>1 DEF Concatenates
  <2>5. (f[n] \o g[k]) \o b[k + 1] = f[n] \o (g[k] \o b[k + 1])
    <3>1. g[k] \in Seq(B) /\ b[k + 1] \in Seq(B)
      BY <1>1, <2>1
    <3> QED
      BY <1>0, <1>5, <3>1, Zenon
  <2> QED
    BY <2>2, <2>3, <2>4, <2>5
<1> HIDE DEF P
<1>8. S = Nat
  <2>1. 0 \in S
    BY <1>6
  <2>2. ASSUME NEW k \in S PROVE k + 1 \in S
    BY <1>1, <1>7, <2>2, SMTT(30)
  <2> QED
    BY <2>1, <2>2, SetInduction
<1>9. P(Len(b))
  BY <1>1, <1>8
<1> QED
  BY <1>1, <1>2, <1>3, <1>4, <1>5, <1>9 DEF c, P

\* FlattenSeq of one sequence, and of none.
LEMMA FlattenFew ==
  ASSUME NEW B, NEW s \in Seq(B)
  PROVE  FlattenSeq(<< >>) = << >> /\ FlattenSeq(<<s>>) = s
<1>1. FlattenSeq(<< >>) = << >>
  BY DEF FlattenSeq
<1>2. <<s>> \in Seq(Seq(B)) /\ Len(<<s>>) = 1
  OBVIOUS
<1>3. PICK f \in [0..1 -> Seq(B)] : Concatenates(f, <<s>>) /\ FlattenSeq(<<s>>) = f[1]
  BY <1>2, Flattening
<1>4. f[0] = << >> /\ f[1] = f[1 - 1] \o <<s>>[1]
  <2>1. f[0] = << >> /\ \A k \in 1..1 : f[k] = f[k - 1] \o <<s>>[k]
    BY <1>2, <1>3, Zenon DEF Concatenates
  <2>2. 1 \in 1..1
    OBVIOUS
  <2> QED
    BY <2>1, <2>2, Zenon
<1>5. f[1] = << >> \o s
  <2>1. 1 - 1 = 0 /\ <<s>>[1] = s
    OBVIOUS
  <2> QED
    BY <1>4, <2>1, Zenon
<1> QED
  BY <1>1, <1>3, <1>5
-----------------------------------------------------------------------------

\* b is a buffer of members of S, with its cursors in order; its unread bytes are S.
Cell(S) == S \cup {Uninit}
BufferOf(b, S) ==
  /\ b = [cap |-> b.cap, rd |-> b.rd, wr |-> b.wr, mem |-> b.mem]
  /\ b.cap \in Nat /\ b.rd \in Nat /\ b.wr \in Nat
  /\ b.rd <= b.wr /\ b.wr <= b.cap
  /\ b.mem \in [0..(b.cap - 1) -> Cell(S)]
Holds(b, S) == \A i \in b.rd..(b.wr - 1) : b.mem[i] \in S

\* A function on 1..n is a sequence of length n.
LEMMA FunctionSeq ==
  ASSUME NEW S, NEW n \in Nat, NEW s \in [1..n -> S]
  PROVE  s \in Seq(S) /\ Len(s) = n
<1>1. s \in Seq(S)
  BY SeqDef
<1>2. Len(s) \in Nat /\ DOMAIN s = 1..Len(s)
  BY <1>1, LenProperties
<1>3. \A m \in Nat : 1..m = 1..n => m = n
  <2> SUFFICES ASSUME NEW m \in Nat, 1..m = 1..n PROVE m = n
    OBVIOUS
  <2>1. m >= 1 => m \in 1..n
    OBVIOUS
  <2>2. n >= 1 => n \in 1..m
    OBVIOUS
  <2> QED
    BY <2>1, <2>2
<1> QED
  BY <1>1, <1>2, <1>3

\* The unread bytes as a sequence.
LEMMA UnreadSeq ==
  ASSUME NEW S, NEW b, BufferOf(b, S)
  PROVE  /\ Unread(b) \in Seq(Cell(S))
         /\ Len(Unread(b)) = b.wr - b.rd
         /\ \A i \in 1..(b.wr - b.rd) : Unread(b)[i] = b.mem[b.rd + i - 1]
<1>1. Unread(b) \in [1..(b.wr - b.rd) -> Cell(S)]
  BY DEF BufferOf, Unread, ReadCapacity, Cell
<1>2. b.wr - b.rd \in Nat
  BY DEF BufferOf
<1> QED
  BY <1>1, <1>2, FunctionSeq DEF Unread, ReadCapacity

\* Fill appends to the unread bytes and touches no other.
LEMMA FillLemma ==
  ASSUME NEW S, NEW b, BufferOf(b, S), NEW data \in Seq(S), Len(data) <= WriteCapacity(b)
  PROVE  /\ BufferOf(Fill(b, data), S)
         /\ Holds(b, S) => Holds(Fill(b, data), S)
         /\ Fill(b, data).cap = b.cap
         /\ Unread(Fill(b, data)) = Unread(b) \o data
<1> DEFINE f == Fill(b, data)
<1>1. /\ f.cap = b.cap /\ f.rd = b.rd /\ f.wr = b.wr + Len(data)
      /\ f.mem = [i \in 0..(b.cap - 1) |->
                    IF b.wr <= i /\ i < b.wr + Len(data)
                      THEN data[i - b.wr + 1] ELSE b.mem[i]]
      /\ f = [cap |-> f.cap, rd |-> f.rd, wr |-> f.wr, mem |-> f.mem]
  BY DEF Fill
<1> HIDE DEF f
<1>2. /\ b.cap \in Nat /\ b.rd \in Nat /\ b.wr \in Nat /\ Len(data) \in Nat
      /\ b.rd <= b.wr /\ b.wr + Len(data) <= b.cap
  BY LenProperties DEF BufferOf, WriteCapacity
<1>3. BufferOf(f, S)
  BY <1>1 DEF BufferOf, WriteCapacity, Cell
<1>4. Holds(b, S) => Holds(f, S)
  BY <1>1 DEF Holds, BufferOf, WriteCapacity
<1>5. Unread(f) = Unread(b) \o data
  <2> DEFINE u == Unread(b)
             v == Unread(f)
  <2>1. /\ u \in Seq(Cell(S)) /\ Len(u) = b.wr - b.rd
        /\ \A i \in 1..(b.wr - b.rd) : u[i] = b.mem[b.rd + i - 1]
    BY UnreadSeq
  <2>2. /\ v \in Seq(Cell(S)) /\ Len(v) = f.wr - f.rd
        /\ \A i \in 1..(f.wr - f.rd) : v[i] = f.mem[f.rd + i - 1]
    BY <1>3, UnreadSeq
  <2>3. data \in Seq(Cell(S))
    BY SeqMonotonic DEF Cell
  <2> HIDE DEF u, v
  <2>4. /\ u \o data \in Seq(Cell(S)) /\ Len(u \o data) = Len(u) + Len(data)
        /\ \A i \in 1..(Len(u) + Len(data)) :
             (u \o data)[i] = IF i <= Len(u) THEN u[i] ELSE data[i - Len(u)]
    BY <2>1, <2>3, ConcatProperties
  <2>5. Len(v) = Len(u) + Len(data)
    BY <1>1, <1>2, <2>1, <2>2
  <2>6. ASSUME NEW i \in 1..Len(v) PROVE v[i] = (u \o data)[i]
    <3>1. i \in Nat /\ 1 <= i /\ i <= b.wr - b.rd + Len(data)
      BY <1>2, <2>1, <2>5
    <3>2. b.rd + i - 1 \in 0..(b.cap - 1)
      <4>1. b.rd + i - 1 \in Int /\ 0 <= b.rd + i - 1
        BY <1>2, <3>1
      <4>2. b.rd + i - 1 <= b.cap - 1
        BY <1>2, <3>1
      <4> QED
        BY <1>2, <4>1, <4>2
    <3>3. v[i] = f.mem[b.rd + i - 1]
      BY <1>1, <2>2
    <3>4. CASE i <= Len(u)
      <4>1. f.mem[b.rd + i - 1] = b.mem[b.rd + i - 1]
        BY <1>1, <1>2, <2>1, <3>1, <3>2, <3>4, SMTT(30)
      <4>2. (u \o data)[i] = u[i]
        BY <1>2, <2>1, <2>4, <3>1, <3>4
      <4> QED
        BY <1>2, <2>1, <3>1, <3>3, <3>4, <4>1, <4>2
    <3>5. CASE i > Len(u)
      <4>1. f.mem[b.rd + i - 1] = data[(b.rd + i - 1) - b.wr + 1]
        <5>1. b.wr <= b.rd + i - 1 /\ b.rd + i - 1 < b.wr + Len(data)
          BY <1>2, <2>1, <3>1, <3>5
        <5> QED
          BY <1>1, <3>2, <5>1, Zenon
      <4>2. (b.rd + i - 1) - b.wr + 1 = i - Len(u)
        BY <1>2, <2>1, <3>1
      <4>3. (u \o data)[i] = data[i - Len(u)]
        BY <1>2, <2>1, <2>4, <3>1, <3>5
      <4> QED
        BY <3>3, <4>1, <4>2, <4>3
    <3> QED
      BY <1>2, <2>1, <3>1, <3>4, <3>5
  <2>7. v = u \o data
    BY <2>1, <2>2, <2>4, <2>5, <2>6, SeqEqual, ZenonT(60)
  <2> QED
    BY <2>7 DEF u, v
<1> QED
  BY <1>1, <1>3, <1>4, <1>5 DEF f

\* Two buffers whose unread regions hold the same cells have the same unread bytes.
LEMMA SameUnread ==
  ASSUME NEW S, NEW b, BufferOf(b, S), NEW c, BufferOf(c, S), c.wr - c.rd = b.wr - b.rd,
         \A i \in 1..(b.wr - b.rd) : c.mem[c.rd + i - 1] = b.mem[b.rd + i - 1]
  PROVE  Unread(c) = Unread(b)
<1>1. /\ Unread(b) \in Seq(Cell(S)) /\ Len(Unread(b)) = b.wr - b.rd
      /\ \A i \in 1..(b.wr - b.rd) : Unread(b)[i] = b.mem[b.rd + i - 1]
  BY UnreadSeq
<1>2. /\ Unread(c) \in Seq(Cell(S)) /\ Len(Unread(c)) = c.wr - c.rd
      /\ \A i \in 1..(c.wr - c.rd) : Unread(c)[i] = c.mem[c.rd + i - 1]
  BY UnreadSeq
<1>3. \A i \in 1..Len(Unread(c)) : Unread(c)[i] = Unread(b)[i]
  BY <1>1, <1>2
<1> QED
  BY <1>1, <1>2, <1>3, SeqEqual

\* Consume drops the oldest unread bytes.
LEMMA ConsumeLemma ==
  ASSUME NEW S, NEW b, BufferOf(b, S), NEW n \in Nat, n <= ReadCapacity(b)
  PROVE  /\ BufferOf(Consume(b, n), S)
         /\ Holds(b, S) => Holds(Consume(b, n), S)
         /\ Consume(b, n).cap = b.cap
         /\ Unread(Consume(b, n)) = SubSeq(Unread(b), n + 1, Len(Unread(b)))
<1> DEFINE c == Consume(b, n)
           u == Unread(b)
           v == Unread(c)
<1>1. /\ c.cap = b.cap /\ c.rd = b.rd + n /\ c.wr = b.wr /\ c.mem = b.mem
      /\ c = [cap |-> c.cap, rd |-> c.rd, wr |-> c.wr, mem |-> c.mem]
  BY DEF Consume
<1> HIDE DEF c
<1>2. /\ b.cap \in Nat /\ b.rd \in Nat /\ b.wr \in Nat
      /\ b.rd + n <= b.wr /\ b.wr <= b.cap
  BY DEF BufferOf, ReadCapacity
<1>3. BufferOf(c, S)
  BY <1>1, <1>2 DEF BufferOf
<1>4. Holds(b, S) => Holds(c, S)
  BY <1>1, <1>2 DEF Holds
<1>5. /\ u \in Seq(Cell(S)) /\ Len(u) = b.wr - b.rd
      /\ \A i \in 1..(b.wr - b.rd) : u[i] = b.mem[b.rd + i - 1]
  BY UnreadSeq
<1>6. /\ v \in Seq(Cell(S)) /\ Len(v) = c.wr - c.rd
      /\ \A i \in 1..(c.wr - c.rd) : v[i] = c.mem[c.rd + i - 1]
  BY <1>3, UnreadSeq
<1> HIDE DEF u, v
<1>7. \A i \in (n + 1)..Len(u) : u[i] \in Cell(S)
  BY <1>5, ElementOfSeq
<1> DEFINE t == SubSeq(u, n + 1, Len(u))
<1>8. /\ t \in Seq(Cell(S))
      /\ Len(t) = IF n + 1 <= Len(u) THEN Len(u) - (n + 1) + 1 ELSE 0
      /\ \A i \in 1..(Len(u) - (n + 1) + 1) : t[i] = u[n + 1 + i - 1]
  BY <1>2, <1>5, <1>7, SubSeqProperties
<1> HIDE DEF t
<1>9. Len(v) = Len(t)
  <2>1. Len(v) = b.wr - b.rd - n
    BY <1>1, <1>2, <1>6
  <2>2. Len(t) = b.wr - b.rd - n
    BY <1>2, <1>5, <1>8
  <2> QED
    BY <2>1, <2>2
<1>10. ASSUME NEW i \in 1..Len(v) PROVE v[i] = t[i]
  <2>1. i \in Nat /\ 1 <= i /\ i <= b.wr - b.rd - n
    BY <1>1, <1>2, <1>6
  <2>2. v[i] = b.mem[b.rd + n + i - 1]
    BY <1>1, <1>6
  <2>3. t[i] = u[n + 1 + i - 1] /\ n + 1 + i - 1 = n + i
    BY <1>2, <1>5, <1>8, <2>1
  <2>4. u[n + i] = b.mem[b.rd + (n + i) - 1]
    BY <1>2, <1>5, <2>1
  <2>5. b.rd + (n + i) - 1 = b.rd + n + i - 1
    BY <1>2, <2>1
  <2> QED
    BY <2>2, <2>3, <2>4, <2>5
<1>11. v = t
  BY <1>6, <1>8, <1>9, <1>10, SeqEqual
<1> QED
  BY <1>1, <1>3, <1>4, <1>11 DEF c, u, v, t

\* Clear drops all unread bytes.
LEMMA ClearLemma ==
  ASSUME NEW S, NEW b, BufferOf(b, S)
  PROVE  /\ BufferOf(Clear(b), S) /\ Holds(Clear(b), S)
         /\ Clear(b).cap = b.cap /\ Unread(Clear(b)) = << >>
<1> DEFINE c == Clear(b)
<1>1. /\ c.cap = b.cap /\ c.rd = 0 /\ c.wr = 0 /\ c.mem = b.mem
      /\ c = [cap |-> c.cap, rd |-> c.rd, wr |-> c.wr, mem |-> c.mem]
  BY DEF Clear
<1> HIDE DEF c
<1>2. BufferOf(c, S) /\ Holds(c, S)
  BY <1>1 DEF BufferOf, Holds
<1>3. Unread(c) \in Seq(Cell(S)) /\ Len(Unread(c)) = 0
  BY <1>1, <1>2, UnreadSeq
<1>4. Unread(c) = << >>
  BY <1>3, EmptySeq
<1> QED
  BY <1>1, <1>2, <1>4 DEF c

\* A copy of the unread bytes to the front of a buffer keeps them.
LEMMA MovedUnread ==
  ASSUME NEW S, NEW b, BufferOf(b, S), NEW c, BufferOf(c, S), c.rd = 0, c.wr = b.wr - b.rd,
         \A i \in 0..(b.wr - b.rd - 1) : c.mem[i] = b.mem[b.rd + i]
  PROVE  /\ Holds(b, S) => Holds(c, S)
         /\ Unread(c) = Unread(b)
<1>1. b.rd \in Nat /\ b.wr \in Nat /\ b.rd <= b.wr
  BY DEF BufferOf
<1>2. Holds(b, S) => Holds(c, S)
  <2> SUFFICES ASSUME Holds(b, S), NEW i \in c.rd..(c.wr - 1)
               PROVE  c.mem[i] \in S
    BY DEF Holds
  <2>1. i \in 0..(b.wr - b.rd - 1) /\ b.rd + i \in b.rd..(b.wr - 1)
    BY <1>1
  <2> QED
    BY <2>1 DEF Holds
<1>3. \A i \in 1..(b.wr - b.rd) : c.mem[c.rd + i - 1] = b.mem[b.rd + i - 1]
  <2> SUFFICES ASSUME NEW i \in 1..(b.wr - b.rd)
               PROVE  c.mem[c.rd + i - 1] = b.mem[b.rd + i - 1]
    OBVIOUS
  <2>1. /\ i - 1 \in 0..(b.wr - b.rd - 1) /\ c.rd + i - 1 = i - 1
        /\ b.rd + (i - 1) = b.rd + i - 1
    BY <1>1
  <2>2. c.mem[i - 1] = b.mem[b.rd + (i - 1)]
    BY <2>1
  <2> QED
    BY <2>1, <2>2
<1>4. c.wr - c.rd = b.wr - b.rd
  BY <1>1
<1>5. Unread(c) = Unread(b)
  BY <1>3, <1>4, SameUnread
<1> QED
  BY <1>2, <1>5

\* Shift moves the unread bytes to the front of the buffer.
LEMMA ShiftLemma ==
  ASSUME NEW S, NEW b, BufferOf(b, S)
  PROVE  /\ BufferOf(Shift(b), S)
         /\ Holds(b, S) => Holds(Shift(b), S)
         /\ Shift(b).cap = b.cap /\ Shift(b).wr = b.wr - b.rd
         /\ Unread(Shift(b)) = Unread(b)
<1> DEFINE c == Shift(b)
<1>1. /\ c.cap = b.cap /\ c.rd = 0 /\ c.wr = b.wr - b.rd
      /\ c.mem = [i \in 0..(b.cap - 1) |->
                    IF i < b.wr - b.rd THEN b.mem[b.rd + i] ELSE b.mem[i]]
      /\ c = [cap |-> c.cap, rd |-> c.rd, wr |-> c.wr, mem |-> c.mem]
  BY DEF Shift, ReadCapacity
<1> HIDE DEF c
<1>2. /\ b.cap \in Nat /\ b.rd \in Nat /\ b.wr \in Nat
      /\ b.rd <= b.wr /\ b.wr <= b.cap
  BY DEF BufferOf
<1>3. BufferOf(c, S)
  <2>1. ASSUME NEW i \in 0..(b.cap - 1)
        PROVE  (IF i < b.wr - b.rd THEN b.mem[b.rd + i] ELSE b.mem[i])
                 \in Cell(S)
    <3>1. i < b.wr - b.rd => b.rd + i \in 0..(b.cap - 1)
      BY <1>2
    <3> QED
      BY <3>1 DEF BufferOf
  <2>2. c.mem \in [0..(b.cap - 1) -> Cell(S)]
    BY <1>1, <2>1
  <2> QED
    BY <1>1, <1>2, <2>2 DEF BufferOf
<1>4. \A i \in 0..(b.wr - b.rd - 1) : c.mem[i] = b.mem[b.rd + i]
  <2> SUFFICES ASSUME NEW i \in 0..(b.wr - b.rd - 1) PROVE c.mem[i] = b.mem[b.rd + i]
    OBVIOUS
  <2>1. i \in 0..(b.cap - 1) /\ i < b.wr - b.rd
    BY <1>2
  <2> QED
    BY <1>1, <2>1, Zenon
<1>5. c.rd = 0 /\ c.wr = b.wr - b.rd
  BY <1>1
<1>6. /\ Holds(b, S) => Holds(c, S)
      /\ Unread(c) = Unread(b)
  BY <1>3, <1>4, <1>5, MovedUnread, Zenon
<1> QED
  BY <1>1, <1>3, <1>6 DEF c

\* ShiftForSpace keeps the unread bytes, and makes the room asked for when the
\* consumed prefix and the free space together have it.
LEMMA ShiftForSpaceLemma ==
  ASSUME NEW S, NEW b, BufferOf(b, S), NEW n \in Nat
  PROVE  LET c == ShiftForSpace(b, n)
         IN  /\ BufferOf(c, S)
             /\ Holds(b, S) => Holds(c, S)
             /\ c.cap = b.cap
             /\ Unread(c) = Unread(b)
             /\ n <= b.cap - ReadCapacity(b) => WriteCapacity(c) >= n
             /\ n > b.cap - ReadCapacity(b) => WriteCapacity(c) = b.cap - ReadCapacity(b)
<1>1. /\ b.cap \in Nat /\ b.rd \in Nat /\ b.wr \in Nat
      /\ b.rd <= b.wr /\ b.wr <= b.cap
  BY DEF BufferOf
<1>2. CASE WriteCapacity(b) < n /\ b.rd # 0
  BY <1>1, <1>2, ShiftLemma DEF ShiftForSpace, WriteCapacity, ReadCapacity
<1>3. CASE ~(WriteCapacity(b) < n /\ b.rd # 0)
  BY <1>1, <1>3 DEF ShiftForSpace, WriteCapacity, ReadCapacity
<1> QED
  BY <1>2, <1>3

\* Reserve grows to the capacity asked for, if at all, and keeps the unread bytes.
LEMMA ReserveLemma ==
  ASSUME NEW S, NEW b, BufferOf(b, S), NEW n \in Nat
  PROVE  LET c == Reserve(b, n)
         IN  /\ BufferOf(c, S)
             /\ Holds(b, S) => Holds(c, S)
             /\ c.cap = IF n <= b.cap THEN b.cap ELSE n
             /\ n > b.cap => WriteCapacity(c) = n - ReadCapacity(b)
             /\ Unread(c) = Unread(b)
<1> DEFINE c == Reserve(b, n)
<1>1. /\ b.cap \in Nat /\ b.rd \in Nat /\ b.wr \in Nat
      /\ b.rd <= b.wr /\ b.wr <= b.cap
  BY DEF BufferOf
<1>2. CASE n <= b.cap
  BY <1>1, <1>2 DEF Reserve
<1>3. CASE n > b.cap
  <2>1. /\ c.cap = n /\ c.rd = 0 /\ c.wr = b.wr - b.rd
        /\ c.mem = [i \in 0..(n - 1) |->
                      IF i < b.wr - b.rd THEN b.mem[b.rd + i] ELSE Uninit]
        /\ c = [cap |-> c.cap, rd |-> c.rd, wr |-> c.wr, mem |-> c.mem]
    <3>1. ~(n <= b.cap)
      BY <1>1, <1>3
    <3>2. c = [cap |-> n, rd |-> 0, wr |-> b.wr - b.rd,
               mem |-> [i \in 0..(n - 1) |->
                          IF i < b.wr - b.rd THEN b.mem[b.rd + i] ELSE Uninit]]
      BY <3>1, Zenon DEF Reserve, ReadCapacity
    <3> HIDE DEF c
    <3> QED
      BY <3>2
  <2> HIDE DEF c
  <2>2. BufferOf(c, S)
    <3>1. ASSUME NEW i \in 0..(n - 1)
          PROVE  (IF i < b.wr - b.rd THEN b.mem[b.rd + i] ELSE Uninit)
                   \in Cell(S)
      <4>1. i < b.wr - b.rd => b.rd + i \in 0..(b.cap - 1)
        BY <1>1
      <4> QED
        BY <4>1 DEF BufferOf, Cell
    <3>2. c.mem \in [0..(n - 1) -> Cell(S)]
      BY <2>1, <3>1
    <3> QED
      BY <1>1, <1>3, <2>1, <3>2 DEF BufferOf
  <2>3. \A i \in 0..(b.wr - b.rd - 1) : c.mem[i] = b.mem[b.rd + i]
    <3> SUFFICES ASSUME NEW i \in 0..(b.wr - b.rd - 1) PROVE c.mem[i] = b.mem[b.rd + i]
      OBVIOUS
    <3>1. i \in 0..(n - 1) /\ i < b.wr - b.rd
      BY <1>1, <1>3
    <3> QED
      BY <2>1, <3>1, Zenon
  <2>4. /\ Holds(b, S) => Holds(c, S)
        /\ Unread(c) = Unread(b)
    BY <2>1, <2>2, <2>3, MovedUnread
  <2>5. c.cap = n /\ WriteCapacity(c) = n - ReadCapacity(b)
    BY <1>1, <2>1 DEF WriteCapacity, ReadCapacity
  <2> QED
    BY <1>1, <1>3, <2>2, <2>4, <2>5 DEF c
<1> QED
  BY <1>1, <1>2, <1>3

\* Write appends as much of the data as there is room for, wherever the room is.
LEMMA WriteLemma ==
  ASSUME NEW S, NEW b, BufferOf(b, S), NEW data \in Seq(S)
  PROVE  LET room == b.cap - ReadCapacity(b)
             n == IF room < Len(data) THEN room ELSE Len(data)
         IN  /\ WriteSize(b, Len(data)) = n
             /\ BufferOf(Write(b, data), S)
             /\ Holds(b, S) => Holds(Write(b, data), S)
             /\ Write(b, data).cap = b.cap
             /\ Unread(Write(b, data)) = Unread(b) \o SubSeq(data, 1, n)
<1> DEFINE c == ShiftForSpace(b, Len(data))
           room == b.cap - ReadCapacity(b)
           n == IF room < Len(data) THEN room ELSE Len(data)
           d == SubSeq(data, 1, n)
<1>1. Len(data) \in Nat
  OBVIOUS
<1>2. /\ BufferOf(c, S) /\ (Holds(b, S) => Holds(c, S))
      /\ c.cap = b.cap /\ Unread(c) = Unread(b)
      /\ Len(data) <= room => WriteCapacity(c) >= Len(data)
      /\ Len(data) > room => WriteCapacity(c) = room
  BY <1>1, ShiftForSpaceLemma
<1>3. room \in Nat /\ WriteCapacity(c) \in Nat
  BY <1>2 DEF BufferOf, ReadCapacity, WriteCapacity
<1>4. WriteSize(b, Len(data)) = n
  <2> HIDE DEF c, room
  <2>1. WriteSize(b, Len(data)) = IF WriteCapacity(c) < Len(data) THEN WriteCapacity(c)
                                                                  ELSE Len(data)
    BY DEF WriteSize, c
  <2> QED
    BY <1>1, <1>2, <1>3, <2>1
<1>5. n \in 0..Len(data) /\ n <= WriteCapacity(c)
  <2> HIDE DEF c, room
  <2> QED
    BY <1>1, <1>2, <1>3
<1> HIDE DEF n
<1>6. d \in Seq(S) /\ Len(d) = n
  <2>1. \A i \in 1..n : data[i] \in S
    BY <1>1, <1>5, ElementOfSeq
  <2>2. /\ d \in Seq(S)
        /\ Len(d) = IF 1 <= n THEN n - 1 + 1 ELSE 0
    BY <1>5, <2>1, SubSeqProperties
  <2> QED
    BY <1>5, <2>2
<1>7. Write(b, data) = Fill(c, d)
  BY <1>4 DEF Write
<1> HIDE DEF c, d, room
<1>8. /\ BufferOf(Fill(c, d), S)
      /\ Holds(c, S) => Holds(Fill(c, d), S)
      /\ Fill(c, d).cap = c.cap
      /\ Unread(Fill(c, d)) = Unread(c) \o d
  BY <1>2, <1>5, <1>6, FillLemma
<1> QED
  BY <1>2, <1>4, <1>7, <1>8 DEF d, n, room

\* WriteAll appends all of the data and grows only when it must.
LEMMA WriteAllLemma ==
  ASSUME NEW S, NEW b, BufferOf(b, S), NEW data \in Seq(S)
  PROVE  /\ BufferOf(WriteAll(b, data), S)
         /\ Holds(b, S) => Holds(WriteAll(b, data), S)
         /\ WriteAll(b, data).cap =
              IF Len(data) > b.cap - ReadCapacity(b)
                THEN ReadCapacity(b) + Len(data) ELSE b.cap
         /\ Unread(WriteAll(b, data)) = Unread(b) \o data
<1>1. Len(data) \in Nat
  OBVIOUS
<1>2. b.cap \in Nat /\ ReadCapacity(b) \in Nat
  BY DEF BufferOf, ReadCapacity
<1>3. CASE Len(data) > b.cap - ReadCapacity(b)
  <2> DEFINE n == ReadCapacity(b) + Len(data)
             c == Reserve(b, n)
  <2>1. n \in Nat /\ n > b.cap
    BY <1>1, <1>2, <1>3
  <2>2. /\ BufferOf(c, S) /\ (Holds(b, S) => Holds(c, S))
        /\ c.cap = IF n <= b.cap THEN b.cap ELSE n
        /\ n > b.cap => WriteCapacity(c) = n - ReadCapacity(b)
        /\ Unread(c) = Unread(b)
    BY <2>1, ReserveLemma
  <2>3. WriteAll(b, data) = Fill(c, data)
    BY <1>3 DEF WriteAll, Capacity
  <2> HIDE DEF c
  <2>4. c.cap = n /\ Len(data) <= WriteCapacity(c)
    BY <1>1, <1>2, <2>1, <2>2
  <2>5. /\ BufferOf(Fill(c, data), S)
        /\ Holds(c, S) => Holds(Fill(c, data), S)
        /\ Fill(c, data).cap = c.cap
        /\ Unread(Fill(c, data)) = Unread(c) \o data
    BY <2>2, <2>4, FillLemma
  <2> QED
    BY <1>3, <2>2, <2>3, <2>4, <2>5
<1>4. CASE ~(Len(data) > b.cap - ReadCapacity(b))
  <2> DEFINE c == ShiftForSpace(b, Len(data))
  <2>1. /\ BufferOf(c, S) /\ (Holds(b, S) => Holds(c, S))
        /\ c.cap = b.cap /\ Unread(c) = Unread(b)
        /\ Len(data) <= b.cap - ReadCapacity(b) => WriteCapacity(c) >= Len(data)
    BY <1>1, ShiftForSpaceLemma
  <2>2. WriteAll(b, data) = Fill(c, data)
    BY <1>4 DEF WriteAll, Capacity
  <2> HIDE DEF c
  <2>3. WriteCapacity(c) \in Int
    BY <2>1 DEF BufferOf, WriteCapacity
  <2>4. Len(data) <= WriteCapacity(c)
    BY <1>1, <1>2, <1>4, <2>1, <2>3
  <2>5. /\ BufferOf(Fill(c, data), S)
        /\ Holds(c, S) => Holds(Fill(c, data), S)
        /\ Fill(c, data).cap = c.cap
        /\ Unread(Fill(c, data)) = Unread(c) \o data
    BY <2>1, <2>4, FillLemma
  <2> QED
    BY <1>4, <2>1, <2>2, <2>5
<1> QED
  BY <1>3, <1>4

\* What is filled in and consumed at once leaves nothing unread.
LEMMA NoneUnread ==
  ASSUME NEW S, NEW b, BufferOf(b, S)
  PROVE  b.rd = b.wr <=> Unread(b) = << >>
<1>1. Unread(b) \in Seq(Cell(S)) /\ Len(Unread(b)) = b.wr - b.rd
  BY UnreadSeq
<1>2. b.rd \in Nat /\ b.wr \in Nat
  BY DEF BufferOf
<1> QED
  BY <1>1, <1>2, EmptySeq

\* Bytes filled in and consumed at once leave an empty buffer further on.
LEMMA FillConsume ==
  ASSUME NEW S, NEW b, BufferOf(b, S), b.rd = b.wr, NEW data \in Seq(S),
         Len(data) <= WriteCapacity(b)
  PROVE  LET c == Consume(Fill(b, data), Len(data))
         IN  /\ BufferOf(c, S) /\ c.cap = b.cap /\ c.rd = c.wr /\ c.wr = b.wr + Len(data)
             /\ Unread(c) = << >>
<1> DEFINE f == Fill(b, data)
           c == Consume(f, Len(data))
<1>1. f.cap = b.cap /\ f.rd = b.rd /\ f.wr = b.wr + Len(data) /\ BufferOf(f, S)
  <2>1. f.cap = b.cap /\ f.rd = b.rd /\ f.wr = b.wr + Len(data)
    BY DEF Fill
  <2> QED
    BY <2>1, FillLemma
<1>2. Len(data) \in Nat /\ b.wr \in Nat
  BY DEF BufferOf
<1> HIDE DEF f
<1>3. c.cap = f.cap /\ c.rd = f.rd + Len(data) /\ c.wr = f.wr
  BY DEF Consume
<1>4. Len(data) <= ReadCapacity(f)
  BY <1>1, <1>2 DEF ReadCapacity
<1>5. BufferOf(c, S)
  BY <1>1, <1>2, <1>4, ConsumeLemma
<1> HIDE DEF c
<1>6. c.rd = c.wr /\ c.wr = b.wr + Len(data) /\ c.cap = b.cap
  BY <1>1, <1>3
<1>7. Unread(c) = << >>
  BY <1>5, <1>6, NoneUnread
<1> QED
  BY <1>5, <1>6, <1>7 DEF c, f
-----------------------------------------------------------------------------
(* Compressed input.                                                       *)

\* What the parts of an input decompress to.
LEMMA OutParts ==
  ASSUME NEW B, NEW a \in Seq(TokensOf(B)), NEW b \in Seq(TokensOf(B))
  PROVE  Out(a) \in Seq(B) /\ Out(a \o b) = Out(a) \o Out(b)
<1> DEFINE Outs(s) == [i \in 1..Len(s) |-> s[i].out]
           T == TokensOf(B)
           c == a \o b
<1>1. \A s \in Seq(T) : \A i \in 1..Len(s) : s[i].out \in Seq(B)
  <2>1. \A t \in T : t.out \in Seq(B)
    BY DEF TokensOf
  <2> HIDE DEF T
  <2> QED
    BY <2>1, ElementOfSeq
<1> HIDE DEF T
<1>2. a \in Seq(T) /\ b \in Seq(T)
  BY DEF T
<1>3. \A s \in Seq(T) : /\ Len(s) \in Nat /\ Outs(s) \in Seq(Seq(B)) /\ Len(Outs(s)) = Len(s)
                         /\ \A i \in 1..Len(s) : Outs(s)[i] = s[i].out
  <2> SUFFICES ASSUME NEW s \in Seq(T)
               PROVE  /\ Len(s) \in Nat /\ Outs(s) \in Seq(Seq(B)) /\ Len(Outs(s)) = Len(s)
                      /\ \A i \in 1..Len(s) : Outs(s)[i] = s[i].out
    OBVIOUS
  <2>1. Len(s) \in Nat /\ Outs(s) \in [1..Len(s) -> Seq(B)]
    BY <1>1
  <2> QED
    BY <2>1, FunctionSeq
<1>4. /\ c \in Seq(T) /\ Len(c) = Len(a) + Len(b)
      /\ \A i \in 1..Len(a) : c[i] = a[i]
      /\ \A i \in 1..Len(b) : c[Len(a) + i] = b[i]
  BY <1>2, ConcatParts
<1> HIDE DEF c
<1>5. Outs(c) = Outs(a) \o Outs(b)
  <2> DEFINE oa == Outs(a)
             ob == Outs(b)
             oc == Outs(c)
             l == oa \o ob
  <2>1. /\ Len(a) \in Nat /\ Len(b) \in Nat
        /\ oa \in Seq(Seq(B)) /\ Len(oa) = Len(a) /\ \A i \in 1..Len(a) : oa[i] = a[i].out
        /\ ob \in Seq(Seq(B)) /\ Len(ob) = Len(b) /\ \A i \in 1..Len(b) : ob[i] = b[i].out
        /\ oc \in Seq(Seq(B)) /\ Len(oc) = Len(c) /\ \A i \in 1..Len(c) : oc[i] = c[i].out
    <3> HIDE DEF Outs
    <3> QED
      BY <1>2, <1>3, <1>4, Zenon
  <2> HIDE DEF oa, ob, oc
  <2>2. /\ l \in Seq(Seq(B)) /\ Len(l) = Len(oa) + Len(ob)
        /\ \A i \in 1..Len(oa) : l[i] = oa[i]
        /\ \A i \in 1..Len(ob) : l[Len(oa) + i] = ob[i]
    <3>1. oa \in Seq(Seq(B)) /\ ob \in Seq(Seq(B))
      BY <2>1
    <3> QED
      BY <3>1, ConcatParts
  <2> HIDE DEF l
  <2>3. Len(l) = Len(oc)
    BY <1>4, <2>1, <2>2
  <2>4. ASSUME NEW i \in 1..Len(oc) PROVE oc[i] = l[i]
    <3>1. CASE i <= Len(a)
      <4>1. i \in 1..Len(a) /\ i \in 1..Len(oa) /\ i \in 1..Len(c)
        BY <2>1, <3>1
      <4> QED
        BY <1>4, <2>1, <2>2, <4>1, ZenonT(60)
    <3>2. CASE ~(i <= Len(a))
      <4> DEFINE j == i - Len(a)
      <4>1. j \in 1..Len(b) /\ j \in 1..Len(ob) /\ Len(a) + j = i /\ Len(oa) + j = i
        BY <1>4, <2>1, <3>2
      <4> HIDE DEF j
      <4>2. l[i] = ob[j] /\ c[i] = b[j]
        BY <1>4, <2>2, <4>1
      <4> QED
        BY <2>1, <4>1, <4>2
    <3> QED
      BY <3>1, <3>2
  <2>5. oc = l
    BY <2>1, <2>2, <2>3, <2>4, SeqEqual
  <2> QED
    BY <2>5 DEF oa, ob, oc, l
<1>6. Outs(a) \in Seq(Seq(B)) /\ Outs(b) \in Seq(Seq(B))
  BY <1>2, <1>3
<1>7. Out(a) = FlattenSeq(Outs(a)) /\ Out(b) = FlattenSeq(Outs(b)) /\ Out(c) = FlattenSeq(Outs(c))
  BY DEF Out
<1> HIDE DEF Outs
<1>8. FlattenSeq(Outs(a)) \in Seq(B)
      /\ FlattenSeq(Outs(a) \o Outs(b)) = FlattenSeq(Outs(a)) \o FlattenSeq(Outs(b))
  BY <1>6, FlattenParts
<1> QED
  BY <1>5, <1>7, <1>8 DEF c

\* What no token and what one decompress to.
LEMMA OutFew ==
  ASSUME NEW B, NEW t \in TokensOf(B)
  PROVE  Out(<< >>) = << >> /\ Out(<<t>>) = t.out
<1>1. t.out \in Seq(B)
  BY DEF TokensOf
<1>2. [i \in 1..Len(<< >>) |-> << >>[i].out] = << >>
  OBVIOUS
<1>3. [i \in 1..Len(<<t>>) |-> <<t>>[i].out] = <<t.out>>
  <2>1. Len(<<t>>) = 1 /\ <<t>>[1].out = t.out
    OBVIOUS
  <2> QED
    BY <2>1
<1> QED
  BY <1>1, <1>2, <1>3, FlattenFew DEF Out

\* What fits the room, and what does not.
LEMMA SplitAt ==
  ASSUME NEW S, NEW w \in Seq(S), NEW n \in Nat
  PROVE  LET a == SubSeq(w, 1, Shorter(n, Len(w)))
             b == SubSeq(w, n + 1, Len(w))
         IN  /\ Shorter(Len(w), n) = Shorter(n, Len(w))
             /\ a \in Seq(S) /\ b \in Seq(S) /\ a \o b = w /\ Len(a) <= n
             /\ (b = << >>) <=> (Len(w) <= n)
             /\ b # << >> => Len(a) = n
<1>1. Len(w) \in Nat
  OBVIOUS
<1>2. CASE n < Len(w)
  <2>1. Shorter(n, Len(w)) = n /\ Shorter(Len(w), n) = n /\ n \in 0..Len(w) /\ Len(w) - n # 0
    BY <1>1, <1>2 DEF Shorter
  <2> DEFINE b == SubSeq(w, n + 1, Len(w))
  <2>2. b \in Seq(S) /\ Len(b) = Len(w) - n
    BY <2>1, TakeDrop
  <2> HIDE DEF b
  <2>3. b # << >> /\ ~(Len(w) <= n)
    BY <1>1, <1>2, <2>1, <2>2
  <2>4. SubSeq(w, 1, n) \in Seq(S) /\ Len(SubSeq(w, 1, n)) = n
    BY <2>1, TakeDrop
  <2>5. SubSeq(w, 1, n) \o b = w
    BY <2>1, Rejoined DEF b
  <2>6. Len(SubSeq(w, 1, n)) <= n
    BY <2>4
  <2> QED
    BY <2>1, <2>2, <2>3, <2>4, <2>5, <2>6, Zenon DEF b
<1>3. CASE ~(n < Len(w))
  <2>1. Shorter(n, Len(w)) = Len(w) /\ Shorter(Len(w), n) = Len(w) /\ Len(w) <= n
    BY <1>1, <1>3 DEF Shorter
  <2>2. SubSeq(w, n + 1, Len(w)) = << >>
    BY <1>1, <2>1
  <2>3. SubSeq(w, 1, Len(w)) = w
    OBVIOUS
  <2>4. w \o << >> = w /\ << >> \in Seq(S)
    OBVIOUS
  <2> QED
    BY <2>1, <2>2, <2>3, <2>4
<1> QED
  BY <1>2, <1>3

\* The state of a call of ZSTD_decompressStream.
Decompressing(B, T, room) ==
  {s \in [out : Seq(B), held : Seq(B), unread : Seq(T), ended : BOOLEAN, error : BOOLEAN] :
     Len(s.out) <= room /\ (s.ended \/ s.error \/ s.held # << >> \/ s.unread = << >>)}
Contents(s) == (s.out \o s.held) \o Out(s.unread)

\* A token adds what it decompresses to.
LEMMA FeedLemma ==
  ASSUME NEW B, NEW T \in SUBSET TokensOf(B), Hostage \in T, NEW room \in Nat,
         NEW s \in Decompressing(B, T, room), NEW t \in T
  PROVE  /\ Feed(s, t, room) \in Decompressing(B, T, room)
         /\ Contents(Feed(s, t, room)) = Contents(s) \o t.out
         /\ ~s.error /\ t.kind # "corrupt" => ~Feed(s, t, room).error
<1>0. \A x, y, z \in Seq(B) : (x \o y) \o z = x \o (y \o z)
  BY ConcatAssociative, SMTT(30)
<1> DEFINE out == s.out
           held == s.held
           unread == s.unread
           tout == t.out
<1>1. /\ out \in Seq(B) /\ held \in Seq(B) /\ unread \in Seq(T) /\ Len(out) \in Nat /\ Len(out) <= room
      /\ s.ended \in BOOLEAN /\ s.error \in BOOLEAN
      /\ s.ended \/ s.error \/ held # << >> \/ unread = << >>
      /\ s = [out |-> out, held |-> held, unread |-> unread, ended |-> s.ended, error |-> s.error]
  BY DEF Decompressing
<1>2. tout \in Seq(B) /\ t.last \in BOOLEAN /\ t \in TokensOf(B)
  BY DEF TokensOf
<1>3. \A u \in Seq(T) : u \in Seq(TokensOf(B))
  OBVIOUS
<1>4. \A u, v \in Seq(T) : Out(u) \in Seq(B) /\ Out(u \o v) = Out(u) \o Out(v)
  BY <1>3, OutParts
<1>5. Out(<< >>) = << >> /\ Out(<<t>>) = tout /\ Out(<<Hostage>>) = << >>
  <2>1. Hostage \in TokensOf(B) /\ Hostage.out = << >>
    BY DEF Hostage, Token
  <2> QED
    BY <1>2, <2>1, OutFew
<1>6. \A x \in Seq(B) : x \o << >> = x
  OBVIOUS
<1>7. << >> \in Seq(T) /\ <<t>> \in Seq(T) /\ <<Hostage>> \in Seq(T)
  OBVIOUS
<1>8. CASE s.ended \/ s.error \/ held # << >>
  <2> DEFINE more == Append(unread, t)
             f == [out |-> out, held |-> held, unread |-> more, ended |-> s.ended, error |-> s.error]
  <2>1. Feed(s, t, room) = f
    BY <1>1, <1>8 DEF Feed
  <2>2. more \in Seq(T) /\ more = unread \o <<t>>
    BY <1>1
  <2>3. f \in Decompressing(B, T, room)
    <3> HIDE DEF more, out, held
    <3> QED
      BY <1>1, <1>8, <2>2 DEF Decompressing
  <2>4. Out(more) = Out(unread) \o tout /\ Out(unread) \in Seq(B)
    BY <1>1, <1>4, <1>5, <1>7, <2>2
  <2>5. Contents(f) = (out \o held) \o Out(more) /\ Contents(s) = (out \o held) \o Out(unread)
    BY DEF Contents
  <2>6. out \o held \in Seq(B)
    BY <1>1, ConcatParts
  <2>7. Contents(f) = Contents(s) \o tout
    <3> DEFINE oh == out \o held
               ou == Out(unread)
    <3>1. oh \in Seq(B) /\ ou \in Seq(B) /\ tout \in Seq(B)
      BY <1>2, <2>4, <2>6
    <3> HIDE DEF oh, ou, tout
    <3>2. (oh \o ou) \o tout = oh \o (ou \o tout)
      BY <1>0, <3>1, Zenon
    <3> QED
      BY <2>4, <2>5, <3>2, Zenon DEF oh, ou, tout
  <2>8. ~s.error => ~f.error
    OBVIOUS
  <2> HIDE DEF f
  <2> QED
    BY <2>1, <2>3, <2>7, <2>8, Zenon DEF tout
<1>9. CASE ~(s.ended \/ s.error \/ held # << >>)
  <2> DEFINE n == room - Len(out)
             x == SubSeq(tout, 1, Shorter(n, Len(tout)))
             y == SubSeq(tout, n + 1, Len(tout))
             fits == Len(tout) <= n
             back == IF t.last /\ ~fits THEN <<Hostage>> ELSE << >>
             f == [out |-> out \o x, held |-> y, unread |-> back, ended |-> t.last /\ fits,
                   error |-> t.kind = "corrupt"]
  <2>1. Feed(s, t, room) = f
    BY <1>9 DEF Feed
  <2>2. n \in Nat /\ Len(out) + n = room
    BY <1>1
  <2> HIDE DEF n
  <2>3. x \in Seq(B) /\ y \in Seq(B) /\ x \o y = tout /\ Len(x) <= n /\ (y = << >> <=> fits)
    BY <1>2, <2>2, SplitAt
  <2> HIDE DEF x, y, fits
  <2>4. held = << >> /\ unread = << >> /\ back \in Seq(T) /\ Out(back) = << >>
        /\ (y # << >> \/ back = << >>)
    BY <1>1, <1>5, <1>7, <1>9, <2>3
  <2> HIDE DEF back
  <2>5. out \o x \in Seq(B) /\ Len(out \o x) <= room
    <3>1. out \o x \in Seq(B) /\ Len(out \o x) = Len(out) + Len(x) /\ Len(x) \in Nat
      BY <1>1, <2>3, ConcatParts
    <3> QED
      BY <1>1, <2>2, <2>3, <3>1
  <2>6. f \in Decompressing(B, T, room)
    <3>1. (t.last /\ fits) \in BOOLEAN /\ (t.kind = "corrupt") \in BOOLEAN
      BY <1>2 DEF fits
    <3> QED
      BY <2>3, <2>4, <2>5, <3>1 DEF Decompressing
  <2>7. Contents(f) = ((out \o x) \o y) \o Out(back) /\ Contents(s) = (out \o held) \o Out(unread)
    BY DEF Contents
  <2>8. Contents(f) = out \o tout
    <3>1. (out \o x) \o y = out \o (x \o y)
      BY <1>0, <1>1, <2>3, Zenon
    <3>2. out \o tout \in Seq(B)
      BY <1>1, <1>2, ConcatParts
    <3>3. Contents(f) = (out \o tout) \o << >>
      BY <2>3, <2>4, <2>7, <3>1, Zenon
    <3> QED
      BY <1>6, <3>2, <3>3
  <2>9. Contents(s) = out
    <3>1. Contents(s) = (out \o << >>) \o << >>
      BY <1>5, <2>4, <2>7, Zenon
    <3> QED
      BY <1>1, <1>6, <3>1
  <2>10. t.kind # "corrupt" => ~f.error
    OBVIOUS
  <2> HIDE DEF f
  <2> QED
    BY <2>1, <2>6, <2>8, <2>9, <2>10, Zenon DEF tout
<1> QED
  BY <1>8, <1>9

\* The states of a call, one for each token it is given.
StartOf(held, room) ==
  [out |-> SubSeq(held, 1, Shorter(Len(held), room)),
   held |-> SubSeq(held, room + 1, Len(held)),
   unread |-> << >>, ended |-> FALSE, error |-> FALSE]
Feeds(f, held, in, room) ==
  f[0] = StartOf(held, room) /\ \A k \in 1..Len(in) : f[k] = Feed(f[k - 1], in[k], room)

\* A call begins with what is held.
LEMMA StartLemma ==
  ASSUME NEW B, NEW T \in SUBSET TokensOf(B), Hostage \in T, NEW room \in Nat, NEW held \in Seq(B)
  PROVE  /\ StartOf(held, room) \in Decompressing(B, T, room)
         /\ Contents(StartOf(held, room)) = held /\ StartOf(held, room).error = FALSE
<1> DEFINE start == StartOf(held, room)
           x == SubSeq(held, 1, Shorter(room, Len(held)))
           y == SubSeq(held, room + 1, Len(held))
<1>1. /\ x \in Seq(B) /\ y \in Seq(B) /\ x \o y = held /\ Len(x) <= room
      /\ start = [out |-> x, held |-> y, unread |-> << >>, ended |-> FALSE, error |-> FALSE]
  BY SplitAt DEF StartOf
<1>2. << >> \in Seq(T)
  OBVIOUS
<1> HIDE DEF x, y, start
<1>3. start \in Decompressing(B, T, room)
  BY <1>1, <1>2 DEF Decompressing
<1>4. Contents(start) = (x \o y) \o Out(<< >>)
  BY <1>1 DEF Contents
<1>5. Out(<< >>) = << >>
  BY OutFew
<1>6. held \o << >> = held
  OBVIOUS
<1>7. Contents(start) = held
  BY <1>1, <1>4, <1>5, <1>6, Zenon
<1> QED
  BY <1>1, <1>3, <1>7 DEF start

\* They exist, and the last is the result.
LEMMA Feeding ==
  ASSUME NEW B, NEW T \in SUBSET TokensOf(B), Hostage \in T, NEW room \in Nat,
         NEW held \in Seq(B), NEW in \in Seq(T)
  PROVE  \E f : /\ Feeds(f, held, in, room) /\ f[Len(in)] = ZSTD_decompressStream(held, in, room)
                /\ \A k \in 0..Len(in) : f[k] \in Decompressing(B, T, room)
<1> DEFINE D == Decompressing(B, T, room)
           n == Len(in)
           start == StartOf(held, room)
           Is(g) == g = [k \in 0..n |-> IF k = 0 THEN start ELSE Feed(g[k - 1], in[k], room)]
           fed == CHOOSE g : Is(g)
           step == [k \in 1..n |-> [s \in D |-> Feed(s, in[k], room)]]
<1>1. n \in Nat /\ \A k \in 1..n : in[k] \in T
  BY ElementOfSeq
<1>2. start \in D
  BY StartLemma
<1>3. \A s \in D, t \in T : Feed(s, t, room) \in D
  BY FeedLemma
<1> HIDE DEF D, start, n
<1>4. step \in [1..n -> [D -> D]]
  BY <1>1, <1>3
<1>5. \E g : Is(g)
  <2>1. PICK g : Recurs(g, D, n, start, step)
    BY <1>1, <1>2, <1>4, RecursionExists
  <2>2. g \in [0..n -> D] /\ g[0] = start /\ \A k \in 1..n : g[k] = step[k][g[k - 1]]
    BY <2>1 DEF Recurs
  <2>3. ASSUME NEW k \in 0..n PROVE g[k] = IF k = 0 THEN start ELSE Feed(g[k - 1], in[k], room)
    <3>1. CASE k = 0
      BY <2>2, <3>1
    <3>2. CASE k # 0
      <4>1. k \in 1..n /\ k - 1 \in 0..n
        BY <1>1, <3>2
      <4>2. g[k - 1] \in D
        BY <2>2, <4>1
      <4> QED
        BY <2>2, <3>2, <4>1, <4>2
    <3> QED
      BY <3>1, <3>2
  <2>4. g = [k \in 0..n |-> g[k]]
    BY <2>2
  <2>5. Is(g)
    BY <2>3, <2>4
  <2> QED
    BY <2>5
<1>6. Is(fed)
  BY <1>5, Zenon
<1>7. ZSTD_decompressStream(held, in, room) = fed[n]
  BY Zenon DEF ZSTD_decompressStream, StartOf, start, n
<1> HIDE DEF fed
<1>8. fed[0] = start /\ \A k \in 1..n : fed[k] = Feed(fed[k - 1], in[k], room)
  <2>1. \A k \in 0..n : fed[k] = IF k = 0 THEN start ELSE Feed(fed[k - 1], in[k], room)
    BY <1>6, Zenon
  <2>2. 0 \in 0..n /\ \A k \in 1..n : k \in 0..n /\ k # 0
    BY <1>1
  <2> QED
    BY <2>1, <2>2, Zenon
<1> DEFINE S == {k \in Nat : k <= n => fed[k] \in D}
<1>9. S = Nat
  <2>1. 0 \in S
    BY <1>2, <1>8
  <2>2. ASSUME NEW k \in S PROVE k + 1 \in S
    <3>1. k \in Nat /\ (k <= n => fed[k] \in D)
      BY <2>2
    <3>2. ASSUME k + 1 <= n PROVE fed[k + 1] \in D
      <4>1. k + 1 \in 1..n /\ (k + 1) - 1 = k /\ k <= n
        BY <1>1, <3>1, <3>2
      <4>2. fed[k + 1] = Feed(fed[k], in[k + 1], room)
        BY <1>8, <4>1, Zenon
      <4> QED
        BY <1>1, <1>3, <3>1, <4>1, <4>2
    <3> QED
      BY <3>1, <3>2
  <2> QED
    BY <2>1, <2>2, SetInduction
<1>10. \A k \in 0..n : fed[k] \in D
  BY <1>1, <1>9
<1>11. Feeds(fed, held, in, room)
  BY <1>8 DEF Feeds, start, n
<1> QED
  BY <1>7, <1>10, <1>11 DEF D, n

\* ZSTD_decompressStream loses nothing: what it puts out, what it holds and what it gives
\* back is what it held and was given.
LEMMA DecompressLemma ==
  ASSUME NEW B, NEW T \in SUBSET TokensOf(B), Hostage \in T, NEW room \in Nat,
         NEW held \in Seq(B), NEW in \in Seq(T)
  PROVE  LET d == ZSTD_decompressStream(held, in, room)
         IN  /\ d \in Decompressing(B, T, room)
             /\ Contents(d) = held \o Out(in)
             /\ (\A t \in T : t.kind # "corrupt") => ~d.error
<1> DEFINE D == Decompressing(B, T, room)
           n == Len(in)
           start == StartOf(held, room)
<1>1. n \in Nat /\ \A k \in 1..n : in[k] \in T
  BY ElementOfSeq
<1>2. start \in D /\ Contents(start) = held /\ start.error = FALSE
  BY StartLemma
<1>3. \A s \in D, t \in T : /\ Feed(s, t, room) \in D /\ Contents(Feed(s, t, room)) = Contents(s) \o t.out
                            /\ ~s.error /\ t.kind # "corrupt" => ~Feed(s, t, room).error
  BY FeedLemma, SMTT(30)
<1>4. PICK fed : /\ Feeds(fed, held, in, room) /\ fed[n] = ZSTD_decompressStream(held, in, room)
                 /\ \A k \in 0..n : fed[k] \in D
  BY Feeding
<1>7. ZSTD_decompressStream(held, in, room) = fed[n]
  BY <1>4
<1>8. fed[0] = start /\ \A k \in 1..n : fed[k] = Feed(fed[k - 1], in[k], room)
  BY <1>4 DEF Feeds
<1> HIDE DEF D, start, n
<1> DEFINE Uncorrupt == \A t \in T : t.kind # "corrupt"
           P(k) == /\ fed[k] \in D
                   /\ Contents(fed[k]) = held \o Out(SubSeq(in, 1, k))
                   /\ Uncorrupt => ~fed[k].error
           S == {k \in Nat : k <= n => P(k)}
<1>9. P(0)
  <2>1. SubSeq(in, 1, 0) = << >> /\ held \o << >> = held
    OBVIOUS
  <2>2. Out(<< >>) = << >>
    BY OutFew
  <2> QED
    BY <1>2, <1>8, <2>1, <2>2, Zenon
<1>10. ASSUME NEW k \in Nat, k + 1 <= n, P(k) PROVE P(k + 1)
  <2> DEFINE s == fed[k]
             t == in[k + 1]
             u == SubSeq(in, 1, k)
             v == SubSeq(in, 1, k + 1)
  <2>1. k + 1 \in 1..n /\ (k + 1) - 1 = k
    BY <1>1, <1>10
  <2>2. fed[k + 1] = Feed(s, t, room)
    BY <1>8, <2>1, Zenon
  <2>3. s \in D /\ t \in T /\ Contents(s) = held \o Out(u) /\ (Uncorrupt => ~s.error)
    BY <1>1, <1>10, <2>1
  <2>4. u \in Seq(T) /\ v = u \o <<t>> /\ <<t>> \in Seq(T)
    BY <1>1, <2>1 DEF n
  <2> HIDE DEF s, t, u, v
  <2>5. t \in TokensOf(B) /\ u \in Seq(TokensOf(B)) /\ <<t>> \in Seq(TokensOf(B)) /\ t.out \in Seq(B)
    <3>1. \A x \in T : x \in TokensOf(B) /\ x.out \in Seq(B)
      BY DEF TokensOf
    <3>2. \A x \in Seq(T) : x \in Seq(TokensOf(B))
      OBVIOUS
    <3> QED
      BY <2>3, <2>4, <3>1, <3>2, Zenon
  <2>6. Out(u) \in Seq(B) /\ Out(v) = Out(u) \o t.out
    <3>1. Out(u) \in Seq(B) /\ Out(u \o <<t>>) = Out(u) \o Out(<<t>>)
      BY <2>5, OutParts
    <3>2. Out(<<t>>) = t.out
      BY <2>5, OutFew
    <3> QED
      BY <2>4, <3>1, <3>2
  <2>7. (held \o Out(u)) \o t.out = held \o (Out(u) \o t.out)
    <3>1. \A x, y, z \in Seq(B) : (x \o y) \o z = x \o (y \o z)
      BY ConcatAssociative
    <3> QED
      BY <2>5, <2>6, <3>1, Zenon
  <2>8. Feed(s, t, room) \in D /\ Contents(Feed(s, t, room)) = Contents(s) \o t.out
    BY <1>3, <2>3, Zenon
  <2>9. Uncorrupt => ~Feed(s, t, room).error
    BY <1>3, <2>3, Zenon
  <2> QED
    BY <2>2, <2>3, <2>6, <2>7, <2>8, <2>9, Zenon DEF v
<1> HIDE DEF P
<1>11. S = Nat
  <2>1. 0 \in S
    BY <1>9
  <2>2. ASSUME NEW k \in S PROVE k + 1 \in S
    BY <1>1, <1>10, <2>2
  <2> QED
    BY <2>1, <2>2, SetInduction
<1>12. P(n)
  BY <1>1, <1>11
<1>13. SubSeq(in, 1, n) = in
  BY DEF n
<1> QED
  BY <1>7, <1>12, <1>13, Zenon DEF P, D

\* Bytes in five places, one behind the other.
Cat(x, y) == x \o y
Flow(b, h, u, w, s) == Cat(Cat(Cat(Cat(b, h), u), w), s)

\* The bytes h, u and n have become o, hh and uu.
Moves(B, o, hh, uu, h, u, n) ==
  /\ o \in Seq(B) /\ hh \in Seq(B) /\ uu \in Seq(B) /\ h \in Seq(B) /\ u \in Seq(B) /\ n \in Seq(B)
  /\ Cat(Cat(o, hh), uu) = Cat(Cat(h, u), n)

\* Bytes that move from place to place keep their order.
LEMMA FlowMoves ==
  ASSUME NEW B
  PROVE  \A b, o, hh, uu, ww, h, u, n, s : 
           Moves(B, o, hh, uu, h, u, n) /\ b \in Seq(B) /\ ww \in Seq(B) /\ s \in Seq(B)
             => Flow(Cat(b, o), hh, uu, ww, s) = Flow(b, h, u, Cat(n, ww), s)
<1> DEFINE X == Seq(B)
<1>1. \A x, y, z \in X : Cat(Cat(x, y), z) = Cat(x, Cat(y, z))
  BY ConcatAssociative DEF Cat
<1>2. \A x, y \in X : Cat(x, y) \in X
  BY DEF Cat
<1> HIDE DEF X
<1> SUFFICES ASSUME NEW b, NEW o, NEW hh, NEW uu, NEW ww, NEW h, NEW u, NEW n, NEW s,
                    Moves(B, o, hh, uu, h, u, n) /\ b \in X /\ ww \in X /\ s \in X
             PROVE  Flow(Cat(b, o), hh, uu, ww, s) = Flow(b, h, u, Cat(n, ww), s)
  BY Zenon DEF X
<1>3. /\ b \in X /\ o \in X /\ hh \in X /\ uu \in X /\ ww \in X /\ h \in X /\ u \in X /\ n \in X /\ s \in X
      /\ Cat(Cat(o, hh), uu) = Cat(Cat(h, u), n)
  BY Zenon DEF X, Moves
<1>4. Cat(Cat(Cat(Cat(Cat(b, o), hh), uu), ww), s) = Cat(Cat(Cat(Cat(b, h), u), Cat(n, ww)), s)
  <2>1. Cat(Cat(Cat(b, o), hh), uu) = Cat(b, Cat(Cat(o, hh), uu))
    <3>1. Cat(Cat(b, o), hh) = Cat(b, Cat(o, hh)) /\ Cat(o, hh) \in X
      BY <1>1, <1>2, <1>3
    <3> QED
      BY <1>1, <1>3, <3>1
  <2>2. Cat(b, Cat(Cat(h, u), n)) = Cat(Cat(Cat(b, h), u), n)
    <3>1. Cat(Cat(b, h), u) = Cat(b, Cat(h, u)) /\ Cat(h, u) \in X
      BY <1>1, <1>2, <1>3
    <3> QED
      BY <1>1, <1>3, <3>1
  <2>3. Cat(Cat(Cat(Cat(b, h), u), n), ww) = Cat(Cat(Cat(b, h), u), Cat(n, ww))
    <3>1. Cat(Cat(b, h), u) \in X
      BY <1>2, <1>3
    <3> QED
      BY <1>1, <1>3, <3>1
  <2> QED
    BY <1>3, <2>1, <2>2, <2>3
<1> QED
  BY <1>4, Zenon DEF Flow

\* Bytes of one place belong to the next as well.
LEMMA FlowShifts ==
  ASSUME NEW B
  PROVE  \A b, h, u, w, x, s \in Seq(B) : Flow(b, h, u, Cat(w, x), s) = Flow(b, h, u, w, Cat(x, s))
<1> DEFINE X == Seq(B)
<1>1. \A x, y, z \in X : Cat(Cat(x, y), z) = Cat(x, Cat(y, z))
  BY ConcatAssociative DEF Cat
<1>2. \A x, y \in X : Cat(x, y) \in X
  BY DEF Cat
<1> HIDE DEF X
<1>3. \A y, w, x, s \in X : Cat(Cat(y, Cat(w, x)), s) = Cat(Cat(y, w), Cat(x, s))
  <2> SUFFICES ASSUME NEW y \in X, NEW w \in X, NEW x \in X, NEW s \in X
               PROVE  Cat(Cat(y, Cat(w, x)), s) = Cat(Cat(y, w), Cat(x, s))
    OBVIOUS
  <2>1. Cat(y, Cat(w, x)) = Cat(Cat(y, w), x) /\ Cat(y, w) \in X
    BY <1>1, <1>2
  <2> QED
    BY <1>1, <2>1
<1>4. \A b, h, u, w, x, s \in X :
        Cat(Cat(Cat(Cat(b, h), u), Cat(w, x)), s) = Cat(Cat(Cat(Cat(b, h), u), w), Cat(x, s))
  <2> SUFFICES ASSUME NEW b \in X, NEW h \in X, NEW u \in X, NEW w \in X, NEW x \in X, NEW s \in X
               PROVE  Cat(Cat(Cat(Cat(b, h), u), Cat(w, x)), s)
                        = Cat(Cat(Cat(Cat(b, h), u), w), Cat(x, s))
    OBVIOUS
  <2>1. Cat(Cat(b, h), u) \in X
    BY <1>2
  <2> QED
    BY <1>3, <2>1
<1> QED
  BY <1>4, Zenon DEF X, Flow

\* A round of ReadSome's loop loses nothing.
StreamOf(z, B, T) == z.unread \in Seq(T) /\ z.held \in Seq(B)
RoundOf(r, z, new, room, B, T) ==
  /\ Len(r.out) <= room
  /\ StreamOf(r.z, B, T) /\ r.z.suggestion \in {0, 1}
  /\ Moves(B, r.out, r.z.held, Out(r.z.unread), z.held, Out(z.unread), Out(new))
  /\ (\A t \in T : t.kind # "corrupt") => ~r.error
  /\ r.error \in BOOLEAN /\ (r.again => r.out = << >>)

\* A round hands on, keeps or still has to decompress every byte, and fails on a corrupt
\* frame only.
LEMMA RoundLemma ==
  ASSUME NEW B, NEW T \in SUBSET TokensOf(B), Hostage \in T, NEW room \in Nat,
         NEW z, StreamOf(z, B, T), NEW new \in Seq(T)
  PROVE  RoundOf(ReadSomeStep(z, new, room), z, new, room, B, T)
<1> DEFINE in == z.unread \o new
           d == ZSTD_decompressStream(z.held, in, room)
           r == ReadSomeStep(z, new, room)
           whole == (z.held \o Out(z.unread)) \o Out(new)
           Uncorrupt == \A t \in T : t.kind # "corrupt"
<1>1. z.unread \in Seq(T) /\ z.held \in Seq(B) /\ in \in Seq(T)
  BY ConcatParts DEF StreamOf
<1>2. \A u \in Seq(T) : u \in Seq(TokensOf(B))
  OBVIOUS
<1>3. Out(z.unread) \in Seq(B) /\ Out(new) \in Seq(B) /\ Out(in) = Out(z.unread) \o Out(new)
  BY <1>1, <1>2, OutParts
<1>4. whole = z.held \o Out(in)
  <2>1. \A x, y, w \in Seq(B) : (x \o y) \o w = x \o (y \o w)
    BY ConcatAssociative, SMTT(30)
  <2>2. whole = z.held \o (Out(z.unread) \o Out(new))
    BY <1>1, <1>3, <2>1
  <2> QED
    BY <1>3, <2>2, Zenon
<1> HIDE DEF r
<1>5. ASSUME in = << >> PROVE RoundOf(r, z, new, room, B, T)
  <2>1. r = [z |-> [unread |-> << >>, held |-> z.held, suggestion |-> 1], out |-> << >>,
             error |-> FALSE, again |-> FALSE]
    BY <1>5 DEF ReadSomeStep, r
  <2> HIDE DEF whole
  <2>2. /\ r.out = << >> /\ r.z.held = z.held /\ r.z.unread = << >> /\ r.z.suggestion = 1
        /\ r.error = FALSE /\ r.again = FALSE
    BY <2>1
  <2>3. << >> \in Seq(B) /\ << >> \in Seq(T) /\ Len(<< >>) <= room
    OBVIOUS
  <2>4. << >> \o z.held = z.held
    BY <1>1
  <2>5. (r.out \o r.z.held) \o Out(r.z.unread) = whole
    BY <1>4, <1>5, <2>2, <2>4, Zenon
  <2>6. Out(<< >>) \in Seq(B)
    BY <1>2, <2>3, OutParts
  <2>7. Moves(B, r.out, r.z.held, Out(r.z.unread), z.held, Out(z.unread), Out(new))
    BY <1>1, <1>3, <2>2, <2>3, <2>5, <2>6, Zenon DEF Moves, Cat, whole
  <2>8. StreamOf(r.z, B, T) /\ Len(r.out) <= room /\ r.z.suggestion \in {0, 1}
    BY <1>1, <2>2, <2>3 DEF StreamOf
  <2> QED
    BY <2>2, <2>7, <2>8 DEF RoundOf
<1>6. ASSUME in # << >> PROVE RoundOf(r, z, new, room, B, T)
  <2>1. d \in Decompressing(B, T, room) /\ Contents(d) = z.held \o Out(in) /\ (Uncorrupt => ~d.error)
    BY <1>1, DecompressLemma, ZenonT(60)
  <2>2. r = [z |-> [unread |-> d.unread, held |-> d.held, suggestion |-> IF d.ended THEN 0 ELSE 1],
             out |-> d.out, error |-> TRUE /\ d.error,
             again |-> TRUE /\ d.out = << >> /\ new # << >>]
    <3>1. (in = << >>) = FALSE /\ (~(in = << >>)) = TRUE
      BY <1>6
    <3> HIDE DEF d, in
    <3>2. r = [z |-> [unread |-> IF in = << >> THEN << >> ELSE d.unread,
                      held |-> IF in = << >> THEN z.held ELSE d.held,
                      suggestion |-> IF ~(in = << >>) /\ d.ended THEN 0 ELSE 1],
               out |-> IF in = << >> THEN << >> ELSE d.out,
               error |-> ~(in = << >>) /\ d.error,
               again |-> ~(in = << >>) /\ d.out = << >> /\ new # << >>]
      BY Zenon DEF ReadSomeStep, d, in, r
    <3> QED
      BY <3>1, <3>2
  <2> HIDE DEF d, whole, Uncorrupt
  <2>3. /\ d.out \in Seq(B) /\ d.held \in Seq(B) /\ d.unread \in Seq(T) /\ d.error \in BOOLEAN
        /\ Len(d.out) <= room
    BY <2>1 DEF Decompressing
  <2>4. /\ r.out = d.out /\ r.z.held = d.held /\ r.z.unread = d.unread /\ r.error = d.error
        /\ r.z.suggestion \in {0, 1} /\ (r.again => r.out = << >>)
    BY <2>2, <2>3
  <2>5. (r.out \o r.z.held) \o Out(r.z.unread) = whole
    BY <1>4, <2>1, <2>4, Zenon DEF Contents
  <2>6. StreamOf(r.z, B, T)
    BY <2>3, <2>4 DEF StreamOf
  <2>7. Out(r.z.unread) \in Seq(B)
    BY <1>2, <2>3, <2>4, OutParts
  <2>8. Moves(B, r.out, r.z.held, Out(r.z.unread), z.held, Out(z.unread), Out(new))
    BY <1>1, <1>3, <2>3, <2>4, <2>5, <2>7, Zenon DEF Moves, Cat, whole
  <2> QED
    BY <2>1, <2>3, <2>4, <2>6, <2>8, Zenon DEF RoundOf, Uncorrupt
<1> QED
  BY <1>5, <1>6 DEF r

\* Tokens that hold a byte each.
SingleBytes(w) == \A i \in 1..Len(w) : Len(w[i].out) = 1

\* They decompress to these bytes.
LEMMA OutPlain ==
  ASSUME NEW B, NEW w \in Seq(TokensOf(B)), SingleBytes(w),
         NEW n \in 0..Len(w)
  PROVE  Out(SubSeq(w, 1, n)) = [i \in 1..n |-> w[i].out[1]]
<1> DEFINE W(k) == SubSeq(w, 1, k)
           X(k) == [i \in 1..k |-> w[i].out[1]]
           P(k) == Out(W(k)) = X(k)
           S == {k \in Nat : k <= Len(w) => P(k)}
<1>0. Len(w) \in Nat /\ \A i \in 1..Len(w) : w[i] \in TokensOf(B)
  BY ElementOfSeq
<1>1. P(0)
  <2>1. W(0) = << >> /\ X(0) = << >>
    OBVIOUS
  <2>2. Hostage \in TokensOf(B)
    <3>1. << >> \in Seq(B)
      OBVIOUS
    <3> QED
      BY <3>1 DEF Hostage, Token, TokensOf, Kinds
  <2>3. Out(<< >>) = << >>
    BY <2>2, OutFew
  <2> QED
    BY <2>1, <2>3
<1>2. ASSUME NEW k \in Nat, k + 1 <= Len(w), P(k) PROVE P(k + 1)
  <2> DEFINE t == w[k + 1]
  <2>1. k + 1 \in 1..Len(w) /\ k \in 0..Len(w) /\ k + 1 \in 0..Len(w)
    BY <1>0, <1>2
  <2>2. t \in TokensOf(B) /\ Len(t.out) = 1
    BY <1>0, <2>1 DEF SingleBytes
  <2>3. W(k) \in Seq(TokensOf(B)) /\ <<t>> \in Seq(TokensOf(B)) /\ W(k + 1) = W(k) \o <<t>>
    BY <1>0, <2>1, <2>2
  <2>4. t.out \in Seq(B)
    BY <2>2 DEF TokensOf
  <2>5. t.out = <<t.out[1]>>
    <3> DEFINE o == t.out
    <3>1. o \in Seq(B) /\ Len(o) = 1
      BY <2>2, <2>4
    <3> HIDE DEF o
    <3>2. o = <<o[1]>>
      BY <3>1
    <3> QED
      BY <3>2 DEF o
  <2>6. X(k + 1) = X(k) \o <<t.out[1]>>
    <3>1. X(k) \in Seq({w[i].out[1] : i \in 1..Len(w)}) /\ Len(X(k)) = k
      <4> DEFINE O == {w[i].out[1] : i \in 1..Len(w)}
      <4>1. X(k) \in [1..k -> O]
        BY <1>0, <2>1
      <4> HIDE DEF X, O
      <4>2. X(k) \in Seq(O) /\ Len(X(k)) = k
        BY <4>1, FunctionSeq
      <4> QED
        BY <4>2 DEF O
    <3>2. X(k + 1) = Append(X(k), t.out[1])
      BY <2>1, <3>1
    <3> QED
      BY <3>1, <3>2
  <2> HIDE DEF W, X, t
  <2>7. Out(W(k + 1)) = Out(W(k)) \o Out(<<t>>)
    BY <2>3, OutParts
  <2>8. Out(<<t>>) = t.out
    BY <2>2, OutFew
  <2>9. Out(W(k)) = X(k)
    BY <1>2
  <2> QED
    BY <2>5, <2>6, <2>7, <2>8, <2>9, Zenon
<1> HIDE DEF P
<1>3. S = Nat
  <2>1. 0 \in S
    BY <1>1
  <2>2. ASSUME NEW k \in S PROVE k + 1 \in S
    BY <1>0, <1>2, <2>2
  <2> QED
    BY <2>1, <2>2, SetInduction
<1>4. P(n)
  BY <1>0, <1>3
<1> QED
  BY <1>4 DEF P

-----------------------------------------------------------------------------
(* Bytes on their way through a decompressor.                              *)

\* What tokens decompress to, in parts.
LEMMA TokenParts ==
  ASSUME NEW B, NEW T \in SUBSET TokensOf(B)
  PROVE  /\ \A u \in Seq(T) : Out(u) \in Seq(B)
         /\ \A u, v \in Seq(T) : Out(Cat(u, v)) = Cat(Out(u), Out(v))
         /\ Out(<< >>) = << >>
<1>1. \A u \in Seq(T) : u \in Seq(TokensOf(B))
  OBVIOUS
<1>2. \A u, v \in Seq(TokensOf(B)) : Out(u) \in Seq(B) /\ Out(u \o v) = Out(u) \o Out(v)
  BY OutParts
<1>3. Out(<< >>) = << >>
  BY DEF Out, FlattenSeq
<1> QED
  BY <1>1, <1>2, <1>3, Zenon DEF Cat

\* Concatenation, in any grouping.
LEMMA CatFacts ==
  ASSUME NEW B
  PROVE  /\ \A x, y \in Seq(B) : Cat(x, y) \in Seq(B)
         /\ \A x, y, z \in Seq(B) : Cat(x, Cat(y, z)) = Cat(Cat(x, y), z)
<1>1. \A x, y, z \in Seq(B) : (x \o y) \o z = x \o (y \o z)
  BY ConcatAssociative
<1>2. \A x, y \in Seq(B) : x \o y \in Seq(B)
  OBVIOUS
<1> QED
  BY <1>1, <1>2, Zenon DEF Cat

\* The first token of a sequence, and the rest.
LEMMA FirstToken ==
  ASSUME NEW T, NEW w \in Seq(T)
  PROVE  /\ w # << >> => <<w[1]>> \in Seq(T) /\ SubSeq(w, 2, Len(w)) \in Seq(T)
                         /\ w = <<w[1]>> \o SubSeq(w, 2, Len(w))
         /\ w = << >> => SubSeq(w, 2, Len(w)) = << >>
<1>1. CASE w # << >>
  <2>1. Len(w) \in Nat /\ Len(w) # 0 /\ 1 \in 0..Len(w)
    BY <1>1, EmptySeq
  <2>2. SubSeq(w, 1, 1) \o SubSeq(w, 1 + 1, Len(w)) = w /\ SubSeq(w, 1 + 1, Len(w)) \in Seq(T)
    BY <2>1, TakeDrop, Rejoined
  <2>3. w[1] \in T
    BY <2>1, ElementOfSeq
  <2> DEFINE k == <<w[1]>>
             f == SubSeq(w, 1, 1)
  <2>4. f \in Seq(T) /\ Len(f) = 1 /\ f[1] = w[1]
    BY <2>1
  <2>5. k \in Seq(T) /\ Len(k) = 1 /\ k[1] = w[1]
    BY <2>3
  <2>6. f = k
    <3> HIDE DEF f, k
    <3>1. \A i \in 1..Len(f) : f[i] = k[i]
      BY <2>4, <2>5
    <3> QED
      BY <2>4, <2>5, <3>1, SeqEqual
  <2>7. SubSeq(w, 1 + 1, Len(w)) = SubSeq(w, 2, Len(w))
    OBVIOUS
  <2> QED
    BY <1>1, <2>2, <2>5, <2>6, <2>7
<1>2. CASE w = << >>
  BY <1>2
<1> QED
  BY <1>1, <1>2

\* c is what its reader has, x, what the decompressor z holds, what is on the wire and what
\* is still to be sent, in this order.
InPlace(x, z, w, s, B, T, c) ==
  /\ x \in Seq(B) /\ w \in Seq(T) /\ s \in Seq(T) /\ StreamOf(z, B, T)
  /\ Flow(x, z.held, Out(z.unread), Out(w), Out(s)) = c

\* A round of the decompressor's loop moves bytes from the wire to the reader.
LEMMA InPlaceRound ==
  ASSUME NEW B, NEW T \in SUBSET TokensOf(B), Hostage \in T, NEW x, NEW z, NEW s, NEW c,
         NEW new \in Seq(T), NEW ww \in Seq(T), InPlace(x, z, Cat(new, ww), s, B, T, c),
         NEW room \in Nat, NEW r, r = ReadSomeStep(z, new, room)
  PROVE  /\ InPlace(Cat(x, r.out), r.z, ww, s, B, T, c)
         /\ r.out \in Seq(B) /\ Len(r.out) <= room /\ r.z.suggestion \in {0, 1}
         /\ (\A t \in T : t.kind # "corrupt") => ~r.error
         /\ r.again => r.out = << >>
<1> DEFINE o == r.out
           hh == r.z.held
           uu == Out(r.z.unread)
           h == z.held
           u == Out(z.unread)
           n == Out(new)
<1>1. x \in Seq(B) /\ s \in Seq(T) /\ StreamOf(z, B, T)
  BY DEF InPlace
<1>2. Flow(x, h, u, Out(Cat(new, ww)), Out(s)) = c
  BY DEF InPlace
<1>3. RoundOf(r, z, new, room, B, T)
  BY <1>1, RoundLemma
<1> HIDE DEF o, hh, uu, h, u, n
<1>4. /\ Moves(B, o, hh, uu, h, u, n) /\ Len(o) <= room /\ StreamOf(r.z, B, T)
      /\ r.z.suggestion \in {0, 1} /\ ((\A t \in T : t.kind # "corrupt") => ~r.error)
      /\ (r.again => o = << >>)
  BY <1>3, Zenon DEF RoundOf, o, hh, uu, h, u, n
<1>5. o \in Seq(B)
  BY <1>4 DEF Moves
<1>6. Out(ww) \in Seq(B) /\ Out(s) \in Seq(B) /\ Out(Cat(new, ww)) = Cat(n, Out(ww))
  BY <1>1, TokenParts DEF n
<1>7. Cat(x, o) \in Seq(B)
  BY <1>1, <1>5, CatFacts
<1>8. Flow(Cat(x, o), hh, uu, Out(ww), Out(s)) = Flow(x, h, u, Cat(n, Out(ww)), Out(s))
  BY <1>1, <1>4, <1>6, FlowMoves
<1>9. Flow(Cat(x, o), hh, uu, Out(ww), Out(s)) = c
  BY <1>2, <1>6, <1>8
<1>10. InPlace(Cat(x, o), r.z, ww, s, B, T, c)
  BY <1>1, <1>4, <1>7, <1>9 DEF InPlace, hh, uu
<1> QED
  BY <1>4, <1>5, <1>10 DEF o

\* A read of bytes that are not compressed moves them to the reader.
FirstBytes(w, n) == [i \in 1..n |-> w[i].out[1]]

\* The reader has them in place, and the rest follows.
LEMMA InPlacePlain ==
  ASSUME NEW B, NEW T \in SUBSET TokensOf(B), NEW x, NEW z, NEW w, NEW s, NEW c,
         InPlace(x, z, w, s, B, T, c), z.held = << >>, z.unread = << >>,
         SingleBytes(w), NEW n \in 0..Len(w)
  PROVE  /\ InPlace(Cat(x, FirstBytes(w, n)), z, SubSeq(w, n + 1, Len(w)), s, B, T, c)
         /\ FirstBytes(w, n) \in Seq(B) /\ Len(FirstBytes(w, n)) = n
<1> DEFINE o == FirstBytes(w, n)
           new == SubSeq(w, 1, n)
           ww == SubSeq(w, n + 1, Len(w))
<1>1. x \in Seq(B) /\ s \in Seq(T) /\ w \in Seq(T) /\ StreamOf(z, B, T)
  BY DEF InPlace
<1>2. Flow(x, << >>, << >>, Out(w), Out(s)) = c
  BY TokenParts DEF InPlace
<1>3. w \in Seq(TokensOf(B)) /\ Len(w) \in Nat
  BY <1>1
<1>4. Out(new) = o
  BY <1>3, OutPlain DEF FirstBytes
<1>5. new \in Seq(T) /\ ww \in Seq(T)
  BY <1>1, TakeDrop
<1>6. Cat(new, ww) = w
  BY <1>1, Rejoined DEF Cat
<1>7. Len(o) = n
  <2>1. n \in Nat /\ o \in [1..n -> {w[i].out[1] : i \in 1..n}]
    BY <1>3 DEF FirstBytes
  <2> QED
    BY <2>1, FunctionSeq
<1> HIDE DEF o, new, ww
<1>8. o \in Seq(B) /\ Out(ww) \in Seq(B) /\ Out(s) \in Seq(B) /\ Out(w) = Cat(o, Out(ww))
  BY <1>1, <1>4, <1>5, <1>6, TokenParts
<1>9. Cat(x, o) \in Seq(B)
  BY <1>1, <1>8, CatFacts
<1>10. Flow(Cat(x, o), << >>, << >>, Out(ww), Out(s)) = Flow(x, << >>, << >>, Cat(o, Out(ww)), Out(s))
  <2>1. << >> \in Seq(B) /\ Cat(Cat(o, << >>), << >>) = Cat(Cat(<< >>, << >>), o)
    BY <1>8 DEF Cat
  <2>2. Moves(B, o, << >>, << >>, << >>, << >>, o)
    BY <1>8, <2>1 DEF Moves
  <2> QED
    BY <1>1, <1>8, <2>2, FlowMoves
<1>11. Flow(Cat(x, o), z.held, Out(z.unread), Out(ww), Out(s)) = c
  BY <1>2, <1>8, <1>10, TokenParts
<1>12. InPlace(Cat(x, o), z, ww, s, B, T, c)
  BY <1>1, <1>5, <1>9, <1>11 DEF InPlace
<1> QED
  BY <1>7, <1>8, <1>12 DEF o, ww

\* A token that is sent is on the wire.
LEMMA InPlaceSend ==
  ASSUME NEW B, NEW T \in SUBSET TokensOf(B), NEW x, NEW z, NEW w, NEW s, NEW c,
         InPlace(x, z, w, s, B, T, c), s # << >>
  PROVE  InPlace(x, z, Append(w, s[1]), SubSeq(s, 2, Len(s)), B, T, c)
<1> DEFINE k == <<s[1]>>
           ss == SubSeq(s, 2, Len(s))
<1>1. x \in Seq(B) /\ w \in Seq(T) /\ s \in Seq(T) /\ StreamOf(z, B, T)
  BY DEF InPlace
<1>2. Flow(x, z.held, Out(z.unread), Out(w), Out(s)) = c
  BY DEF InPlace
<1>3. k \in Seq(T) /\ ss \in Seq(T) /\ s = Cat(k, ss)
  BY <1>1, FirstToken DEF Cat
<1>4. Append(w, s[1]) = Cat(w, k) /\ Cat(w, k) \in Seq(T)
  <2>1. Len(s) \in Nat /\ Len(s) # 0
    BY <1>1, EmptySeq
  <2>2. s[1] \in T
    BY <1>1, <2>1, ElementOfSeq
  <2> QED
    BY <1>1, <1>3, <2>2 DEF Cat
<1> HIDE DEF k, ss
<1>5. /\ Out(k) \in Seq(B) /\ Out(ss) \in Seq(B) /\ Out(w) \in Seq(B)
      /\ Out(s) = Cat(Out(k), Out(ss)) /\ Out(Cat(w, k)) = Cat(Out(w), Out(k))
  BY <1>1, <1>3, TokenParts
<1>6. z.held \in Seq(B) /\ Out(z.unread) \in Seq(B)
  BY <1>1, TokenParts DEF StreamOf
<1>7. Flow(x, z.held, Out(z.unread), Cat(Out(w), Out(k)), Out(ss))
        = Flow(x, z.held, Out(z.unread), Out(w), Cat(Out(k), Out(ss)))
  BY <1>1, <1>5, <1>6, FlowShifts, SMTT(30)
<1>8. Flow(x, z.held, Out(z.unread), Out(Cat(w, k)), Out(ss)) = c
  BY <1>2, <1>5, <1>7
<1> QED
  BY <1>1, <1>3, <1>4, <1>8 DEF InPlace, ss

\* The bytes read to detect a compression are the decompressor's first.
LEMMA InPlaceDetected ==
  ASSUME NEW B, NEW T \in SUBSET TokensOf(B), NEW x, NEW z, NEW w, NEW s, NEW c,
         InPlace(x, z, w, s, B, T, c), z.held = << >>, z.unread = << >>, w # << >>
  PROVE  InPlace(x, NewZstd(<<w[1]>>), SubSeq(w, 2, Len(w)), s, B, T, c)
<1> DEFINE t == <<w[1]>>
           ww == SubSeq(w, 2, Len(w))
           n == NewZstd(t)
           e == << >>
<1>1. x \in Seq(B) /\ w \in Seq(T) /\ s \in Seq(T)
  BY DEF InPlace
<1>2. t \in Seq(T) /\ ww \in Seq(T) /\ w = Cat(t, ww)
  BY <1>1, FirstToken DEF Cat
<1>3. n.held = e /\ n.unread = t
  BY DEF NewZstd
<1> HIDE DEF t, ww, n
<1>4. /\ Out(t) \in Seq(B) /\ Out(ww) \in Seq(B) /\ Out(s) \in Seq(B) /\ e \in Seq(B)
      /\ Out(w) = Cat(Out(t), Out(ww)) /\ Out(<< >>) = << >>
  BY <1>1, <1>2, TokenParts
<1>5. Flow(x, e, e, Cat(Out(t), Out(ww)), Out(s)) = c
  BY <1>4 DEF InPlace
<1>6. Cat(x, e) = x
  BY <1>1 DEF Cat
<1> HIDE DEF e
<1>7. Moves(B, e, e, Out(t), e, e, Out(t))
  BY <1>4 DEF Moves
<1>8. Flow(Cat(x, e), e, Out(t), Out(ww), Out(s)) = Flow(x, e, e, Cat(Out(t), Out(ww)), Out(s))
  BY <1>1, <1>4, <1>7, FlowMoves
<1>9. Flow(x, n.held, Out(n.unread), Out(ww), Out(s)) = c
  BY <1>3, <1>5, <1>6, <1>8
<1>10. StreamOf(n, B, T)
  BY <1>2, <1>3, <1>4 DEF StreamOf
<1>11. InPlace(x, n, ww, s, B, T, c)
  BY <1>1, <1>2, <1>9, <1>10 DEF InPlace
<1> QED
  BY <1>11 DEF n, t, ww

-----------------------------------------------------------------------------
(* Where in its input a decompressor is.                                   *)

\* A frame, or the input, begins behind token p.
AtFrame(ts, p) == p = 0 \/ ts[p].last
Behind(ts, p) == SubSeq(ts, p + 1, Len(ts))

\* libzstd has taken p tokens of ts; rest is to come, behind the byte g it gave back.
TailOf(ts, p, g, held, unread, rest) ==
  /\ p \in 0..Len(ts) /\ g \in {<< >>, <<Hostage>>} /\ rest = Cat(g, Behind(ts, p))
  /\ g # << >> => held # << >> /\ unread # << >> /\ AtFrame(ts, p)
  /\ held # << >> => p # 0 /\ (ts[p].last => g # << >>)
  /\ held = << >> /\ unread # << >> => AtFrame(ts, p)

\* A frame of ts is over, and the stream holds nothing of it; rest is behind it.
FrameOver(ts, held, rest) ==
  held = << >> /\ \E p \in 1..Len(ts) : ts[p].last /\ rest = Behind(ts, p)

\* The same in a call that was given k tokens.
FedTo(ts, p, g, s, k, rest) ==
  /\ p \in 0..Len(ts) /\ g \in {<< >>, <<Hostage>>} /\ rest = Cat(g, Behind(ts, p))
  /\ g # << >> => p # 0 /\ AtFrame(ts, p) /\ ((s.held # << >> /\ s.unread # << >>) \/ k = 0)
  /\ s.held # << >> => p # 0 /\ (ts[p].last => g # << >>)
  /\ s.held = << >> /\ s.unread # << >> => AtFrame(ts, p)
  /\ s.ended => p # 0 /\ AtFrame(ts, p) /\ g = << >> /\ s.held = << >>

\* A sequence behind its first element.
LEMMA FirstFacts ==
  ASSUME NEW T, NEW a \in T, NEW x \in Seq(T)
  PROVE  /\ Cat(<<a>>, x) \in Seq(T) /\ Len(Cat(<<a>>, x)) = 1 + Len(x)
         /\ Cat(<<a>>, x)[1] = a /\ \A i \in 1..Len(x) : Cat(<<a>>, x)[1 + i] = x[i]
<1> DEFINE o == <<a>>
<1>1. o \in Seq(T) /\ Len(o) = 1 /\ o[1] = a
  OBVIOUS
<1> HIDE DEF o
<1>2. /\ o \o x \in Seq(T) /\ Len(o \o x) = Len(o) + Len(x)
      /\ \A i \in 1..Len(o) : (o \o x)[i] = o[i]
      /\ \A i \in 1..Len(x) : (o \o x)[Len(o) + i] = x[i]
  <2>1. \A u, v \in Seq(T) : /\ u \o v \in Seq(T) /\ Len(u \o v) = Len(u) + Len(v)
                             /\ \A i \in 1..Len(u) : (u \o v)[i] = u[i]
                             /\ \A i \in 1..Len(v) : (u \o v)[Len(u) + i] = v[i]
    BY ConcatParts, SMTT(30)
  <2>2. o \in Seq(T)
    BY <1>1
  <2> QED
    BY <2>1, <2>2, ZenonT(60)
<1> QED
  BY <1>1, <1>2 DEF o, Cat

\* Equal sequences have the same first element and the same rest.
LEMMA FirstSame ==
  ASSUME NEW T, NEW a \in T, NEW b \in T, NEW x \in Seq(T), NEW y \in Seq(T),
         Cat(<<a>>, x) = Cat(<<b>>, y)
  PROVE  a = b /\ x = y
<1> DEFINE u == Cat(<<a>>, x)
           v == Cat(<<b>>, y)
<1>0. /\ Len(v) = 1 + Len(y) /\ v[1] = b /\ \A i \in 1..Len(y) : v[1 + i] = y[i]
  BY FirstFacts DEF Cat
<1>1. /\ Len(u) = 1 + Len(x) /\ u[1] = a /\ \A i \in 1..Len(x) : u[1 + i] = x[i]
  BY FirstFacts DEF Cat
<1>2. u = v /\ Len(x) \in Nat /\ Len(y) \in Nat
  OBVIOUS
<1> HIDE DEF u, v
<1>3. a = b /\ Len(x) = Len(y) /\ \A i \in 1..Len(x) : x[i] = y[i]
  BY <1>0, <1>1, <1>2
<1> QED
  BY <1>3, SeqEqual

\* A sequence that begins with t is t and what is behind it.
LEMMA BehindOne ==
  ASSUME NEW T, NEW ts \in Seq(T), NEW p \in 0..Len(ts), NEW t \in T, NEW more \in Seq(T),
         Cat(<<t>>, more) = Behind(ts, p)
  PROVE  p < Len(ts) /\ p + 1 \in 0..Len(ts) /\ t = ts[p + 1] /\ more = Behind(ts, p + 1)
<1> DEFINE b == Behind(ts, p)
           c == <<t>> \o more
           d == Behind(ts, p + 1)
<1>1. Len(ts) \in Nat /\ p \in Nat /\ p <= Len(ts) /\ Len(more) \in Nat
  OBVIOUS
<1>2. /\ b \in Seq(T) /\ Len(b) = Len(ts) - p /\ \A i \in 1..(Len(ts) - p) : b[i] = ts[p + i]
  BY TakeDrop DEF Behind
<1>3. /\ Len(c) = 1 + Len(more) /\ c[1] = t /\ \A i \in 1..Len(more) : c[1 + i] = more[i]
  BY FirstFacts DEF Cat
<1>4. c = b
  BY DEF Cat
<1> HIDE DEF b, c, d
<1>5. Len(ts) - p = 1 + Len(more)
  BY <1>2, <1>3, <1>4
<1>6. p < Len(ts) /\ p + 1 \in 0..Len(ts) /\ 1 \in 1..(Len(ts) - p)
  BY <1>1, <1>5
<1>7. t = ts[p + 1]
  BY <1>2, <1>3, <1>4, <1>6
<1>8. /\ d \in Seq(T) /\ Len(d) = Len(ts) - (p + 1)
      /\ \A i \in 1..(Len(ts) - (p + 1)) : d[i] = ts[(p + 1) + i]
  BY <1>6, TakeDrop DEF Behind, d
<1>9. ASSUME NEW i \in 1..Len(more) PROVE more[i] = d[i]
  <2>1. 1 + i \in 1..(Len(ts) - p) /\ i \in 1..(Len(ts) - (p + 1)) /\ p + (1 + i) = (p + 1) + i
    BY <1>1, <1>5
  <2>2. more[i] = ts[p + (1 + i)]
    BY <1>2, <1>3, <1>4, <2>1
  <2> QED
    BY <1>8, <2>1, <2>2
<1>10. more = d
  <2>1. Len(more) = Len(d)
    BY <1>1, <1>5, <1>8
  <2> QED
    BY <1>8, <1>9, <2>1, SeqEqual
<1> QED
  BY <1>6, <1>7, <1>10 DEF d

\* What a token leaves: nothing is behind it but what is held, or the byte given back.
LEMMA FeedCases ==
  ASSUME NEW B, NEW T \in SUBSET TokensOf(B), Hostage \in T, NEW room \in Nat,
         NEW s \in Decompressing(B, T, room), NEW t \in T
  PROVE  LET f == Feed(s, t, room)
         IN  /\ s.ended \/ s.error \/ s.held # << >> =>
                  /\ f.out = s.out /\ f.held = s.held /\ f.ended = s.ended /\ f.error = s.error
                  /\ f.unread = Append(s.unread, t)
             /\ ~(s.ended \/ s.error \/ s.held # << >>) =>
                  /\ s.unread = << >>
                  /\ f.held = << >> => f.unread = << >> /\ f.ended = t.last
                  /\ f.held # << >> => /\ f.unread = (IF t.last THEN <<Hostage>> ELSE << >>)
                                       /\ ~f.ended /\ Len(f.out) = room
                  /\ t = Hostage => f.held = << >>
                  /\ s.out # << >> => f.out # << >>
<1> DEFINE f == Feed(s, t, room)
<1>1. /\ s.out \in Seq(B) /\ Len(s.out) \in Nat /\ Len(s.out) <= room
      /\ s.ended \/ s.error \/ s.held # << >> \/ s.unread = << >>
      /\ s = [out |-> s.out, held |-> s.held, unread |-> s.unread, ended |-> s.ended, error |-> s.error]
  BY DEF Decompressing
<1>2. t.out \in Seq(B) /\ t.last \in BOOLEAN /\ Hostage.out = << >>
  BY DEF TokensOf, Hostage, Token
<1>3. CASE s.ended \/ s.error \/ s.held # << >>
  <2>1. f = [s EXCEPT !.unread = Append(@, t)]
    BY <1>3 DEF Feed
  <2> HIDE DEF f
  <2>2. /\ f.out = s.out /\ f.held = s.held /\ f.ended = s.ended /\ f.error = s.error
        /\ f.unread = Append(s.unread, t)
    BY <1>1, <2>1
  <2> QED
    BY <1>3, <2>2 DEF f
<1>4. CASE ~(s.ended \/ s.error \/ s.held # << >>)
  <2> DEFINE n == room - Len(s.out)
             x == SubSeq(t.out, 1, Shorter(n, Len(t.out)))
             y == SubSeq(t.out, n + 1, Len(t.out))
             fits == Len(t.out) <= n
  <2>1. f = [out |-> s.out \o x, held |-> y,
             unread |-> IF t.last /\ ~fits THEN <<Hostage>> ELSE << >>,
             ended |-> t.last /\ fits, error |-> t.kind = "corrupt"]
    BY <1>4 DEF Feed
  <2>2. n \in Nat
    BY <1>1
  <2>3. x \in Seq(B) /\ y \in Seq(B) /\ (y = << >> <=> fits) /\ (y # << >> => Len(x) = n)
    BY <1>2, <2>2, SplitAt
  <2>4. s.out \o x \in Seq(B) /\ Len(s.out \o x) = Len(s.out) + Len(x) /\ Len(x) \in Nat
    BY <1>1, <2>3, ConcatParts
  <2>5. t = Hostage => fits
    <3>1. t = Hostage => Len(t.out) = 0
      BY <1>2
    <3> HIDE DEF n, x, y, f
    <3> QED
      BY <2>2, <3>1
  <2>6. Len(s.out) + n = room
    BY <1>1
  <2> DEFINE o == s.out \o x
  <2>7. o \in Seq(B) /\ Len(o) = Len(s.out) + Len(x)
    BY <2>4
  <2> HIDE DEF f, n, x, y, fits, o
  <2>8. /\ f.out = o /\ f.held = y /\ f.ended = (t.last /\ fits)
        /\ f.unread = IF t.last /\ ~fits THEN <<Hostage>> ELSE << >>
    BY <2>1 DEF o
  <2>9. s.out # << >> => o # << >>
    BY <1>1, <2>4, <2>7, EmptySeq
  <2>10. y # << >> => Len(o) = room
    BY <2>3, <2>6, <2>7
  <2>11. y = << >> => f.unread = << >> /\ f.ended = t.last
    BY <1>2, <2>3, <2>8
  <2>12. y # << >> => f.unread = (IF t.last THEN <<Hostage>> ELSE << >>) /\ ~f.ended
    BY <1>2, <2>3, <2>8
  <2>13. s.unread = << >>
    BY <1>1, <1>4
  <2>14. /\ f.held = << >> => f.unread = << >> /\ f.ended = t.last
         /\ f.held # << >> => /\ f.unread = (IF t.last THEN <<Hostage>> ELSE << >>)
                              /\ ~f.ended /\ Len(f.out) = room
         /\ t = Hostage => f.held = << >>
         /\ s.out # << >> => f.out # << >>
    BY <2>3, <2>5, <2>8, <2>9, <2>10, <2>11, <2>12, Zenon
  <2> QED
    BY <1>4, <2>13, <2>14 DEF f
<1> QED
  BY <1>3, <1>4

\* A token is taken, or waits behind what is held.
LEMMA FeedTail ==
  ASSUME NEW B, NEW T \in SUBSET TokensOf(B), Hostage \in T, NEW room \in Nat,
         NEW s \in Decompressing(B, T, room), ~s.error, NEW t \in T,
         NEW ts \in Seq(T), NEW p, NEW g, NEW k \in Nat, NEW more \in Seq(T),
         FedTo(ts, p, g, s, k, Cat(s.unread, Cat(<<t>>, more)))
  PROVE  LET f == Feed(s, t, room)
         IN  \E pp, gg : /\ FedTo(ts, pp, gg, f, k + 1, Cat(f.unread, more)) /\ pp >= p
                         /\ s.held = << >> /\ ~s.ended /\ g = << >> => pp > p
<1> DEFINE f == Feed(s, t, room)
<1>1. /\ s.ended \/ s.held # << >> =>
           f.out = s.out /\ f.held = s.held /\ f.ended = s.ended /\ f.unread = Append(s.unread, t)
      /\ ~(s.ended \/ s.held # << >>) =>
           /\ s.unread = << >>
           /\ f.held = << >> => f.unread = << >> /\ f.ended = t.last
           /\ f.held # << >> => f.unread = (IF t.last THEN <<Hostage>> ELSE << >>) /\ ~f.ended
           /\ t = Hostage => f.held = << >>
  BY FeedCases
<1>2. /\ p \in 0..Len(ts) /\ p \in Nat /\ g \in {<< >>, <<Hostage>>}
      /\ Cat(s.unread, Cat(<<t>>, more)) = Cat(g, Behind(ts, p))
      /\ g # << >> => p # 0 /\ AtFrame(ts, p) /\ ((s.held # << >> /\ s.unread # << >>) \/ k = 0)
      /\ s.held # << >> => p # 0 /\ (ts[p].last => g # << >>)
      /\ s.held = << >> /\ s.unread # << >> => AtFrame(ts, p)
      /\ s.ended => p # 0 /\ AtFrame(ts, p) /\ g = << >> /\ s.held = << >>
  BY DEF FedTo
<1>3. s.unread \in Seq(T)
  BY DEF Decompressing
<1>4. <<t>> \in Seq(T) /\ <<Hostage>> \in Seq(T) /\ << >> \in Seq(T)
  OBVIOUS
<1> HIDE DEF f
<1>5. CASE s.ended \/ s.held # << >>
  <2>1. f.held = s.held /\ f.ended = s.ended /\ f.unread = Cat(s.unread, <<t>>)
    <3>1. Append(s.unread, t) = s.unread \o <<t>>
      BY <1>3
    <3> QED
      BY <1>1, <1>5, <3>1, Zenon DEF Cat
  <2>2. Cat(f.unread, more) = Cat(s.unread, Cat(<<t>>, more))
    <3>1. \A x, y, z \in Seq(T) : Cat(x, Cat(y, z)) = Cat(Cat(x, y), z)
      BY CatFacts
    <3> DEFINE o == <<t>>
    <3>2. o \in Seq(T) /\ s.unread \in Seq(T) /\ more \in Seq(T)
      BY <1>3, <1>4
    <3> HIDE DEF o
    <3>3. Cat(s.unread, Cat(o, more)) = Cat(Cat(s.unread, o), more)
      BY <3>1, <3>2, Zenon
    <3>4. f.unread = Cat(s.unread, o)
      BY <2>1 DEF o
    <3>5. Cat(f.unread, more) = Cat(s.unread, Cat(o, more))
      BY <3>3, <3>4, Zenon
    <3> QED
      BY <3>5 DEF o
  <2>3. Cat(f.unread, more) = Cat(g, Behind(ts, p))
    BY <1>2, <2>2
  <2>4. f.held = << >> => AtFrame(ts, p)
    BY <1>2, <1>5, <2>1
  <2>a. f.unread # << >>
    BY <1>1, <1>3, <1>5
  <2>5. FedTo(ts, p, g, f, k + 1, Cat(f.unread, more))
    BY <1>2, <1>5, <2>1, <2>3, <2>4, <2>a DEF FedTo
  <2>6. p >= p /\ ~(s.held = << >> /\ ~s.ended)
    BY <1>2, <1>5
  <2> QED
    BY <2>5, <2>6 DEF f
<1>6. CASE ~(s.ended \/ s.held # << >>)
  <2>1. /\ s.unread = << >> /\ s.held = << >> /\ ~s.ended
        /\ f.held = << >> => f.unread = << >> /\ f.ended = t.last
        /\ f.held # << >> => f.unread = (IF t.last THEN <<Hostage>> ELSE << >>) /\ ~f.ended
        /\ t = Hostage => f.held = << >>
    BY <1>1, <1>6
  <2>2. Cat(<<t>>, more) = Cat(g, Behind(ts, p))
    <3>1. \A q \in Seq(T) : << >> \o q = q
      OBVIOUS
    <3>2. Cat(<<t>>, more) \in Seq(T)
      BY <1>4, CatFacts
    <3> QED
      BY <1>2, <2>1, <3>1, <3>2 DEF Cat
  <2>3. CASE g # << >>
    <3>1. Cat(<<t>>, more) = Cat(<<Hostage>>, Behind(ts, p))
      BY <1>2, <2>2, <2>3
    <3>2. Behind(ts, p) \in Seq(T)
      BY <1>2, TakeDrop DEF Behind
    <3>3. t = Hostage /\ more = Behind(ts, p)
      BY <3>1, <3>2, FirstSame
    <3>4. f.held = << >> /\ f.unread = << >>
      BY <2>1, <3>3
    <3>5. p # 0 /\ AtFrame(ts, p)
      BY <1>2, <2>3
    <3>6. Cat(f.unread, more) = Cat(<< >>, Behind(ts, p))
      BY <3>3, <3>4
    <3>7. FedTo(ts, p, << >>, f, k + 1, Cat(f.unread, more))
      BY <1>2, <3>4, <3>5, <3>6 DEF FedTo
    <3>8. p >= p /\ ~(g = << >>)
      BY <1>2, <2>3
    <3> QED
      BY <3>7, <3>8 DEF f
  <2>4. CASE g = << >>
    <3>1. Cat(<<t>>, more) = Behind(ts, p)
      <4>1. Behind(ts, p) \in Seq(T)
        BY <1>2, TakeDrop DEF Behind
      <4> QED
        BY <2>2, <2>4, <4>1 DEF Cat
    <3>2. p + 1 \in 0..Len(ts) /\ t = ts[p + 1] /\ more = Behind(ts, p + 1)
      BY <1>2, <3>1, BehindOne
    <3> DEFINE q == p + 1
    <3>3. q # 0 /\ q > p /\ q >= p
      BY <1>2
    <3> HIDE DEF q
    <3>4. q \in 0..Len(ts) /\ t = ts[q] /\ more = Behind(ts, q)
      BY <3>2 DEF q
    <3>5. f.unread \in {<< >>, <<Hostage>>} /\ Cat(f.unread, more) = Cat(f.unread, Behind(ts, q))
      BY <2>1, <3>4
    <3>6. t.last \in BOOLEAN
      BY DEF TokensOf
    <3>7. AtFrame(ts, q) <=> t.last
      BY <3>3, <3>4, <3>6 DEF AtFrame
    <3>8. f.unread # << >> => AtFrame(ts, q) /\ f.held # << >>
      BY <2>1, <3>7
    <3>9. f.held # << >> => q # 0 /\ (ts[q].last => f.unread # << >>)
      <4>1. <<Hostage>> # << >>
        OBVIOUS
      <4> QED
        BY <2>1, <3>3, <3>4, <4>1
    <3>10. f.ended => AtFrame(ts, q) /\ f.unread = << >> /\ f.held = << >>
      BY <2>1, <3>7
    <3>11. FedTo(ts, q, f.unread, f, k + 1, Cat(f.unread, more))
      BY <3>3, <3>4, <3>5, <3>8, <3>9, <3>10 DEF FedTo
    <3> QED
      BY <3>3, <3>11 DEF f
  <2> QED
    BY <2>3, <2>4
<1> QED
  BY <1>5, <1>6

\* A call takes a beginning of its input.
LEMMA DecompressTail ==
  ASSUME NEW B, NEW T \in SUBSET TokensOf(B), Hostage \in T, NEW room \in Nat,
         NEW held \in Seq(B), NEW in \in Seq(T), in # << >>, NEW behind \in Seq(T),
         NEW ts \in Seq(T), NEW p, NEW g, NEW unread,
         TailOf(ts, p, g, held, unread, Cat(in, behind)),
         NEW d, d = ZSTD_decompressStream(held, in, room), ~d.error
  PROVE  /\ \E pp, gg : /\ TailOf(ts, pp, gg, d.held, d.unread, Cat(d.unread, behind)) /\ pp >= p
                        /\ held = << >> /\ g = << >> => pp > p
         /\ d.ended => FrameOver(ts, d.held, Cat(d.unread, behind))
<1> DEFINE n == Len(in)
           D == Decompressing(B, T, room)
           More(k) == Cat(SubSeq(in, k + 1, n), behind)
<1>1. n \in Nat /\ n # 0 /\ \A k \in 1..n : in[k] \in T
  BY ElementOfSeq, EmptySeq
<1>2. PICK fed : /\ Feeds(fed, held, in, room) /\ fed[n] = ZSTD_decompressStream(held, in, room)
                 /\ \A k \in 0..n : fed[k] \in D
  BY Feeding
<1>3. fed[0] = StartOf(held, room) /\ \A k \in 1..n : fed[k] = Feed(fed[k - 1], in[k], room)
  BY <1>2 DEF Feeds
<1>4. /\ p \in 0..Len(ts) /\ p \in Nat /\ g \in {<< >>, <<Hostage>>}
      /\ Cat(in, behind) = Cat(g, Behind(ts, p))
      /\ g # << >> => held # << >> /\ AtFrame(ts, p)
      /\ held # << >> => p # 0 /\ (ts[p].last => g # << >>)
  BY DEF TailOf
<1> DEFINE Q(k, pp, gg) == /\ FedTo(ts, pp, gg, fed[k], k, Cat(fed[k].unread, More(k)))
                           /\ pp >= p /\ (held = << >> /\ g = << >> /\ k > 0 => pp > p)
                           /\ k = 0 => gg = g
           P(k) == ~fed[k].error => \E pp, gg : Q(k, pp, gg)
           S == {k \in Nat : k <= n => P(k)}
<1>5. /\ fed[0].unread = << >> /\ fed[0].ended = FALSE /\ (held = << >> => fed[0].held = << >>)
  <2>1. /\ fed[0].unread = << >> /\ fed[0].ended = FALSE
        /\ fed[0].held = SubSeq(held, room + 1, Len(held))
    BY <1>3 DEF StartOf
  <2>2. held = << >> => SubSeq(held, room + 1, Len(held)) = << >>
    OBVIOUS
  <2> QED
    BY <2>1, <2>2
<1>6. P(0)
  <2>1. More(0) = Cat(in, behind)
    <3>1. SubSeq(in, 0 + 1, n) = in
      OBVIOUS
    <3> QED
      BY <3>1
  <2>2. Cat(<< >>, Cat(in, behind)) = Cat(in, behind)
    <3>1. Cat(in, behind) \in Seq(T)
      BY CatFacts
    <3>2. \A x \in Seq(T) : << >> \o x = x
      OBVIOUS
    <3> QED
      BY <3>1, <3>2 DEF Cat
  <2>3. Cat(fed[0].unread, More(0)) = Cat(g, Behind(ts, p))
    BY <1>4, <1>5, <2>1, <2>2
  <2>4. FedTo(ts, p, g, fed[0], 0, Cat(fed[0].unread, More(0)))
    BY <1>4, <1>5, <2>3 DEF FedTo
  <2>5. p >= p /\ ~(0 > 0)
    BY <1>4
  <2>6. Q(0, p, g)
    BY <2>4, <2>5
  <2> QED
    BY <2>6
<1>7. ASSUME NEW k \in Nat, k + 1 <= n, P(k) PROVE P(k + 1)
  <2> DEFINE s == fed[k]
             t == in[k + 1]
             f == fed[k + 1]
  <2>1. k + 1 \in 1..n /\ (k + 1) - 1 = k /\ k \in 0..n /\ k + 1 \in 0..n
    BY <1>1, <1>7
  <2>2. f = Feed(s, t, room) /\ s \in D /\ t \in T /\ f \in D
    BY <1>1, <1>2, <1>3, <2>1
  <2> SUFFICES ASSUME ~f.error PROVE \E pp, gg : Q(k + 1, pp, gg)
    OBVIOUS
  <2>3. ~s.error
    <3>1. s.error => Feed(s, t, room).error = s.error
      BY <2>2, FeedCases
    <3> QED
      BY <2>2, <3>1
  <2>4. PICK pp, gg : Q(k, pp, gg)
    BY <1>7, <2>3
  <2>5. More(k + 1) \in Seq(T) /\ More(k) = Cat(<<t>>, More(k + 1))
    <3> DEFINE x == SubSeq(in, k + 1, n)
               y == SubSeq(in, (k + 1) + 1, n)
               o == <<t>>
    <3>1. y \in Seq(T) /\ o \in Seq(T)
      BY <2>1, <2>2, TakeDrop
    <3>2. x = Cat(o, y)
      <4>1. x \in Seq(T) /\ Len(x) = n - k /\ \A i \in 1..(n - k) : x[i] = in[k + i]
        BY <2>1, TakeDrop
      <4>2. Len(y) = n - (k + 1) /\ \A i \in 1..(n - (k + 1)) : y[i] = in[(k + 1) + i]
        BY <2>1, TakeDrop
      <4> DEFINE c == Cat(<<t>>, y)
      <4>3. c \in Seq(T) /\ Len(c) = 1 + Len(y) /\ c[1] = t /\ \A i \in 1..Len(y) : c[1 + i] = y[i]
        BY <2>2, <3>1, FirstFacts DEF Cat
      <4> HIDE DEF x, y, c
      <4>4. ASSUME NEW i \in 1..Len(x) PROVE x[i] = c[i]
        <5>1. CASE i = 1
          BY <1>1, <2>1, <4>1, <4>3, <5>1
        <5>2. CASE i # 1
          <6> DEFINE j == i - 1
          <6>1. j \in 1..Len(y) /\ i = 1 + j /\ (k + 1) + j = k + i /\ j \in 1..(n - (k + 1)) /\ i \in 1..(n - k)
            BY <1>1, <1>7, <4>1, <4>2, <5>2
          <6> HIDE DEF j
          <6> QED
            BY <4>1, <4>2, <4>3, <6>1
        <5> QED
          BY <5>1, <5>2
      <4>5. Len(x) = Len(c)
        BY <1>1, <1>7, <4>1, <4>2, <4>3
      <4>6. x = c
        BY <4>1, <4>3, <4>4, <4>5, SeqEqual
      <4> QED
        BY <4>6 DEF c
    <3>3. \A a, b, c \in Seq(T) : Cat(a, Cat(b, c)) = Cat(Cat(a, b), c)
      BY CatFacts
    <3>4. Cat(y, behind) \in Seq(T)
      BY <3>1, CatFacts
    <3> HIDE DEF x, y, o
    <3>5. Cat(x, behind) = Cat(o, Cat(y, behind))
      BY <3>1, <3>2, <3>3, SMTT(30)
    <3> QED
      BY <3>4, <3>5 DEF x, y, o
  <2> HIDE DEF s, t, f, D, More
  <2>6. FedTo(ts, pp, gg, s, k, Cat(s.unread, Cat(<<t>>, More(k + 1))))
    BY <2>4, <2>5 DEF s
  <2>7. \E q, h : /\ FedTo(ts, q, h, f, k + 1, Cat(f.unread, More(k + 1))) /\ q >= pp
                  /\ s.held = << >> /\ ~s.ended /\ gg = << >> => q > pp
    BY <2>2, <2>3, <2>5, <2>6, FeedTail DEF D
  <2>8. PICK q, h : /\ FedTo(ts, q, h, f, k + 1, Cat(f.unread, More(k + 1))) /\ q >= pp
                    /\ s.held = << >> /\ ~s.ended /\ gg = << >> => q > pp
    BY <2>7
  <2>9. pp \in Nat /\ q \in Nat
    BY <2>6, <2>8 DEF FedTo
  <2>10. pp >= p /\ (held = << >> /\ g = << >> /\ k > 0 => pp > p) /\ (k = 0 => gg = g)
    BY <2>4
  <2>11. q >= p
    BY <1>4, <2>8, <2>9, <2>10
  <2>12. held = << >> /\ g = << >> => q > p
    <3>1. CASE k > 0
      BY <1>4, <2>8, <2>9, <2>10, <3>1
    <3>2. CASE k = 0
      <4>1. s = fed[0]
        BY <3>2 DEF s
      <4>2. held = << >> /\ g = << >> => q > pp
        BY <1>5, <2>8, <2>10, <3>2, <4>1
      <4> QED
        BY <1>4, <2>9, <2>10, <4>2
    <3> QED
      BY <1>7, <3>1, <3>2
  <2>13. Q(k + 1, q, h)
    BY <1>7, <2>8, <2>11, <2>12 DEF f
  <2> QED
    BY <2>13
<1> HIDE DEF P, D
<1>8. S = Nat
  <2>1. 0 \in S
    BY <1>6
  <2>2. ASSUME NEW k \in S PROVE k + 1 \in S
    BY <1>1, <1>7, <2>2
  <2> QED
    BY <2>1, <2>2, SetInduction
<1>9. P(n)
  BY <1>1, <1>8
<1>10. fed[n] = d
  BY <1>2
<1>11. PICK pp, gg : Q(n, pp, gg)
  BY <1>9, <1>10 DEF P
<1>12. More(n) = behind
  <2>1. SubSeq(in, n + 1, n) = << >>
    BY <1>1
  <2>2. << >> \o behind = behind
    OBVIOUS
  <2> QED
    BY <2>1, <2>2 DEF Cat
<1> HIDE DEF More, n
<1>13. FedTo(ts, pp, gg, d, n, Cat(d.unread, behind)) /\ pp >= p /\ (held = << >> /\ g = << >> => pp > p)
  BY <1>1, <1>10, <1>11, <1>12
<1>14. TailOf(ts, pp, gg, d.held, d.unread, Cat(d.unread, behind))
  BY <1>1, <1>13 DEF TailOf, FedTo
<1>15. ASSUME d.ended PROVE FrameOver(ts, d.held, Cat(d.unread, behind))
  <2>1. /\ pp \in 0..Len(ts) /\ pp # 0 /\ AtFrame(ts, pp) /\ gg = << >> /\ d.held = << >>
        /\ Cat(d.unread, behind) = Cat(gg, Behind(ts, pp))
    BY <1>13, <1>15 DEF FedTo
  <2>2. pp \in 1..Len(ts) /\ ts[pp].last
    BY <2>1 DEF AtFrame
  <2>3. Behind(ts, pp) \in Seq(T)
    BY <2>1, TakeDrop DEF Behind
  <2>4. Cat(gg, Behind(ts, pp)) = Behind(ts, pp)
    BY <2>1, <2>3 DEF Cat
  <2> QED
    BY <2>1, <2>2, <2>4 DEF FrameOver
<1> QED
  BY <1>13, <1>14, <1>15

\* A call with room puts something out before it holds anything back.
LEMMA DecompressOut ==
  ASSUME NEW B, NEW T \in SUBSET TokensOf(B), Hostage \in T, NEW room \in Nat, room # 0,
         NEW held \in Seq(B), NEW in \in Seq(T), NEW d, d = ZSTD_decompressStream(held, in, room)
  PROVE  held # << >> \/ d.held # << >> => d.out # << >>
<1> DEFINE n == Len(in)
           D == Decompressing(B, T, room)
<1>1. n \in Nat /\ \A k \in 1..n : in[k] \in T
  BY ElementOfSeq
<1>2. PICK fed : /\ Feeds(fed, held, in, room) /\ fed[n] = ZSTD_decompressStream(held, in, room)
                 /\ \A k \in 0..n : fed[k] \in D
  BY Feeding
<1>3. fed[0] = StartOf(held, room) /\ \A k \in 1..n : fed[k] = Feed(fed[k - 1], in[k], room)
  BY <1>2 DEF Feeds
<1> DEFINE P(k) == held # << >> \/ fed[k].held # << >> => fed[k].out # << >>
           S == {k \in Nat : k <= n => P(k)}
<1>4. P(0)
  <2> DEFINE x == SubSeq(held, 1, Shorter(room, Len(held)))
             y == SubSeq(held, room + 1, Len(held))
             w == SubSeq(held, 1, Shorter(Len(held), room))
  <2>0. Shorter(room, Len(held)) = Shorter(Len(held), room)
    BY DEF Shorter
  <2>1. fed[0].out = x /\ fed[0].held = y
    <3>1. x = w
      BY <2>0, Zenon
    <3>2. fed[0] = StartOf(held, room)
      BY <1>3
    <3>3. StartOf(held, room) = [out |-> w, held |-> y, unread |-> << >>, ended |-> FALSE, error |-> FALSE]
      BY Zenon DEF StartOf
    <3> HIDE DEF w, x, y
    <3> QED
      BY <3>1, <3>2, <3>3
  <2>2. x \in Seq(B) /\ y \in Seq(B) /\ x \o y = held /\ (y # << >> => Len(x) = room)
    BY SplitAt, ZenonT(60)
  <2> HIDE DEF x, y
  <2>3. y # << >> => x # << >>
    BY <2>2
  <2>4. y = << >> => held = x
    BY <2>2
  <2> QED
    BY <2>1, <2>3, <2>4
<1>5. ASSUME NEW k \in Nat, k + 1 <= n, P(k) PROVE P(k + 1)
  <2> DEFINE s == fed[k]
             t == in[k + 1]
             f == fed[k + 1]
  <2>1. k + 1 \in 1..n /\ (k + 1) - 1 = k /\ k \in 0..n /\ k + 1 \in 0..n
    BY <1>1, <1>5
  <2>2. f = Feed(s, t, room) /\ s \in D /\ t \in T /\ f \in D
    BY <1>1, <1>2, <1>3, <2>1
  <2>3. held # << >> \/ s.held # << >> => s.out # << >>
    BY <1>5
  <2> HIDE DEF s, t, f
  <2>4. /\ s.ended \/ s.error \/ s.held # << >> => f.out = s.out /\ f.held = s.held
        /\ ~(s.ended \/ s.error \/ s.held # << >>) =>
             (f.held # << >> => Len(f.out) = room) /\ (s.out # << >> => f.out # << >>)
    BY <2>2, FeedCases
  <2>5. f.out \in Seq(B)
    BY <2>2 DEF Decompressing
  <2>6. Len(f.out) = room => f.out # << >>
    BY <2>5
  <2>7. held # << >> \/ f.held # << >> => f.out # << >>
    BY <2>3, <2>4, <2>6
  <2> QED
    BY <2>7 DEF f
<1> HIDE DEF P
<1>6. S = Nat
  <2>1. 0 \in S
    BY <1>4
  <2>2. ASSUME NEW k \in S PROVE k + 1 \in S
    BY <1>1, <1>5, <2>2
  <2> QED
    BY <2>1, <2>2, SetInduction
<1>7. P(n)
  BY <1>1, <1>6
<1> QED
  BY <1>2, <1>7 DEF P

\* What a round does to the place in the input.
RoundsTo(r, z, new, behind, ts, p, g) ==
  /\ \E pp, gg : /\ TailOf(ts, pp, gg, r.z.held, r.z.unread, Cat(r.z.unread, behind)) /\ pp >= p
                 /\ z.held = << >> /\ g = << >> /\ Cat(z.unread, new) # << >> => pp > p
  /\ Cat(z.unread, new) # << >> /\ r.out = << >> => z.held = << >> /\ r.z.held = << >>
  /\ Cat(z.unread, new) = << >> => z.unread = << >> /\ new = << >> /\ r.z.unread = << >>
  /\ r.out = << >> /\ ~r.again => new = << >>
  /\ r.z.suggestion = 0 => FrameOver(ts, r.z.held, Cat(r.z.unread, behind))

\* A round takes a beginning of what is to come; with room it holds nothing back without
\* putting something out.
LEMMA RoundTail ==
  ASSUME NEW B, NEW T \in SUBSET TokensOf(B), Hostage \in T, NEW room \in Nat, room # 0,
         NEW z, StreamOf(z, B, T), NEW new \in Seq(T), NEW behind \in Seq(T),
         NEW ts \in Seq(T), NEW p, NEW g,
         TailOf(ts, p, g, z.held, z.unread, Cat(Cat(z.unread, new), behind)),
         NEW r, r = ReadSomeStep(z, new, room), ~r.error
  PROVE  RoundsTo(r, z, new, behind, ts, p, g)
<1> DEFINE in == Cat(z.unread, new)
           d == ZSTD_decompressStream(z.held, in, room)
<1>1. z.unread \in Seq(T) /\ z.held \in Seq(B) /\ in \in Seq(T)
  BY CatFacts DEF StreamOf
<1>2. r = [z |-> [unread |-> IF in = << >> THEN << >> ELSE d.unread,
                  held |-> IF in = << >> THEN z.held ELSE d.held,
                  suggestion |-> IF ~(in = << >>) /\ d.ended THEN 0 ELSE 1],
           out |-> IF in = << >> THEN << >> ELSE d.out,
           error |-> ~(in = << >>) /\ d.error,
           again |-> ~(in = << >>) /\ d.out = << >> /\ new # << >>]
  BY Zenon DEF ReadSomeStep, d, in, Cat
<1>3. in = << >> => z.unread = << >> /\ new = << >>
  <2>1. Len(in) = Len(z.unread) + Len(new) /\ Len(z.unread) \in Nat /\ Len(new) \in Nat
    BY <1>1, ConcatParts DEF Cat
  <2> QED
    BY <1>1, <2>1, EmptySeq
<1> HIDE DEF in, d
<1>4. /\ r.z.unread = (IF in = << >> THEN << >> ELSE d.unread)
      /\ r.z.held = (IF in = << >> THEN z.held ELSE d.held)
      /\ r.out = (IF in = << >> THEN << >> ELSE d.out)
      /\ r.error = (~(in = << >>) /\ d.error)
      /\ r.again = (~(in = << >>) /\ d.out = << >> /\ new # << >>)
      /\ r.z.suggestion = (IF ~(in = << >>) /\ d.ended THEN 0 ELSE 1)
  BY <1>2
<1>5. TailOf(ts, p, g, z.held, z.unread, Cat(in, behind))
  BY DEF in
<1>6. CASE in = << >>
  <2>1. r.z.unread = z.unread /\ r.z.held = z.held /\ z.unread = << >> /\ in = z.unread /\ new = << >>
    BY <1>3, <1>4, <1>6
  <2>2. TailOf(ts, p, g, r.z.held, r.z.unread, Cat(r.z.unread, behind))
    BY <1>5, <2>1
  <2>3. p >= p
    BY <1>5 DEF TailOf
  <2>4. r.z.suggestion # 0
    BY <1>4, <1>6
  <2> QED
    BY <1>6, <2>1, <2>2, <2>3, <2>4 DEF in, RoundsTo
<1>7. CASE in # << >>
  <2>1. r.z.unread = d.unread /\ r.z.held = d.held /\ r.out = d.out /\ ~d.error
        /\ (r.out = << >> /\ ~r.again => new = << >>)
    BY <1>4, <1>7
  <2>4. r.z.suggestion = 0 => d.ended
    <3>1. r.z.suggestion = IF d.ended THEN 0 ELSE 1
      BY <1>4, <1>7
    <3>2. 0 # 1
      OBVIOUS
    <3> QED
      BY <3>1, <3>2, Zenon
  <2>2. /\ \E pp, gg : /\ TailOf(ts, pp, gg, d.held, d.unread, Cat(d.unread, behind)) /\ pp >= p
                       /\ z.held = << >> /\ g = << >> => pp > p
        /\ d.ended => FrameOver(ts, d.held, Cat(d.unread, behind))
    BY <1>1, <1>5, <1>7, <2>1, DecompressTail, ZenonT(60) DEF d
  <2>3. z.held # << >> \/ d.held # << >> => d.out # << >>
    BY <1>1, DecompressOut DEF d
  <2> QED
    BY <1>7, <2>1, <2>2, <2>3, <2>4 DEF in, RoundsTo
<1> QED
  BY <1>6, <1>7

\* Tokens between two places of an input, and what they decompress to.
LEMMA OutBetween ==
  ASSUME NEW B, NEW T \in SUBSET TokensOf(B), NEW ts \in Seq(T), NEW p \in 0..Len(ts),
         NEW q \in 0..Len(ts), p < q, Out(Behind(ts, p)) = Out(Behind(ts, q))
  PROVE  Out(SubSeq(ts, p + 1, q)) = << >>
<1> DEFINE m == SubSeq(ts, p + 1, q)
           a == Behind(ts, p)
           b == Behind(ts, q)
<1>1. p \in Nat /\ q \in Nat /\ Len(ts) \in Nat /\ q <= Len(ts)
  OBVIOUS
<1>2. a \in Seq(T) /\ Len(a) = Len(ts) - p /\ \A i \in 1..(Len(ts) - p) : a[i] = ts[p + i]
  BY TakeDrop DEF Behind
<1>3. b \in Seq(T) /\ Len(b) = Len(ts) - q /\ \A i \in 1..(Len(ts) - q) : b[i] = ts[q + i]
  BY TakeDrop DEF Behind
<1>4. m \in Seq(T) /\ Len(m) = q - p /\ \A i \in 1..(q - p) : m[i] = ts[p + i]
  BY <1>1
<1> HIDE DEF m, b
<1> DEFINE c == m \o b
<1>5. /\ c \in Seq(T) /\ Len(c) = Len(m) + Len(b)
      /\ (\A i \in 1..Len(m) : c[i] = m[i])
      /\ \A i \in 1..Len(b) : c[Len(m) + i] = b[i]
  <2>1. m \in Seq(T) /\ b \in Seq(T)
    BY <1>3, <1>4
  <2> QED
    BY <2>1, ConcatParts
<1> HIDE DEF m, a, b, c
<1>6. ASSUME NEW i \in 1..Len(a) PROVE a[i] = c[i]
  <2>1. CASE i <= q - p
    <3>1. i \in 1..Len(m) /\ i \in 1..(q - p) /\ i \in 1..(Len(ts) - p)
      BY <1>1, <1>2, <1>4, <2>1
    <3> QED
      BY <1>2, <1>4, <1>5, <3>1
  <2>2. CASE ~(i <= q - p)
    <3> DEFINE j == i - (q - p)
    <3>1. j \in 1..Len(b) /\ j \in 1..(Len(ts) - q) /\ q + j = p + i /\ Len(m) + j = i /\ i \in 1..(Len(ts) - p)
      BY <1>1, <1>2, <1>3, <1>4, <2>2
    <3> HIDE DEF j
    <3> QED
      BY <1>2, <1>3, <1>5, <3>1
  <2> QED
    BY <2>1, <2>2
<1>7. Len(a) = Len(c)
  BY <1>1, <1>2, <1>3, <1>4, <1>5
<1>8. a = Cat(m, b)
  BY <1>2, <1>5, <1>6, <1>7, SeqEqual DEF c, Cat
<1>9. Out(m) \in Seq(B) /\ Out(b) \in Seq(B) /\ Out(a) = Cat(Out(m), Out(b))
  BY <1>3, <1>4, <1>8, TokenParts
<1>10. Len(Cat(Out(m), Out(b))) = Len(Out(m)) + Len(Out(b)) /\ Len(Out(m)) \in Nat /\ Len(Out(b)) \in Nat
  BY <1>9, ConcatParts DEF Cat
<1>11. Out(a) = Out(b)
  BY DEF a, b
<1>12. Len(Out(m)) = 0
  BY <1>9, <1>10, <1>11
<1> QED
  BY <1>9, <1>12, EmptySeq DEF m

\* A round, and what it leaves when ReadSome returns nothing.
TakesAll(r, z, new, behind, ts, p, g) ==
  /\ RoundsTo(r, z, new, behind, ts, p, g)
  /\ r.out = << >> /\ ~r.again /\ ~EmptyFrame(ts) => new = << >> /\ r.z.unread = << >>

\* ReadSome returns nothing only when it has taken all its input, unless a frame inside the
\* input decompresses to nothing.
LEMMA NothingRead ==
  ASSUME NEW B, NEW T \in SUBSET TokensOf(B), Hostage \in T, NEW room \in Nat, room # 0,
         NEW z, StreamOf(z, B, T), NEW new \in Seq(T), NEW behind \in Seq(T),
         NEW ts \in Seq(T), NEW p, NEW g,
         TailOf(ts, p, g, z.held, z.unread, Cat(Cat(z.unread, new), behind)),
         NEW r, r = ReadSomeStep(z, new, room), ~r.error
  PROVE  TakesAll(r, z, new, behind, ts, p, g)
<1> DEFINE in == Cat(z.unread, new)
           rest == Cat(r.z.unread, behind)
<1>0. RoundsTo(r, z, new, behind, ts, p, g)
  BY RoundTail
<1> SUFFICES ASSUME r.out = << >>, ~r.again, ~EmptyFrame(ts) PROVE new = << >> /\ r.z.unread = << >>
  BY <1>0 DEF TakesAll
<1>1. PICK pp, gg : /\ TailOf(ts, pp, gg, r.z.held, r.z.unread, rest) /\ pp >= p
                    /\ z.held = << >> /\ g = << >> /\ in # << >> => pp > p
  BY <1>0 DEF RoundsTo
<1>2. /\ in # << >> => z.held = << >> /\ r.z.held = << >>
      /\ in = << >> => z.unread = << >> /\ new = << >> /\ r.z.unread = << >>
      /\ new = << >>
  BY <1>0 DEF RoundsTo
<1>3. z.unread \in Seq(T) /\ z.held \in Seq(B)
  BY DEF StreamOf
<1>4. in = z.unread /\ new = << >>
  BY <1>2, <1>3 DEF Cat
<1>5. RoundOf(r, z, new, room, B, T)
  BY RoundLemma
<1>6. SUFFICES ASSUME r.z.unread # << >> PROVE FALSE
  BY <1>4
<1>7. in # << >> /\ z.held = << >> /\ r.z.held = << >>
  BY <1>2, <1>6
<1>8. /\ p \in 0..Len(ts) /\ Cat(in, behind) = Cat(g, Behind(ts, p)) /\ g \in {<< >>, <<Hostage>>}
      /\ (g # << >> => z.held # << >>) /\ (z.held = << >> /\ z.unread # << >> => AtFrame(ts, p))
  BY DEF TailOf
<1>9. /\ pp \in 0..Len(ts) /\ rest = Cat(gg, Behind(ts, pp)) /\ gg \in {<< >>, <<Hostage>>}
      /\ (gg # << >> => r.z.held # << >>) /\ AtFrame(ts, pp)
  BY <1>1, <1>6, <1>7 DEF TailOf
<1>10. g = << >> /\ gg = << >> /\ pp > p /\ AtFrame(ts, p)
  BY <1>1, <1>4, <1>7, <1>8, <1>9
<1>11. Behind(ts, p) \in Seq(T) /\ Behind(ts, pp) \in Seq(T) /\ Len(Behind(ts, pp)) = Len(ts) - pp
  BY <1>8, <1>9, TakeDrop DEF Behind
<1>12. Cat(z.unread, behind) = Behind(ts, p) /\ rest = Behind(ts, pp)
  <2>1. \A x \in Seq(T) : Cat(<< >>, x) = x
    BY DEF Cat
  <2> QED
    BY <1>4, <1>8, <1>9, <1>10, <1>11, <2>1
<1>13. r.z.unread \in Seq(T)
  BY <1>5 DEF RoundOf, StreamOf
<1>14. Out(r.z.unread) = Out(z.unread)
  <2>1. Moves(B, << >>, << >>, Out(r.z.unread), << >>, Out(z.unread), << >>)
    <3>1. Out(new) = << >>
      BY <1>4, TokenParts
    <3> QED
      BY <1>5, <1>7, <3>1 DEF RoundOf
  <2>2. /\ Out(r.z.unread) \in Seq(B) /\ Out(z.unread) \in Seq(B)
        /\ Cat(Cat(<< >>, << >>), Out(r.z.unread)) = Cat(Cat(<< >>, Out(z.unread)), << >>)
    BY <2>1 DEF Moves
  <2>3. \A x \in Seq(B) : Cat(Cat(<< >>, << >>), x) = x /\ Cat(Cat(<< >>, x), << >>) = x
    BY DEF Cat
  <2> QED
    BY <2>2, <2>3
<1>15. Out(Behind(ts, p)) = Out(Behind(ts, pp))
  <2>1. \A u, v \in Seq(T) : Out(Cat(u, v)) = Cat(Out(u), Out(v))
    BY TokenParts
  <2>2. Out(Cat(z.unread, behind)) = Cat(Out(z.unread), Out(behind))
    BY <1>3, <2>1
  <2>3. Out(Cat(r.z.unread, behind)) = Cat(Out(r.z.unread), Out(behind))
    BY <1>13, <2>1
  <2> QED
    BY <1>12, <1>14, <2>2, <2>3
<1>16. Out(SubSeq(ts, p + 1, pp)) = << >>
  BY <1>8, <1>9, <1>10, <1>15, OutBetween
<1>17. pp < Len(ts)
  <2>1. Len(rest) = Len(r.z.unread) + Len(behind) /\ Len(r.z.unread) \in Nat /\ Len(behind) \in Nat
    BY <1>13, ConcatParts DEF Cat
  <2>2. Len(r.z.unread) # 0
    BY <1>6, <1>13, EmptySeq
  <2> HIDE DEF rest
  <2> QED
    BY <1>9, <1>11, <1>12, <2>1, <2>2
<1>18. pp \in 1..(Len(ts) - 1) /\ p + 1 \in 1..pp /\ (p + 1 = 1 \/ ts[(p + 1) - 1].last) /\ ts[pp].last
  <2>1. p \in Nat /\ pp \in Nat /\ Len(ts) \in Nat /\ (p + 1) - 1 = p /\ (p = 0 => p + 1 = 1)
    BY <1>8, <1>9
  <2>2. pp # 0
    BY <1>10, <2>1
  <2>3. ts[pp].last /\ (p = 0 \/ ts[p].last)
    BY <1>9, <1>10, <2>2 DEF AtFrame
  <2>4. pp \in 1..(Len(ts) - 1) /\ p + 1 \in 1..pp
    BY <1>10, <1>17, <2>1
  <2> QED
    BY <2>1, <2>3, <2>4
<1> QED
  BY <1>16, <1>18 DEF EmptyFrame

-----------------------------------------------------------------------------
(* The place of a stream in its input.                                     *)

\* The stream has come to a place of ts; q is queued behind its own input, s behind that.
Reaches(ts, z, q, s) ==
  \E p, g : TailOf(ts, p, g, z.held, z.unread, Cat(Cat(z.unread, q), s))

\* What a round shows of the place, and of what is left when it puts nothing out.
ReachesBy(r, ts, z, new, rest, s) ==
  /\ Reaches(ts, r.z, rest, s)
  /\ r.out = << >> /\ ~r.again => /\ new = << >> /\ (~EmptyFrame(ts) => r.z.unread = << >>)
                                  /\ (r.z.held # << >> => r.z.unread = << >>)
  /\ r.z.suggestion = 0 => FrameOver(ts, r.z.held, Cat(Cat(r.z.unread, rest), s))

\* Sequences of tokens, put together in either order.
CatLaws(T) ==
  /\ \A u, v \in Seq(T) : Cat(u, v) \in Seq(T)
  /\ \A u, v, w \in Seq(T) : Cat(u, Cat(v, w)) = Cat(Cat(u, v), w)

\* They hold of every set.
LEMMA CatClosed ==
  ASSUME NEW T
  PROVE  CatLaws(T)
<1>1. \A u, v \in Seq(T) : Cat(u, v) \in Seq(T)
  BY CatFacts
<1>2. \A u, v, w \in Seq(T) : Cat(u, Cat(v, w)) = Cat(Cat(u, v), w)
  BY CatFacts
<1> QED
  BY <1>1, <1>2, Zenon DEF CatLaws

\* A stream that holds nothing is at the beginning of an input that is all to come.
LEMMA ReachesFirst ==
  ASSUME NEW T, NEW ts \in Seq(T), NEW z, z.held = << >>, NEW q, NEW s, Cat(Cat(z.unread, q), s) = ts
  PROVE  Reaches(ts, z, q, s)
<1> DEFINE e == << >>
<1>1. Behind(ts, 0) = ts /\ Cat(e, ts) = ts /\ 0 \in 0..Len(ts)
  BY DEF Behind, Cat
<1>2. TailOf(ts, 0, e, z.held, z.unread, Cat(Cat(z.unread, q), s))
  BY <1>1 DEF TailOf, AtFrame
<1> QED
  BY <1>2 DEF Reaches

\* Input arrives in the queue.
LEMMA ReachesMore ==
  ASSUME NEW T, NEW ts, NEW z, z.unread \in Seq(T), NEW q \in Seq(T), NEW a \in Seq(T), NEW s \in Seq(T),
         Reaches(ts, z, q, Cat(a, s))
  PROVE  Reaches(ts, z, Cat(q, a), s)
<1> DEFINE u == z.unread
<1>1. u \in Seq(T)
  OBVIOUS
<1>2. /\ \A x, y \in Seq(T) : Cat(x, y) \in Seq(T)
      /\ \A x, y, w \in Seq(T) : Cat(x, Cat(y, w)) = Cat(Cat(x, y), w)
  <2>1. CatLaws(T)
    BY CatClosed
  <2> QED
    BY <2>1, Zenon DEF CatLaws
<1> HIDE DEF u
<1>3. Cat(Cat(u, q), Cat(a, s)) = Cat(Cat(u, Cat(q, a)), s)
  <2>1. Cat(u, q) \in Seq(T)
    BY <1>1, <1>2
  <2>2. Cat(Cat(u, q), Cat(a, s)) = Cat(Cat(Cat(u, q), a), s)
    BY <1>2, <2>1
  <2>3. Cat(Cat(u, q), a) = Cat(u, Cat(q, a))
    BY <1>1, <1>2
  <2> QED
    BY <2>2, <2>3
<1> QED
  BY <1>3 DEF Reaches, u

\* A round takes a beginning of the queue and of what the stream had not read.
LEMMA ReachesRound ==
  ASSUME NEW B, NEW T \in SUBSET TokensOf(B), Hostage \in T, NEW room \in Nat, room # 0,
         NEW z, StreamOf(z, B, T), NEW new \in Seq(T), NEW rest \in Seq(T), NEW s \in Seq(T),
         NEW ts \in Seq(T), Reaches(ts, z, Cat(new, rest), s),
         NEW r, r = ReadSomeStep(z, new, room), ~r.error
  PROVE  ReachesBy(r, ts, z, new, rest, s)
<1> DEFINE u == z.unread
           behind == Cat(rest, s)
           v == r.z.unread
<1>1. PICK p, g : TailOf(ts, p, g, z.held, z.unread, Cat(Cat(z.unread, Cat(new, rest)), s))
  BY DEF Reaches
<1>2. u \in Seq(T)
  BY DEF StreamOf
<1>3. /\ \A x, y \in Seq(T) : Cat(x, y) \in Seq(T)
      /\ \A x, y, w \in Seq(T) : Cat(x, Cat(y, w)) = Cat(Cat(x, y), w)
  <2>1. CatLaws(T)
    BY CatClosed
  <2> QED
    BY <2>1, Zenon DEF CatLaws
<1>4. RoundOf(r, z, new, room, B, T)
  BY RoundLemma
<1>5. v \in Seq(T)
  BY <1>4 DEF RoundOf, StreamOf
<1>6. behind \in Seq(T)
  BY <1>3
<1> HIDE DEF u, v
<1>7. Cat(Cat(u, Cat(new, rest)), s) = Cat(Cat(u, new), behind)
  <2>1. Cat(u, new) \in Seq(T)
    BY <1>2, <1>3
  <2>2. Cat(u, Cat(new, rest)) = Cat(Cat(u, new), rest)
    BY <1>2, <1>3
  <2>3. Cat(Cat(Cat(u, new), rest), s) = Cat(Cat(u, new), Cat(rest, s))
    BY <1>3, <2>1
  <2> QED
    BY <2>2, <2>3
<1>8. Cat(v, behind) = Cat(Cat(v, rest), s)
  BY <1>3, <1>5
<1> HIDE DEF behind
<1>9. TailOf(ts, p, g, z.held, z.unread, Cat(Cat(z.unread, new), behind))
  BY <1>1, <1>7 DEF u
<1>10. TakesAll(r, z, new, behind, ts, p, g)
  BY <1>6, <1>9, NothingRead
<1>11. RoundsTo(r, z, new, behind, ts, p, g)
  BY <1>10 DEF TakesAll
<1>12. PICK pp, gg : TailOf(ts, pp, gg, r.z.held, r.z.unread, Cat(r.z.unread, behind))
  BY <1>11 DEF RoundsTo
<1>13. Reaches(ts, r.z, rest, s)
  BY <1>8, <1>12 DEF Reaches, v
<1>14. ASSUME r.out = << >>, ~r.again
       PROVE  /\ new = << >> /\ (~EmptyFrame(ts) => r.z.unread = << >>)
              /\ (r.z.held # << >> => r.z.unread = << >>)
  BY <1>10, <1>11, <1>14 DEF TakesAll, RoundsTo
<1>15. r.z.suggestion = 0 => FrameOver(ts, r.z.held, Cat(Cat(r.z.unread, rest), s))
  BY <1>8, <1>11 DEF RoundsTo, v
<1> QED
  BY <1>13, <1>14, <1>15 DEF ReachesBy

\* What libzstd holds when it has read all that came is of a block that does not end its frame.
LEMMA HeldUnfinished ==
  ASSUME NEW B, NEW T \in SUBSET TokensOf(B), Hostage \in T, NEW ts \in Seq(T), NEW s \in Seq(T),
         NEW z, z.unread = << >>, z.held # << >>, Reaches(ts, z, << >>, s)
  PROVE  Len(ts) - Len(s) \in 1..Len(ts) /\ ~ts[Len(ts) - Len(s)].last
<1> DEFINE e == << >>
<1>1. PICK p, g : TailOf(ts, p, g, z.held, z.unread, Cat(Cat(z.unread, e), s))
  BY DEF Reaches
<1>2. Cat(Cat(z.unread, e), s) = s
  BY DEF Cat
<1>3. /\ p \in 0..Len(ts) /\ s = Cat(g, Behind(ts, p)) /\ g = e /\ p # 0 /\ ~ts[p].last
  BY <1>1, <1>2 DEF TailOf
<1>4. Behind(ts, p) \in Seq(T) /\ Len(Behind(ts, p)) = Len(ts) - p
  BY <1>3, TakeDrop DEF Behind
<1>5. s = Behind(ts, p)
  BY <1>3, <1>4 DEF Cat
<1>6. Len(ts) - Len(s) = p /\ p \in 1..Len(ts)
  BY <1>3, <1>4, <1>5
<1> QED
  BY <1>3, <1>6

-----------------------------------------------------------------------------
(* An input in parts.                                                      *)

\* c is a beginning of w.
Begins(c, w) == Len(c) <= Len(w) /\ \A i \in 1..Len(c) : c[i] = w[i]

\* Sequences that agree at their beginnings agree behind them.
LEMMA BeginsBehind ==
  ASSUME NEW B, NEW a \in Seq(B), NEW u \in Seq(B), NEW v \in Seq(B), NEW x \in Seq(B),
         Begins(Cat(a, Cat(u, v)), Cat(a, x))
  PROVE  Begins(u, x)
<1> DEFINE c == Cat(a, Cat(u, v))
           w == Cat(a, x)
<1>1. /\ Len(a) \in Nat /\ Len(u) \in Nat /\ Len(v) \in Nat /\ Len(x) \in Nat
      /\ Cat(u, v) \in Seq(B)
  BY DEF Cat
<1>2. /\ Len(Cat(u, v)) = Len(u) + Len(v) /\ \A i \in 1..Len(u) : Cat(u, v)[i] = u[i]
  BY ConcatParts DEF Cat
<1>3. /\ Len(c) = Len(a) + Len(Cat(u, v))
      /\ \A i \in 1..Len(Cat(u, v)) : c[Len(a) + i] = Cat(u, v)[i]
  BY <1>1, ConcatParts DEF Cat
<1>4. Len(w) = Len(a) + Len(x) /\ \A i \in 1..Len(x) : w[Len(a) + i] = x[i]
  BY ConcatParts DEF Cat
<1> HIDE DEF c, w
<1>0. Len(c) <= Len(w) /\ \A i \in 1..Len(c) : c[i] = w[i]
  BY DEF Begins, c, w
<1>5. Len(u) <= Len(x)
  BY <1>0, <1>1, <1>2, <1>3, <1>4
<1>6. ASSUME NEW i \in 1..Len(u) PROVE u[i] = x[i]
  <2>1. i \in 1..Len(Cat(u, v)) /\ i \in 1..Len(x) /\ Len(a) + i \in 1..Len(c)
    BY <1>1, <1>2, <1>3, <1>5
  <2>2. c[Len(a) + i] = w[Len(a) + i]
    BY <1>0, <2>1
  <2>3. c[Len(a) + i] = u[i]
    BY <1>2, <1>3, <2>1
  <2>4. w[Len(a) + i] = x[i]
    BY <1>4, <2>1
  <2> QED
    BY <2>2, <2>3, <2>4
<1> QED
  BY <1>5, <1>6 DEF Begins

\* What is in place begins with what the reader has.
LEMMA ReaderFirst ==
  ASSUME NEW B, NEW T \in SUBSET TokensOf(B), NEW x, NEW z, NEW w, NEW s, NEW c,
         InPlace(x, z, w, s, B, T, c)
  PROVE  \E v \in Seq(B) : c = Cat(x, v)
<1> DEFINE h == z.held
           u == Out(z.unread)
           y == Out(w)
           t == Out(s)
<1>1. x \in Seq(B) /\ h \in Seq(B) /\ u \in Seq(B) /\ y \in Seq(B) /\ t \in Seq(B)
  BY TokenParts DEF InPlace, StreamOf
<1>2. c = Cat(Cat(Cat(Cat(x, h), u), y), t)
  BY DEF InPlace, Flow
<1> HIDE DEF h, u, y, t
<1>3. \A p, q \in Seq(B) : Cat(p, q) \in Seq(B)
  BY CatFacts
<1>4. \A p, q, r \in Seq(B) : Cat(p, Cat(q, r)) = Cat(Cat(p, q), r)
  BY CatFacts
<1> DEFINE hu == Cat(h, u)
           huy == Cat(hu, y)
<1>5. hu \in Seq(B) /\ huy \in Seq(B) /\ Cat(huy, t) \in Seq(B)
  BY <1>1, <1>3
<1>6. Cat(x, hu) = Cat(Cat(x, h), u)
  BY <1>1, <1>4
<1> HIDE DEF hu
<1>7. Cat(x, huy) = Cat(Cat(x, hu), y)
  BY <1>1, <1>4, <1>5
<1> HIDE DEF huy
<1>8. Cat(x, Cat(huy, t)) = Cat(Cat(x, huy), t)
  BY <1>1, <1>4, <1>5
<1>9. c = Cat(x, Cat(huy, t))
  BY <1>2, <1>6, <1>7, <1>8
<1> QED
  BY <1>5, <1>9

\* A reader's data, behind what it has.
LEMMA CatEmpty ==
  ASSUME NEW B
  PROVE  \A x \in Seq(B) : Cat(x, << >>) = x /\ Cat(<< >>, x) = x /\ << >> \in Seq(B)
  BY DEF Cat

\* At the end of a frame the reader has what the tokens up to there decompress to.
LEMMA FrameOverLength ==
  ASSUME NEW B, NEW T \in SUBSET TokensOf(B), NEW ts \in Seq(T), NEW x, NEW z, NEW w,
         InPlace(x, z, w, << >>, B, T, Out(ts)), FrameOver(ts, z.held, Cat(Cat(z.unread, w), << >>))
  PROVE  \E p \in 1..Len(ts) : ts[p].last /\ Len(Out(SubSeq(ts, 1, p))) = Len(x)
<1> DEFINE u == Out(z.unread)
           y == Out(w)
           e == << >>
<1>1. PICK p \in 1..Len(ts) : ts[p].last /\ Cat(Cat(z.unread, w), << >>) = Behind(ts, p)
  BY DEF FrameOver
<1>2. x \in Seq(B) /\ w \in Seq(T) /\ z.unread \in Seq(T) /\ z.held = e
      /\ Flow(x, z.held, Out(z.unread), Out(w), Out(<< >>)) = Out(ts)
  BY DEF InPlace, StreamOf, FrameOver
<1>3. /\ \A a \in Seq(T) : Out(a) \in Seq(B)
      /\ \A a, b \in Seq(T) : Out(Cat(a, b)) = Cat(Out(a), Out(b))
      /\ Out(<< >>) = << >>
  BY TokenParts
<1>4. \A a \in Seq(B) : Cat(a, e) = a
  BY CatEmpty
<1>5. \A a, b \in Seq(B) : Cat(a, b) \in Seq(B) /\ Len(Cat(a, b)) = Len(a) + Len(b) /\ Len(a) \in Nat
  BY ConcatParts DEF Cat
<1>6. Cat(z.unread, w) = Behind(ts, p)
  <2>1. Cat(z.unread, w) \in Seq(T)
    BY <1>2, CatFacts
  <2> QED
    BY <1>1, <2>1, CatEmpty
<1>7. Out(Behind(ts, p)) = Cat(u, y)
  BY <1>2, <1>3, <1>6
<1>8. Out(ts) = Cat(Cat(x, u), y)
  <2>1. u \in Seq(B) /\ y \in Seq(B)
    BY <1>2, <1>3
  <2> HIDE DEF u, y
  <2>2. Cat(x, e) = x
    BY <1>2, <1>4
  <2>3. Cat(Cat(Cat(x, u), y), e) = Cat(Cat(x, u), y)
    BY <1>2, <1>4, <1>5, <2>1
  <2>4. Out(ts) = Cat(Cat(Cat(Cat(x, e), u), y), e)
    BY <1>2, <1>3 DEF Flow, u, y
  <2> QED
    BY <2>2, <2>3, <2>4
<1>9. /\ SubSeq(ts, 1, p) \in Seq(T) /\ Behind(ts, p) \in Seq(T)
      /\ Cat(SubSeq(ts, 1, p), Behind(ts, p)) = ts
  <2>1. p \in 0..Len(ts)
    OBVIOUS
  <2> QED
    BY <2>1, TakeDrop, Rejoined DEF Behind, Cat
<1> DEFINE f == Out(SubSeq(ts, 1, p))
           b == Out(Behind(ts, p))
<1>10. f \in Seq(B) /\ b \in Seq(B) /\ Out(ts) = Cat(f, b)
  BY <1>3, <1>9
<1>11. u \in Seq(B) /\ y \in Seq(B)
  BY <1>2, <1>3
<1> HIDE DEF f, b, u, y
<1>12. Len(Cat(f, b)) = Len(f) + Len(b) /\ Len(f) \in Nat /\ Len(b) \in Nat
  BY <1>5, <1>10
<1>13. Len(b) = Len(u) + Len(y) /\ Len(u) \in Nat /\ Len(y) \in Nat
  BY <1>5, <1>7, <1>11 DEF b
<1>14. Len(Cat(Cat(x, u), y)) = (Len(x) + Len(u)) + Len(y) /\ Len(x) \in Nat
  <2>1. Cat(x, u) \in Seq(B) /\ Len(Cat(x, u)) = Len(x) + Len(u) /\ Len(x) \in Nat
    BY <1>2, <1>5, <1>11, Zenon
  <2>2. Len(Cat(Cat(x, u), y)) = Len(Cat(x, u)) + Len(y)
    BY <1>5, <1>11, <2>1, Zenon
  <2> QED
    BY <2>1, <2>2, Zenon
<1>15. Len(f) = Len(x)
  BY <1>8, <1>10, <1>12, <1>13, <1>14
<1> QED
  BY <1>1, <1>15 DEF f

\* Data behind what a ReadExact has is behind what the buffer has.
LEMMA CatFour ==
  ASSUME NEW B, NEW a \in Seq(B), NEW b \in Seq(B), NEW c \in Seq(B), NEW d \in Seq(B)
  PROVE  Cat(Cat(a, Cat(b, c)), d) = Cat(a, Cat(b, Cat(c, d)))
<1>1. Cat(b, c) \in Seq(B)
  BY CatFacts
<1>2. Cat(a, Cat(Cat(b, c), d)) = Cat(Cat(a, Cat(b, c)), d)
  BY <1>1, CatFacts
<1>3. Cat(b, Cat(c, d)) = Cat(Cat(b, c), d)
  BY CatFacts
<1> QED
  BY <1>2, <1>3

\* The first n parts of an input behind its header.
FirstParts(H, P, n) == Cat(H, FlattenSeq(SubSeq(P, 1, n)))

\* The front of an input grows by its next part.
LEMMA FrontGrows ==
  ASSUME NEW B, NEW H \in Seq(B), NEW P \in Seq(Seq(B)), NEW n \in 0..Len(P)
  PROVE  /\ FirstParts(H, P, n) \in Seq(B) /\ FirstParts(H, P, 0) = H
         /\ n < Len(P) =>
              /\ FirstParts(H, P, n + 1) = Cat(FirstParts(H, P, n), P[n + 1])
              /\ \E y \in Seq(B) : FirstParts(H, P, Len(P)) = Cat(FirstParts(H, P, n), Cat(P[n + 1], y))
<1> DEFINE F(k) == SubSeq(P, 1, k)
           O(k) == FlattenSeq(F(k))
           Q(k) == SubSeq(P, k + 1, Len(P))
<1>1. Len(P) \in Nat /\ n \in Nat
  OBVIOUS
<1>2. \A k \in 0..Len(P) : F(k) \in Seq(Seq(B)) /\ Q(k) \in Seq(Seq(B)) /\ F(k) \o Q(k) = P
  BY TakeDrop, Rejoined
<1>3. \A a, b \in Seq(Seq(B)) : FlattenSeq(a) \in Seq(B) /\ FlattenSeq(a \o b) = FlattenSeq(a) \o FlattenSeq(b)
  BY FlattenParts
<1>4. \A b \in Seq(B) : FlattenSeq(<< >>) = << >> /\ FlattenSeq(<<b>>) = b
  BY FlattenFew
<1>5. F(0) = << >> /\ F(Len(P)) = P
  OBVIOUS
<1>6. FirstParts(H, P, n) \in Seq(B) /\ O(n) \in Seq(B)
  BY <1>1, <1>2, <1>3, CatFacts DEF FirstParts
<1>7. FirstParts(H, P, 0) = H
  <2>0. << >> \in Seq(B)
    OBVIOUS
  <2>1. O(0) = << >>
    BY <1>4, <1>5, <2>0
  <2>2. Cat(H, << >>) = H
    BY DEF Cat
  <2> QED
    BY <2>1, <2>2 DEF FirstParts
<1>9. ASSUME n < Len(P)
      PROVE  /\ FirstParts(H, P, n + 1) = Cat(FirstParts(H, P, n), P[n + 1])
             /\ \E y \in Seq(B) : FirstParts(H, P, Len(P)) = Cat(FirstParts(H, P, n), Cat(P[n + 1], y))
  <2> DEFINE p == P[n + 1]
             y == FlattenSeq(Q(n + 1))
  <2>1. n + 1 \in 1..Len(P) /\ n \in 0..Len(P) /\ n + 1 \in 0..Len(P)
    BY <1>1, <1>9
  <2>2. p \in Seq(B)
    BY <2>1, ElementOfSeq
  <2>3. F(n + 1) = F(n) \o <<p>> /\ <<p>> \in Seq(Seq(B))
    <3>1. F(n + 1) = Append(F(n), P[n + 1])
      BY <1>1, <2>1
    <3>2. F(n) \in Seq(Seq(B))
      BY <1>2, <2>1
    <3>3. \A s \in Seq(Seq(B)) : \A q \in Seq(B) : Append(s, q) = s \o <<q>> /\ <<q>> \in Seq(Seq(B))
      OBVIOUS
    <3> HIDE DEF F
    <3> QED
      BY <2>2, <3>1, <3>2, <3>3, Zenon
  <2>4. O(n + 1) = Cat(O(n), p)
    <3>1. F(n) \in Seq(Seq(B))
      BY <1>2, <2>1
    <3>2. FlattenSeq(F(n) \o <<p>>) = FlattenSeq(F(n)) \o FlattenSeq(<<p>>)
      BY <1>3, <2>3, <3>1, Zenon
    <3>3. FlattenSeq(<<p>>) = p
      BY <1>4, <2>2, Zenon
    <3> QED
      BY <2>3, <3>2, <3>3, Zenon DEF Cat
  <2>5. y \in Seq(B) /\ FlattenSeq(P) = Cat(O(n + 1), y)
    <3>1. F(n + 1) \in Seq(Seq(B)) /\ Q(n + 1) \in Seq(Seq(B)) /\ F(n + 1) \o Q(n + 1) = P
      BY <1>2, <2>1
    <3> HIDE DEF F, Q
    <3> QED
      BY <1>3, <3>1, Zenon DEF Cat
  <2>6. FirstParts(H, P, n) = Cat(H, O(n)) /\ FirstParts(H, P, n + 1) = Cat(H, O(n + 1)) /\ FirstParts(H, P, Len(P)) = Cat(H, FlattenSeq(P))
    BY <1>5, Zenon DEF FirstParts
  <2> HIDE DEF O, p, y
  <2>7. \A a, b, c \in Seq(B) : Cat(a, b) \in Seq(B) /\ Cat(a, Cat(b, c)) = Cat(Cat(a, b), c)
    <3>1. \A a, b \in Seq(B) : Cat(a, b) \in Seq(B)
      BY CatFacts
    <3>2. \A a, b, c \in Seq(B) : Cat(a, Cat(b, c)) = Cat(Cat(a, b), c)
      BY CatFacts
    <3> QED
      BY <3>1, <3>2, ZenonT(60)
  <2>8. Cat(H, Cat(O(n), p)) = Cat(Cat(H, O(n)), p)
    BY <1>6, <2>2, <2>7
  <2>9. Cat(H, Cat(Cat(O(n), p), y)) = Cat(Cat(H, O(n)), Cat(p, y))
    <3>1. Cat(Cat(O(n), p), y) = Cat(O(n), Cat(p, y)) /\ Cat(p, y) \in Seq(B)
      BY <1>6, <2>2, <2>5, <2>7
    <3>2. Cat(H, Cat(O(n), Cat(p, y))) = Cat(Cat(H, O(n)), Cat(p, y))
      BY <1>6, <2>7, <3>1
    <3> QED
      BY <3>1, <3>2
  <2>10. FirstParts(H, P, n + 1) = Cat(FirstParts(H, P, n), p) /\ FirstParts(H, P, Len(P)) = Cat(FirstParts(H, P, n), Cat(p, y))
    BY <2>4, <2>5, <2>6, <2>8, <2>9
  <2> QED
    BY <2>5, <2>10 DEF p
<1> QED
  BY <1>6, <1>7, <1>9

\* A front begins with its header.
LEMMA FrontFirst ==
  ASSUME NEW B, NEW H \in Seq(B), H # << >>, NEW P \in Seq(Seq(B)), NEW n \in 0..Len(P)
  PROVE  /\ FirstParts(H, P, n) # << >> /\ Len(FirstParts(H, P, n)) >= Len(H)
         /\ \A i \in 1..Len(H) : FirstParts(H, P, n)[i] = H[i]
<1> DEFINE f == FlattenSeq(SubSeq(P, 1, n))
<1>1. SubSeq(P, 1, n) \in Seq(Seq(B))
  BY TakeDrop
<1>2. f \in Seq(B)
  BY <1>1, FlattenParts
<1>3. FirstParts(H, P, n) = H \o f
  BY DEF FirstParts, Cat
<1> HIDE DEF f
<1>4. /\ Len(H \o f) = Len(H) + Len(f) /\ \A i \in 1..Len(H) : (H \o f)[i] = H[i]
  BY <1>2, ConcatParts
<1>5. Len(H) \in Nat /\ Len(H) # 0 /\ Len(f) \in Nat
  BY <1>2, EmptySeq
<1>6. Len(FirstParts(H, P, n)) = Len(H) + Len(f) /\ \A i \in 1..Len(H) : FirstParts(H, P, n)[i] = H[i]
  BY <1>3, <1>4
<1>7. Len(FirstParts(H, P, n)) # 0 /\ Len(FirstParts(H, P, n)) >= Len(H)
  BY <1>5, <1>6
<1> QED
  BY <1>6, <1>7, EmptySeq

\* What begins a whole input is a beginning of its header.
LEMMA HeaderPart ==
  ASSUME NEW B, NEW H \in Seq(B), H # << >>, NEW P \in Seq(Seq(B)), NEW u \in Seq(B), NEW v \in Seq(B),
         Begins(Cat(u, v), FirstParts(H, P, Len(P))), Len(u) <= Len(H)
  PROVE  u = SubSeq(H, 1, Len(u))
<1> DEFINE h == SubSeq(H, 1, Len(u))
           w == FirstParts(H, P, Len(P))
<1>0. Len(P) \in 0..Len(P)
  OBVIOUS
<1>1. Len(u) \in 0..Len(H) /\ Len(u) \in Nat /\ Len(v) \in Nat
  OBVIOUS
<1>2. h \in Seq(B) /\ Len(h) = Len(u) /\ \A i \in 1..Len(u) : h[i] = H[i]
  BY <1>1, TakeDrop
<1>3. \A i \in 1..Len(H) : w[i] = H[i]
  BY <1>0, FrontFirst
<1>4. Len(Cat(u, v)) = Len(u) + Len(v) /\ \A i \in 1..Len(u) : Cat(u, v)[i] = u[i]
  BY ConcatParts DEF Cat
<1>5. \A i \in 1..Len(Cat(u, v)) : Cat(u, v)[i] = w[i]
  BY DEF Begins
<1> HIDE DEF h, w
<1>6. ASSUME NEW i \in 1..Len(u) PROVE u[i] = h[i]
  <2>1. i \in 1..Len(Cat(u, v)) /\ i \in 1..Len(H)
    BY <1>1, <1>4
  <2> QED
    BY <1>2, <1>3, <1>4, <1>5, <2>1
<1>7. u = h
  BY <1>2, <1>6, SeqEqual
<1> QED
  BY <1>7 DEF h

\* Behind its header and n parts comes a beginning of the next part, or all of it.
LEMMA NextPart ==
  ASSUME NEW B, NEW H \in Seq(B), NEW P \in Seq(Seq(B)), NEW n \in 0..Len(P),
         NEW u \in Seq(B), u # << >>, NEW v \in Seq(B),
         Begins(Cat(FirstParts(H, P, n), Cat(u, v)), FirstParts(H, P, Len(P)))
  PROVE  /\ n < Len(P)
         /\ \A i \in 1..Len(u) : i <= Len(P[n + 1]) => u[i] = P[n + 1][i]
         /\ Len(P[n + 1]) <= Len(u) => SubSeq(u, 1, Len(P[n + 1])) = P[n + 1]
<1> DEFINE w == FirstParts(H, P, n)
           c == FirstParts(H, P, Len(P))
<1>1. w \in Seq(B) /\ Len(u) \in Nat /\ Len(u) # 0 /\ Len(P) \in Nat /\ n \in Nat
  BY FrontGrows, EmptySeq
<1>2. Begins(Cat(w, Cat(u, v)), c)
  OBVIOUS
<1>3. n < Len(P)
  <2>1. CASE n = Len(P)
    <3> DEFINE x == << >>
    <3>1. c = Cat(w, x) /\ x \in Seq(B)
      <4>1. c = w
        BY <2>1
      <4> HIDE DEF c, w
      <4> QED
        BY <1>1, <4>1 DEF Cat
    <3> HIDE DEF w, x, c
    <3>2. Begins(Cat(w, Cat(u, v)), Cat(w, x))
      BY <1>2, <3>1
    <3>3. Len(u) <= Len(x)
      BY <1>1, <3>1, <3>2, BeginsBehind DEF Begins
    <3> QED
      BY <1>1, <3>3 DEF x
  <2> QED
    BY <1>1, <2>1
<1>4. PICK y \in Seq(B) : c = Cat(w, Cat(P[n + 1], y))
  BY <1>3, FrontGrows
<1> DEFINE p == P[n + 1]
           x == Cat(p, y)
<1>5. n + 1 \in 1..Len(P)
  BY <1>1, <1>3
<1>6. p \in Seq(B) /\ Len(p) \in Nat
  BY <1>5, ElementOfSeq
<1> HIDE DEF w, p, c
<1>7. x \in Seq(B) /\ \A i \in 1..Len(p) : x[i] = p[i]
  BY <1>6, ConcatParts DEF Cat
<1>8. c = Cat(w, x)
  BY <1>4 DEF p
<1> HIDE DEF x
<1>9. \A i \in 1..Len(u) : u[i] = x[i]
  <2>1. Begins(Cat(w, Cat(u, v)), Cat(w, x))
    BY <1>2, <1>8
  <2>2. Begins(u, x)
    BY <1>1, <1>7, <2>1, BeginsBehind
  <2> QED
    BY <2>2 DEF Begins
<1>10. ASSUME NEW i \in 1..Len(u), i <= Len(p) PROVE u[i] = p[i]
  BY <1>6, <1>7, <1>9, <1>10
<1>11. ASSUME Len(p) <= Len(u) PROVE SubSeq(u, 1, Len(p)) = p
  <2> DEFINE t == SubSeq(u, 1, Len(p))
  <2>1. Len(p) \in 0..Len(u)
    BY <1>1, <1>6, <1>11
  <2>2. t \in Seq(B) /\ Len(t) = Len(p) /\ \A i \in 1..Len(p) : t[i] = u[i]
    BY <2>1, TakeDrop
  <2> HIDE DEF t
  <2>3. \A i \in 1..Len(t) : t[i] = p[i]
    BY <1>1, <1>7, <1>9, <2>1, <2>2
  <2>4. t = p
    BY <1>6, <2>2, <2>3, SeqEqual
  <2> QED
    BY <2>4 DEF t
<1> QED
  BY <1>3, <1>10, <1>11 DEF p

==============================================================================
