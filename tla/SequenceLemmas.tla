--------------------------- MODULE SequenceLemmas ---------------------------
(* What the proofs about the components share: induction over numbers,
   concatenation, what FlattenSeq and FoldLeft return, and sums.

   FoldLeft(op, start, seq) is, by its definition, the value at 1..Len(seq) of a
   function F of sets of indices, chosen such that F[{}] is start and F[s] is op
   of F[s \ {Max(s)}] and seq[Max(s)]. To use that equation one has to show that
   there is such a function. FoldExists does so for a step given as a function
   on a set of values; a proof about a fold takes that function for its own
   operator and set, and HeadOf to go from one index to the next. *)
EXTENDS Integers, Sequences, FiniteSets, SequencesExt, WellFoundedInduction, TLAPS

\* A nonempty set of numbers has a least one.
LEMMA LeastNatural == ASSUME NEW S \in SUBSET Nat, S # {} PROVE \E n \in S : \A m \in S : n <= m
<1> DEFINE R == OpToRel(<, Nat)
<1>1. PICK n \in S : \A m \in S : ~(<<m, n>> \in R)
  BY WFMin, NatLessThanWellFounded, Zenon
<1>2. \A i, j \in Nat : i < j => <<i, j>> \in R
  BY DEF OpToRel
<1>3. ASSUME NEW m \in S PROVE n <= m
  <2>1. ~(m < n)
    BY <1>1, <1>2, Zenon
  <2> QED
    BY <2>1, SMT
<1> QED
  BY <1>3

\* It is the minimum.
LEMMA MinOf == ASSUME NEW S \in SUBSET Nat, S # {} PROVE Min(S) \in S /\ \A m \in S : Min(S) <= m
  BY LeastNatural DEF Min

\* Induction over the numbers up to n, for a set.
LEMMA Induction ==
  ASSUME NEW n \in Nat, NEW S, 0 \in S, \A k \in 0..(n - 1) : k \in S => k + 1 \in S
  PROVE  \A k \in 0..n : k \in S
<1> DEFINE missing == {k \in 0..n : k \notin S}
<1> SUFFICES ASSUME missing # {} PROVE FALSE
  OBVIOUS
<1>1. missing \in SUBSET Nat
  OBVIOUS
<1> HIDE DEF missing
<1>2. PICK k \in missing : \A j \in missing : k <= j
  BY <1>1, LeastNatural
<1> USE DEF missing
<1>3. k - 1 \in 0..(n - 1) /\ k - 1 \in S
  BY <1>2
<1> QED
  BY <1>2, <1>3

\* Induction from n down to 1, for a set.
LEMMA Downwards ==
  ASSUME NEW n \in Nat, NEW S, \A p \in 1..n : (\A m \in (p + 1)..n : m \in S) => p \in S
  PROVE  \A p \in 1..n : p \in S
<1> DEFINE known == {k \in Nat : \A m \in (n - k + 1)..n : m \in S}
<1>1. 0 \in known
  OBVIOUS
<1>2. ASSUME NEW k \in 0..(n - 1), k \in known PROVE k + 1 \in known
  <2>1. \A m \in (n - k + 1)..n : m \in S
    BY <1>2
  <2>2. n - k \in S
    BY <2>1
  <2>3. \A m \in (n - (k + 1) + 1)..n : m \in (n - k + 1)..n \/ m = n - k
    OBVIOUS
  <2> QED
    BY <2>1, <2>2, <2>3
<1>3. \A k \in 0..n : k \in known
  <2> HIDE DEF known
  <2> QED
    BY <1>1, <1>2, Induction
<1>4. n \in known
  <2> HIDE DEF known
  <2> QED
    BY <1>3, n \in 0..n
<1> QED
  BY <1>4

\* A function over 1..n whose value at p follows from that at a later one.
Recurs(n, stops, last, next, step, F) ==
    \A p \in 1..n : F[p] = IF p \in stops THEN last[p] ELSE step[<<p, F[next[p]]>>]

LEMMA Backwards ==
  ASSUME NEW n \in Nat, NEW V, NEW stops \in SUBSET (1..n), NEW last \in [1..n -> V],
         NEW step \in [(1..n) \X V -> V],
         NEW next, \A p \in (1..n) \ stops : next[p] \in (p + 1)..n
  PROVE  \E F \in [1..n -> V] : Recurs(n, stops, last, next, step, F)
<1> DEFINE Value(F, p) == IF p \in stops THEN last[p] ELSE step[<<p, F[next[p]]>>]
           Tail0(k) == (n - k + 1)..n
           Partial(k) == \E F \in [Tail0(k) -> V] : \A p \in Tail0(k) : F[p] = Value(F, p)
           known == {k \in Nat : Partial(k)}
<1>1. 0 \in known
  <2> DEFINE F == [p \in Tail0(0) |-> last[p]]
  <2>1. Tail0(0) = {}
    OBVIOUS
  <2>2. F \in [Tail0(0) -> V] /\ \A p \in Tail0(0) : F[p] = Value(F, p)
    BY <2>1
  <2>3. Partial(0)
    BY <2>2
  <2> HIDE DEF Partial
  <2> QED
    BY <2>3
<1>2. ASSUME NEW k \in 0..(n - 1), k \in known PROVE k + 1 \in known
  <2>1. PICK F \in [Tail0(k) -> V] : \A p \in Tail0(k) : F[p] = Value(F, p)
    BY <1>2
  <2> DEFINE first == n - k
             G == [p \in Tail0(k + 1) |-> IF p = first THEN Value(F, first) ELSE F[p]]
  <2>2. first \in 1..n /\ Tail0(k + 1) = Tail0(k) \cup {first} /\ first \notin Tail0(k)
    OBVIOUS
  <2>3. \A p \in Tail0(k + 1) : p \in 1..n /\ (p \notin stops => next[p] \in Tail0(k))
    <3> SUFFICES ASSUME NEW p \in Tail0(k + 1) PROVE p \in 1..n /\ (p \notin stops => next[p] \in Tail0(k))
      OBVIOUS
    <3>1. p \in 1..n /\ p >= first
      OBVIOUS
    <3>2. p \notin stops => next[p] \in (p + 1)..n
      BY <3>1
    <3> QED
      BY <3>1, <3>2
  <2>4. \A p \in Tail0(k + 1) : Value(F, p) \in V
    <3> SUFFICES ASSUME NEW p \in Tail0(k + 1) PROVE Value(F, p) \in V
      OBVIOUS
    <3>1. p \in 1..n /\ (p \notin stops => next[p] \in Tail0(k))
      BY <2>3
    <3> HIDE DEF Tail0
    <3>2. CASE p \in stops
      BY <3>1, <3>2
    <3>3. CASE p \notin stops
      <4>1. F[next[p]] \in V
        BY <2>1, <3>1, <3>3
      <4> QED
        BY <3>1, <3>3, <4>1
    <3> QED
      BY <3>2, <3>3
  <2> HIDE DEF Value, Tail0, first
  <2>5. G \in [Tail0(k + 1) -> V]
    BY <2>1, <2>2, <2>4
  <2>6. \A p \in Tail0(k) : G[p] = F[p]
    BY <2>2
  <2>7. \A p \in Tail0(k + 1) : G[p] = Value(F, p)
    BY <2>1, <2>2
  <2> HIDE DEF G
  <2>8. \A p \in Tail0(k + 1) : Value(G, p) = Value(F, p)
    BY <2>3, <2>6 DEF Value
  <2>9. Partial(k + 1)
    BY <2>5, <2>7, <2>8
  <2> HIDE DEF Partial
  <2> QED
    BY <2>9
<1>3. \A k \in 0..n : k \in known
  <2> HIDE DEF known
  <2> QED
    BY <1>1, <1>2, Induction
<1>4. n \in known
  <2> HIDE DEF known
  <2> QED
    BY <1>3, n \in 0..n
<1>5. PICK F \in [Tail0(n) -> V] : \A p \in Tail0(n) : F[p] = Value(F, p)
  BY <1>4
<1>6. Tail0(n) = 1..n
  OBVIOUS
<1> HIDE DEF Tail0
<1>7. F \in [1..n -> V] /\ \A p \in 1..n : F[p] = Value(F, p)
  BY <1>5, <1>6
<1> QED
  BY <1>7 DEF Recurs

-----------------------------------------------------------------------------
(* Concatenation *)

\* What one sequence behind another is.
LEMMA Concatenated ==
  ASSUME NEW S, NEW e \in Seq(S), NEW f \in Seq(S)
  PROVE  /\ e \o f \in Seq(S) /\ Len(e) \in Nat /\ Len(f) \in Nat
         /\ Len(e \o f) = Len(e) + Len(f) /\ DOMAIN (e \o f) = 1..(Len(e) + Len(f))
         /\ \A i \in 1..Len(e) : (e \o f)[i] = e[i]
         /\ \A i \in 1..Len(f) : (e \o f)[Len(e) + i] = f[i]
<1>1. e \o f \in Seq(S) /\ Len(e \o f) = Len(e) + Len(f) /\ Len(e) \in Nat /\ Len(f) \in Nat
  OBVIOUS
<1>2. DOMAIN (e \o f) = 1..(Len(e) + Len(f))
  OBVIOUS
<1>3. \A i \in 1..Len(e) : (e \o f)[i] = e[i]
  OBVIOUS
<1>4. ASSUME NEW i \in 1..Len(f) PROVE (e \o f)[Len(e) + i] = f[i]
  OBVIOUS
<1> QED
  BY <1>1, <1>2, <1>3, <1>4

\* What an element behind a sequence is.
LEMMA Another ==
  ASSUME NEW l, NEW n \in Nat, l = [i \in 1..n |-> l[i]], NEW k
  PROVE  /\ DOMAIN Append(l, k) = 1..(n + 1) /\ Append(l, k) = [i \in 1..(n + 1) |-> Append(l, k)[i]]
         /\ \A i \in 1..n : Append(l, k)[i] = l[i]
         /\ Append(l, k)[n + 1] = k
<1> DEFINE S == {l[i] : i \in 1..n} \cup {k}
<1>1. l \in [1..n -> S] /\ k \in S
  OBVIOUS
<1> HIDE DEF S
<1>2. l \in Seq(S) /\ Len(l) = n
  BY <1>1
<1>3. Append(l, k) \in Seq(S) /\ Len(Append(l, k)) = n + 1
  BY <1>1, <1>2
<1>4. Append(l, k) \in [1..(n + 1) -> S]
  <2> DEFINE m == Append(l, k)
  <2>1. m \in Seq(S) /\ Len(m) = n + 1
    BY <1>3
  <2> HIDE DEF m
  <2>2. m \in [1..(n + 1) -> S]
    BY <2>1
  <2> QED
    BY <2>2 DEF m
<1>5. \A i \in 1..n : Append(l, k)[i] = l[i]
  BY <1>1, <1>2
<1>6. Append(l, k)[n + 1] = k
  BY <1>1, <1>2
<1> QED
  BY <1>4, <1>5, <1>6

-----------------------------------------------------------------------------
(* Sequences of sequences *)

\* One more element, before the rest or behind what was there.
OneBetween(k, x, l) == k \o (<<x>> \o l) = Append(k, x) \o l

LEMMA OneMore ==
  ASSUME NEW S, NEW k \in Seq(S), NEW x \in S, NEW l \in Seq(S)
  PROVE  OneBetween(k, x, l)
<1> DEFINE back == <<x>> \o l
           more == Append(k, x)
           n == Len(k) + 1 + Len(l)
<1>1. Len(k) \in Nat /\ Len(l) \in Nat
  OBVIOUS
<1>2. back \in Seq(S) /\ Len(back) = 1 + Len(l) /\ back[1] = x
  OBVIOUS
<1>3. ASSUME NEW i \in 1..Len(l) PROVE back[1 + i] = l[i]
  OBVIOUS
<1>4. more \in Seq(S) /\ Len(more) = Len(k) + 1 /\ more[Len(k) + 1] = x
  OBVIOUS
<1>5. ASSUME NEW i \in 1..Len(k) PROVE more[i] = k[i]
  OBVIOUS
<1> HIDE DEF back, more
<1> DEFINE u == k \o back
           v == more \o l
<1>6. DOMAIN u = 1..n /\ u = [i \in 1..n |-> u[i]]
  <2>1. DOMAIN u = 1..(Len(k) + Len(back)) /\ u \in Seq(S)
    BY <1>2
  <2>2. Len(k) + Len(back) = n
    BY <1>1, <1>2
  <2> HIDE DEF u, n
  <2> QED
    BY <2>1, <2>2
<1>7. DOMAIN v = 1..n /\ v = [i \in 1..n |-> v[i]]
  <2>1. DOMAIN v = 1..(Len(more) + Len(l)) /\ v \in Seq(S)
    BY <1>4
  <2>2. Len(more) + Len(l) = n
    BY <1>1, <1>4
  <2> HIDE DEF v, n
  <2> QED
    BY <2>1, <2>2
<1>8. ASSUME NEW i \in 1..n PROVE u[i] = v[i]
  <2>1. CASE i \in 1..Len(k)
    <3>1. u[i] = k[i]
      BY <1>2, <2>1
    <3>2. v[i] = more[i]
      BY <1>1, <1>4, <2>1
    <3> QED
      BY <1>5, <2>1, <3>1, <3>2
  <2>2. CASE i = Len(k) + 1
    <3>1. u[i] = back[1]
      BY <1>1, <1>2, <2>2
    <3>2. v[i] = more[i]
      BY <1>1, <1>4, <2>2
    <3> QED
      BY <1>2, <1>4, <2>2, <3>1, <3>2
  <2>3. CASE i \in (Len(k) + 2)..n
    <3> DEFINE j == i - Len(k) - 1
    <3>1. j \in 1..Len(l) /\ i = Len(k) + (1 + j) /\ i = Len(more) + j /\ 1 + j \in 1..Len(back)
      BY <1>1, <1>2, <1>4, <2>3
    <3> HIDE DEF j
    <3>2. u[i] = back[1 + j]
      BY <1>1, <1>2, <3>1
    <3>3. v[i] = l[j]
      BY <1>1, <1>4, <3>1
    <3> QED
      BY <1>3, <3>1, <3>2, <3>3
  <2>4. i \in 1..Len(k) \/ i = Len(k) + 1 \/ i \in (Len(k) + 2)..n
    BY <1>1
  <2> HIDE DEF u, v, n
  <2> QED
    BY <2>1, <2>2, <2>3, <2>4
<1> HIDE DEF u, v, n
<1>9. u = v
  BY <1>6, <1>7, <1>8
<1> QED
  BY <1>9 DEF u, v, back, more, OneBetween

\* Two sequences of the same length, to both of which an element is appended.
LEMMA BothAppended ==
  ASSUME NEW S, NEW k \in Seq(S), NEW x \in S, NEW T, NEW g \in Seq(T), NEW y \in T, DOMAIN k = DOMAIN g
  PROVE  /\ DOMAIN Append(k, x) = DOMAIN Append(g, y)
         /\ \A i \in DOMAIN Append(g, y) :
               \/ i \in DOMAIN g /\ Append(k, x)[i] = k[i] /\ Append(g, y)[i] = g[i]
               \/ Append(k, x)[i] = x /\ Append(g, y)[i] = y
<1>1. DOMAIN k = 1..Len(k) /\ DOMAIN g = 1..Len(g) /\ Len(k) \in Nat /\ Len(g) \in Nat
  OBVIOUS
<1>2. Len(k) = Len(g)
  <2>1. \A i : i \in 1..Len(k) <=> i \in 1..Len(g)
    BY <1>1
  <2>2. Len(k) <= Len(g)
    BY <1>1, <2>1, Len(k) = 0 \/ Len(k) \in 1..Len(k)
  <2>3. Len(g) <= Len(k)
    BY <1>1, <2>1, Len(g) = 0 \/ Len(g) \in 1..Len(g)
  <2>4. Len(k) \in Nat /\ Len(g) \in Nat
    OBVIOUS
  <2>5. \A m, n \in Nat : m <= n /\ n <= m => m = n
    OBVIOUS
  <2> QED
    BY <2>2, <2>3, <2>4, <2>5
<1>3. DOMAIN Append(k, x) = 1..(Len(k) + 1) /\ DOMAIN Append(g, y) = 1..(Len(g) + 1)
  OBVIOUS
<1>4. ASSUME NEW i \in 1..Len(g) PROVE Append(k, x)[i] = k[i] /\ Append(g, y)[i] = g[i]
  BY <1>2
<1>5. Append(k, x)[Len(g) + 1] = x /\ Append(g, y)[Len(g) + 1] = y
  BY <1>2
<1>6. ASSUME NEW i \in DOMAIN Append(g, y)
      PROVE  \/ i \in DOMAIN g /\ Append(k, x)[i] = k[i] /\ Append(g, y)[i] = g[i]
             \/ Append(k, x)[i] = x /\ Append(g, y)[i] = y
  <2>1. i \in 1..(Len(g) + 1)
    BY <1>3
  <2>2. i \in 1..Len(g) \/ i = Len(g) + 1
    BY <1>1, <2>1
  <2>3. CASE i \in 1..Len(g)
    BY <1>1, <1>4, <2>3
  <2>4. CASE i = Len(g) + 1
    BY <1>5, <2>4
  <2> QED
    BY <2>2, <2>3, <2>4
<1>7. DOMAIN Append(k, x) = DOMAIN Append(g, y)
  BY <1>2, <1>3
<1> QED
  BY <1>6, <1>7

\* The recursive function of FlattenSeq, and what it returns.
Flattens(q, n, F) == F = [i \in 1..n |-> IF i = 1 THEN q[i] ELSE F[i - 1] \o q[i]]

\* Two sequences agree up to n.
Agree(q, r, n) == \A i \in 1..n : q[i] = r[i]

\* Two of them agree as far as both go.
LEMMA FlattenSame ==
  ASSUME NEW n \in Nat, NEW m \in Nat, n <= m, NEW q, NEW F, Flattens(q, n, F),
         NEW r, NEW G, Flattens(r, m, G), Agree(q, r, n)
  PROVE  Agree(F, G, n)
<1> DEFINE same == {i \in Nat : i = 0 \/ F[i] = G[i]}
<1>1. ASSUME NEW i \in 0..(n - 1), i \in same PROVE i + 1 \in same
  <2>1. i + 1 \in 1..n /\ i + 1 \in 1..m /\ i + 1 \in Nat
    OBVIOUS
  <2>2. F[i + 1] = IF i + 1 = 1 THEN q[i + 1] ELSE F[(i + 1) - 1] \o q[i + 1]
    BY <2>1 DEF Flattens
  <2>3. G[i + 1] = IF i + 1 = 1 THEN r[i + 1] ELSE G[(i + 1) - 1] \o r[i + 1]
    BY <2>1 DEF Flattens
  <2>4. (i + 1) - 1 = i /\ (i + 1 = 1 <=> i = 0) /\ q[i + 1] = r[i + 1]
    BY <2>1 DEF Agree
  <2>5. i = 0 \/ F[i] = G[i]
    BY <1>1
  <2>6. F[i + 1] = G[i + 1]
    BY <2>2, <2>3, <2>4, <2>5
  <2> QED
    BY <2>1, <2>6
<1>2. 0 \in same
  OBVIOUS
<1> HIDE DEF same
<1>3. \A i \in 0..n : i \in same
  BY <1>1, <1>2, Induction
<1> QED
  BY <1>3 DEF same, Agree

\* The function FlattenSeq is built on, and its value at the length.
LEMMA FlattenDefined ==
  ASSUME NEW S, NEW n \in Nat \ {0}, NEW q \in [1..n -> Seq(S)]
  PROVE  \E F \in [1..n -> Seq(S)] : Flattens(q, n, F) /\ FlattenSeq(q) = F[n]
<1> DEFINE Partial(k) == \E F \in [1..k -> Seq(S)] : Flattens(q, k, F)
           known == {k \in Nat : k = 0 \/ Partial(k)}
<1>1. 0 \in known
  OBVIOUS
<1>2. ASSUME NEW k \in 0..(n - 1), k \in known PROVE k + 1 \in known
  <2>1. CASE k = 0
    <3> DEFINE G == [i \in 1..1 |-> q[1]]
    <3>1. Flattens(q, 1, G) /\ G \in [1..1 -> Seq(S)]
      BY <2>1 DEF Flattens
    <3> QED
      BY <3>1, <2>1
  <2>2. CASE k # 0
    <3>1. PICK F \in [1..k -> Seq(S)] : Flattens(q, k, F)
      BY <1>2, <2>2
    <3> DEFINE G == [i \in 1..(k + 1) |-> IF i = k + 1 THEN F[k] \o q[i] ELSE F[i]]
    <3>2. \A i \in 1..k : F[i] = IF i = 1 THEN q[i] ELSE F[i - 1] \o q[i]
      BY <3>1 DEF Flattens
    <3>3. ASSUME NEW i \in 1..(k + 1) PROVE G[i] = IF i = 1 THEN q[i] ELSE G[i - 1] \o q[i]
      <4>1. CASE i = k + 1
        <5>1. i # 1 /\ i - 1 = k /\ k \in 1..(k + 1) /\ k # k + 1
          BY <2>2, <4>1
        <5>2. G[i] = F[k] \o q[i]
          BY <4>1
        <5>3. G[k] = F[k]
          BY <5>1
        <5> QED
          BY <5>1, <5>2, <5>3
      <4>2. CASE i # k + 1
        <5>1. i \in 1..k /\ G[i] = F[i]
          BY <4>2
        <5>2. i # 1 => i - 1 \in 1..(k + 1) /\ G[i - 1] = F[i - 1]
          BY <5>1
        <5> QED
          BY <3>2, <5>1, <5>2
      <4> QED
        BY <4>1, <4>2
    <3>4. G \in [1..(k + 1) -> Seq(S)]
      <4>1. F[k] \o q[k + 1] \in Seq(S)
        BY <2>2
      <4> QED
        BY <4>1
    <3>5. Flattens(q, k + 1, G)
      BY <3>3 DEF Flattens
    <3> HIDE DEF G
    <3>6. Partial(k + 1)
      BY <3>4, <3>5
    <3> QED
      BY <3>6
  <2> QED
    BY <2>1, <2>2
<1>3. Partial(n)
  <2> HIDE DEF known
  <2>1. \A k \in 0..n : k \in known
    BY <1>1, <1>2, Induction
  <2>2. n \in 0..n
    OBVIOUS
  <2> QED
    BY <2>1, <2>2 DEF known
<1>4. PICK F \in [1..n -> Seq(S)] : Flattens(q, n, F)
  BY <1>3
<1>5. Len(q) = n
  OBVIOUS
<1> DEFINE C == CHOOSE G : Flattens(q, n, G)
<1>6. FlattenSeq(q) = C[n]
  BY <1>5 DEF FlattenSeq, Flattens
<1>7. Flattens(q, n, C)
  BY <1>4
<1> HIDE DEF C
<1>8. Agree(C, F, n)
  <2>1. n \in Nat /\ n <= n /\ Agree(q, q, n)
    BY DEF Agree
  <2> QED
    BY <1>4, <1>7, <2>1, FlattenSame
<1>9. C[n] = F[n]
  BY <1>8 DEF Agree
<1> HIDE DEF known, Partial
<1> QED
  BY <1>4, <1>6, <1>9
  
\* Nothing flattens to nothing.
LEMMA FlattenEmpty == ASSUME NEW q, q = <<>> PROVE FlattenSeq(q) = <<>>
  BY DEF FlattenSeq

\* What one more sequence adds.
LEMMA FlattenAnother ==
  ASSUME NEW S, NEW n \in Nat, NEW q \in [1..(n + 1) -> Seq(S)], NEW r \in [1..n -> Seq(S)],
         \A i \in 1..n : r[i] = q[i]
  PROVE  FlattenSeq(r) \in Seq(S) /\ FlattenSeq(q) = FlattenSeq(r) \o q[n + 1]
<1>1. PICK G \in [1..(n + 1) -> Seq(S)] : Flattens(q, n + 1, G) /\ FlattenSeq(q) = G[n + 1]
  BY FlattenDefined
<1>2. CASE n = 0
  <2>1. r = <<>>
    BY <1>2
  <2>2. FlattenSeq(r) = <<>>
    BY <2>1, FlattenEmpty
  <2>3. G[1] = q[1] /\ q[1] \in Seq(S)
    BY <1>1, <1>2 DEF Flattens
  <2>4. <<>> \o q[1] = q[1]
    BY <2>3
  <2> QED
    BY <1>1, <1>2, <2>2, <2>3, <2>4
<1>3. CASE n # 0
  <2>1. PICK F \in [1..n -> Seq(S)] : Flattens(r, n, F) /\ FlattenSeq(r) = F[n]
    BY <1>3, FlattenDefined
  <2>2. Agree(F, G, n)
    <3> DEFINE m == n + 1
    <3>1. m \in Nat /\ n <= m /\ Flattens(r, n, F) /\ Flattens(q, m, G) /\ Agree(r, q, n)
      BY <1>1, <2>1 DEF Agree
    <3> HIDE DEF m
    <3> QED
      BY <3>1, FlattenSame
  <2>3. G[n + 1] = G[n] \o q[n + 1]
    <3>1. n + 1 \in 1..(n + 1) /\ n + 1 # 1 /\ (n + 1) - 1 = n
      BY <1>3
    <3> QED
      BY <1>1, <3>1 DEF Flattens
  <2>4. n \in 1..n
    BY <1>3
  <2>5. F[n] = G[n] /\ F[n] \in Seq(S)
    BY <2>2, <2>4 DEF Agree
  <2> QED
    BY <1>1, <2>1, <2>3, <2>5
<1> QED
  BY <1>2, <1>3

-----------------------------------------------------------------------------
(* Folds *)

\* The maximum of a finite set of numbers is in the set and bounds it.
LEMMA MaxOf ==
  ASSUME NEW n \in Nat, NEW s \in SUBSET (1..n), s # {}
  PROVE  Max(s) \in s /\ \A y \in s : y <= Max(s)
<1> DEFINE below == {n - x : x \in s}
<1>1. below \in SUBSET Nat /\ below # {}
  OBVIOUS
<1>2. PICK d \in below : \A e \in below : d <= e
  <2> HIDE DEF below
  <2> QED
    BY <1>1, LeastNatural
<1>3. PICK x \in s : d = n - x
  BY <1>2
<1>4. \A y \in s : x >= y
  <2> SUFFICES ASSUME NEW y \in s PROVE x >= y
    OBVIOUS
  <2>1. n - y \in below
    OBVIOUS
  <2>2. d <= n - y
    BY <1>2, <2>1
  <2>3. x \in Nat /\ y \in Nat
    OBVIOUS
  <2> QED
    BY <1>3, <2>2, <2>3
<1> HIDE DEF below
<1>5. Max(s) \in s /\ \A y \in s : Max(s) >= y
  BY <1>4 DEF Max
<1> QED
  BY <1>5

\* The first k indices without the last of them.
LEMMA HeadOf ==
  ASSUME NEW n \in Nat, NEW k \in 1..n
  PROVE  /\ 1..k \in SUBSET (1..n) /\ 1..k # {}
         /\ Max(1..k) = k /\ (1..k) \ {Max(1..k)} = 1..(k - 1)
<1>1. 1..k \in SUBSET (1..n) /\ k \in 1..k /\ 1..k # {} /\ k \in Nat
  OBVIOUS
<1>2. Max(1..k) \in 1..k /\ \A y \in 1..k : y <= Max(1..k)
  BY <1>1, MaxOf
<1>3. Max(1..k) = k
  <2>1. k <= Max(1..k)
    BY <1>1, <1>2
  <2> QED
    BY <1>2, <2>1
<1>4. (1..k) \ {k} = 1..(k - 1)
  OBVIOUS
<1> QED
  BY <1>1, <1>3, <1>4

\* F is the function behind the fold of n elements.
Folds(step, start, n, F) ==
    F = [s \in SUBSET (1..n) |->
            IF s = {} THEN start ELSE step[<<F[s \ {Max(s)}], Max(s)>>]]

\* It exists, and has its values where the steps have theirs.
LEMMA FoldExists ==
  ASSUME NEW n \in Nat, NEW V, NEW start \in V, NEW step \in [V \X (1..n) -> V]
  PROVE  \E F \in [SUBSET (1..n) -> V] : Folds(step, start, n, F)
<1> DEFINE Partial(k) == \E F \in [SUBSET (1..k) -> V] : Folds(step, start, k, F)
           known == {k \in Nat : Partial(k)}
<1>1. 0 \in known
  <2> DEFINE F == [s \in SUBSET (1..0) |-> start]
  <2>1. \A s \in SUBSET (1..0) : s = {}
    OBVIOUS
  <2>2. Folds(step, start, 0, F)
    BY <2>1 DEF Folds
  <2>3. F \in [SUBSET (1..0) -> V]
    OBVIOUS
  <2> HIDE DEF F
  <2>4. Partial(0)
    BY <2>2, <2>3
  <2> QED
    BY <2>4
<1>2. ASSUME NEW k \in 0..(n - 1), k \in known PROVE k + 1 \in known
  <2>1. PICK F \in [SUBSET (1..k) -> V] : Folds(step, start, k, F)
    BY <1>2
  <2> DEFINE turn(value, i) == step[<<value, i>>]
  <2>2. F = [s \in SUBSET (1..k) |-> IF s = {} THEN start ELSE turn(F[s \ {Max(s)}], Max(s))]
    BY <2>1 DEF Folds
  <2>3. \A value \in V : turn(value, k + 1) \in V
    <3>1. k + 1 \in 1..n
      OBVIOUS
    <3> QED
      BY <3>1
  <2> DEFINE G == [s \in SUBSET (1..(k + 1)) |->
                      IF k + 1 \in s THEN turn(F[s \ {k + 1}], k + 1) ELSE F[s]]
  <2> HIDE DEF turn
  <2>4. \A s \in SUBSET (1..(k + 1)) : /\ k + 1 \notin s => s \in SUBSET (1..k)
                                       /\ s \ {k + 1} \in SUBSET (1..k)
    OBVIOUS
  <2>5. ASSUME NEW s \in SUBSET (1..(k + 1))
        PROVE  G[s] = IF s = {} THEN start ELSE turn(G[s \ {Max(s)}], Max(s))
    <3>1. CASE s = {}
      <4>1. s \in SUBSET (1..k) /\ k + 1 \notin s
        BY <3>1
      <4>2. G[s] = F[s] /\ F[s] = start
        BY <2>2, <3>1, <4>1
      <4> QED
        BY <3>1, <4>2
    <3>2. CASE k + 1 \in s
      <4>1. Max(s) \in s /\ \A y \in s : y <= Max(s)
        BY <3>2, MaxOf, k + 1 \in Nat
      <4>2. Max(s) = k + 1
        <5>1. Max(s) \in 1..(k + 1) /\ k + 1 <= Max(s)
          BY <3>2, <4>1
        <5> QED
          BY <5>1
      <4>3. s \ {k + 1} \in SUBSET (1..(k + 1)) /\ k + 1 \notin s \ {k + 1}
        OBVIOUS
      <4>4. G[s \ {k + 1}] = F[s \ {k + 1}]
        BY <4>3
      <4>5. G[s] = turn(F[s \ {k + 1}], k + 1)
        BY <3>2
      <4> QED
        BY <3>2, <4>2, <4>4, <4>5
    <3>3. CASE s # {} /\ k + 1 \notin s
      <4>1. s \in SUBSET (1..k)
        BY <2>4, <3>3
      <4>2. Max(s) \in s
        BY <3>3, <4>1, MaxOf, k \in Nat
      <4>3. s \ {Max(s)} \in SUBSET (1..k) /\ s \ {Max(s)} \in SUBSET (1..(k + 1)) /\ k + 1 \notin s \ {Max(s)}
        BY <3>3, <4>1
      <4>4. G[s] = F[s] /\ G[s \ {Max(s)}] = F[s \ {Max(s)}]
        BY <3>3, <4>3
      <4>5. F[s] = turn(F[s \ {Max(s)}], Max(s))
        BY <2>2, <3>3, <4>1
      <4> QED
        BY <3>3, <4>4, <4>5
    <3> QED
      BY <3>1, <3>2, <3>3
  <2>6. G = [s \in SUBSET (1..(k + 1)) |-> IF s = {} THEN start ELSE turn(G[s \ {Max(s)}], Max(s))]
    <3>1. DOMAIN G = SUBSET (1..(k + 1)) /\ G = [s \in DOMAIN G |-> G[s]]
      OBVIOUS
    <3> HIDE DEF G
    <3> QED
      BY <2>5, <3>1
  <2>7. G \in [SUBSET (1..(k + 1)) -> V]
    <3>1. \A s \in SUBSET (1..k) : F[s] \in V
      OBVIOUS
    <3>2. ASSUME NEW s \in SUBSET (1..(k + 1)) PROVE G[s] \in V
      <4>1. CASE k + 1 \in s
        BY <2>3, <2>4, <3>1, <4>1
      <4>2. CASE k + 1 \notin s
        BY <2>4, <3>1, <4>2
      <4> QED
        BY <4>1, <4>2
    <3>3. DOMAIN G = SUBSET (1..(k + 1)) /\ G = [s \in DOMAIN G |-> G[s]]
      OBVIOUS
    <3> HIDE DEF G
    <3> QED
      BY <3>2, <3>3
  <2> HIDE DEF G
  <2>8. Folds(step, start, k + 1, G)
    BY <2>6 DEF Folds, turn
  <2>9. Partial(k + 1)
    BY <2>7, <2>8
  <2> HIDE DEF Partial
  <2> QED
    BY <2>9
<1> HIDE DEF known
<1>3. \A k \in 0..n : k \in known
  BY <1>1, <1>2, Induction
<1>4. n \in 0..n
  OBVIOUS
<1> QED
  BY <1>3, <1>4 DEF known

-----------------------------------------------------------------------------
(* Sums *)

\* The sum of the first n numbers of w.
SumTo(w, n) == FoldLeft(LAMBDA a, x : a + x, 0, [i \in 1..n |-> w[i]])

\* H has the sums of w, one number after the other, up to n.
Adds(w, n, H) == H[0] = 0 /\ \A k \in 1..n : H[k] = H[k - 1] + w[k]

\* F is the function behind a sum that is written as a fold.
Sums(w, n, F) ==
    F = [s \in SUBSET (1..n) |-> IF s = {} THEN 0 ELSE F[s \ {Max(s)}] + w[Max(s)]]

\* It exists,
LEMMA SumExists ==
  ASSUME NEW n \in Nat, NEW w, \A k \in 1..n : w[k] \in Int
  PROVE  \E F : Sums(w, n, F)
<1> DEFINE step == [p \in Int \X (1..n) |-> p[1] + w[p[2]]]
<1>1. step \in [Int \X (1..n) -> Int] /\ 0 \in Int
  OBVIOUS
<1>2. PICK F \in [SUBSET (1..n) -> Int] : Folds(step, 0, n, F)
  <2> HIDE DEF step
  <2> QED
    BY <1>1, FoldExists
<1>3. F = [s \in SUBSET (1..n) |-> IF s = {} THEN 0 ELSE F[s \ {Max(s)}] + w[Max(s)]]
  <2>1. ASSUME NEW s \in SUBSET (1..n)
        PROVE  F[s] = IF s = {} THEN 0 ELSE F[s \ {Max(s)}] + w[Max(s)]
    <3>1. F[s] = IF s = {} THEN 0 ELSE step[<<F[s \ {Max(s)}], Max(s)>>]
      BY <1>2 DEF Folds
    <3>2. CASE s # {}
      <4>1. Max(s) \in 1..n /\ F[s \ {Max(s)}] \in Int
        BY <3>2, MaxOf
      <4>2. step[<<F[s \ {Max(s)}], Max(s)>>] = F[s \ {Max(s)}] + w[Max(s)]
        BY <4>1
      <4> QED
        BY <3>1, <3>2, <4>2
    <3> QED
      BY <3>1, <3>2
  <2> QED
    BY <2>1
<1> QED
  BY <1>3 DEF Sums

\* and has one sum after the other.
LEMMA SumsAdd ==
  ASSUME NEW n \in Nat, NEW w, NEW C, Sums(w, n, C)
  PROVE  \E H : Adds(w, n, H) /\ C[1..n] = H[n]
<1> DEFINE H == [k \in 0..n |-> C[1..k]]
<1>1. \A s \in SUBSET (1..n) : C[s] = IF s = {} THEN 0 ELSE C[s \ {Max(s)}] + w[Max(s)]
  BY DEF Sums
<1>2. H[0] = 0
  <2>1. 1..0 = {} /\ 1..0 \in SUBSET (1..n)
    OBVIOUS
  <2>2. C[1..0] = 0
    BY <1>1, <2>1
  <2> QED
    BY <2>2
<1>3. ASSUME NEW k \in 1..n PROVE H[k] = H[k - 1] + w[k]
  <2>1. /\ 1..k \in SUBSET (1..n) /\ 1..k # {}
        /\ Max(1..k) = k /\ (1..k) \ {Max(1..k)} = 1..(k - 1)
    BY HeadOf
  <2>2. C[1..k] = C[(1..k) \ {Max(1..k)}] + w[Max(1..k)]
    BY <1>1, <2>1
  <2>3. H[k] = C[1..k] /\ H[k - 1] = C[1..(k - 1)]
    OBVIOUS
  <2> QED
    BY <2>1, <2>2, <2>3
<1>4. C[1..n] = H[n]
  OBVIOUS
<1> HIDE DEF H
<1>5. Adds(w, n, H)
  BY <1>2, <1>3 DEF Adds
<1> QED
  BY <1>4, <1>5

\* Two such functions agree.
LEMMA AddsSame ==
  ASSUME NEW n \in Nat, NEW w, NEW v, Agree(w, v, n), NEW H, NEW G, Adds(w, n, H), Adds(v, n, G)
  PROVE  H[n] = G[n]
<1> DEFINE same == {k \in Nat : H[k] = G[k]}
<1>1. 0 \in same
  BY DEF Adds
<1>2. ASSUME NEW k \in 0..(n - 1), k \in same PROVE k + 1 \in same
  <2>1. k + 1 \in 1..n /\ k + 1 \in Nat /\ (k + 1) - 1 = k
    OBVIOUS
  <2>2. H[k + 1] = H[k] + w[k + 1] /\ G[k + 1] = G[k] + v[k + 1] /\ w[k + 1] = v[k + 1]
    BY <2>1 DEF Adds, Agree
  <2> QED
    BY <1>2, <2>1, <2>2
<1> HIDE DEF same
<1>3. \A k \in 0..n : k \in same
  BY <1>1, <1>2, Induction
<1>4. n \in 0..n
  OBVIOUS
<1> QED
  BY <1>3, <1>4 DEF same

\* A function that has the sums has the sum.
LEMMA SumOf ==
  ASSUME NEW n \in Nat, NEW w, \A k \in 1..n : w[k] \in Int
  PROVE  /\ \E H : Adds(w, n, H)
         /\ \A H : Adds(w, n, H) => H[n] = SumTo(w, n)
<1> DEFINE u == [i \in 1..n |-> w[i]]
           C == CHOOSE F : F = [s \in SUBSET (1..n) |-> IF s = {} THEN 0 ELSE F[s \ {Max(s)}] + u[Max(s)]]
<1>1. SumTo(w, n) = C[1..n]
  <2>1. DOMAIN u = 1..n
    OBVIOUS
  <2>2. SumTo(w, n) = FoldLeft(LAMBDA a, x : a + x, 0, u)
    BY DEF SumTo
  <2> HIDE DEF u
  <2> QED
    BY <2>1, <2>2 DEF FoldLeft, MapThenFoldSet
<1>2. Agree(u, w, n) /\ \A k \in 1..n : u[k] \in Int
  BY DEF Agree
<1> HIDE DEF u
<1>3. PICK G : Adds(u, n, G) /\ C[1..n] = G[n]
  <2>1. \E F : F = [s \in SUBSET (1..n) |-> IF s = {} THEN 0 ELSE F[s \ {Max(s)}] + u[Max(s)]]
    BY <1>2, SumExists DEF Sums
  <2>2. C = [s \in SUBSET (1..n) |-> IF s = {} THEN 0 ELSE C[s \ {Max(s)}] + u[Max(s)]]
    BY <2>1
  <2> HIDE DEF C
  <2>3. Sums(u, n, C)
    BY <2>2 DEF Sums
  <2> QED
    BY <2>3, SumsAdd
<1> HIDE DEF C
<1>4. Adds(w, n, G)
  BY <1>2, <1>3 DEF Adds, Agree
<1>5. ASSUME NEW H, Adds(w, n, H) PROVE H[n] = SumTo(w, n)
  BY <1>1, <1>2, <1>3, <1>5, AddsSame
<1> QED
  BY <1>4, <1>5

\* A sum, number by number.
LEMMA SumSteps ==
  ASSUME NEW n \in Nat, NEW w, \A k \in 1..n : w[k] \in Int
  PROVE  /\ SumTo(w, 0) = 0
         /\ \A k \in 1..n : SumTo(w, k) = SumTo(w, k - 1) + w[k]
         /\ \A k \in 0..n : SumTo(w, k) \in Int
<1>1. PICK H : Adds(w, n, H)
  BY SumOf
<1>2. ASSUME NEW k \in 0..n PROVE H[k] = SumTo(w, k)
  <2>1. k \in Nat /\ Adds(w, k, H) /\ \A i \in 1..k : w[i] \in Int
    BY <1>1 DEF Adds
  <2> QED
    BY <2>1, SumOf
<1>3. ASSUME NEW k \in 1..n PROVE H[k] = H[k - 1] + w[k]
  BY <1>1 DEF Adds
<1>4. SumTo(w, 0) = 0
  <2>1. H[0] = 0
    BY <1>1 DEF Adds
  <2> QED
    BY <1>2, <2>1
<1>5. ASSUME NEW k \in 1..n PROVE SumTo(w, k) = SumTo(w, k - 1) + w[k]
  <2>1. k \in 0..n /\ k - 1 \in 0..n
    OBVIOUS
  <2> QED
    BY <1>2, <1>3, <2>1
<1> DEFINE numbers == {k \in Nat : SumTo(w, k) \in Int}
<1>6. 0 \in numbers
  BY <1>4
<1>7. ASSUME NEW k \in 0..(n - 1), k \in numbers PROVE k + 1 \in numbers
  <2>1. k + 1 \in 1..n /\ (k + 1) - 1 = k /\ k + 1 \in Nat
    OBVIOUS
  <2>2. SumTo(w, k + 1) = SumTo(w, k) + w[k + 1]
    BY <1>5, <2>1
  <2> QED
    BY <1>7, <2>1, <2>2
<1> HIDE DEF numbers
<1>8. \A k \in 0..n : k \in numbers
  BY <1>6, <1>7, Induction
<1> QED
  BY <1>4, <1>5, <1>8 DEF numbers

\* Equal numbers have equal sums.
LEMMA SumSame ==
  ASSUME NEW n \in Nat, NEW w, NEW v, \A k \in 1..n : w[k] \in Int, Agree(w, v, n)
  PROVE  SumTo(w, n) = SumTo(v, n)
<1>1. \A k \in 1..n : v[k] \in Int
  BY DEF Agree
<1>2. PICK H : Adds(w, n, H)
  BY SumOf
<1>3. PICK G : Adds(v, n, G)
  BY <1>1, SumOf
<1>4. H[n] = SumTo(w, n)
  BY <1>2, SumOf
<1>5. G[n] = SumTo(v, n)
  BY <1>1, <1>3, SumOf
<1> QED
  BY <1>2, <1>3, <1>4, <1>5, AddsSame

\* Sums of natural numbers do not shrink.
LEMMA SumGrows ==
  ASSUME NEW n \in Nat, NEW w, \A k \in 1..n : w[k] \in Nat, NEW m \in 0..n
  PROVE  SumTo(w, m) \in Nat /\ SumTo(w, n) \in Nat /\ SumTo(w, m) <= SumTo(w, n)
<1>1. /\ SumTo(w, 0) = 0
      /\ \A k \in 1..n : SumTo(w, k) = SumTo(w, k - 1) + w[k]
  BY SumSteps
<1> DEFINE grown == {k \in Nat : /\ SumTo(w, k) \in Nat
                                 /\ m <= k => SumTo(w, m) \in Nat /\ SumTo(w, m) <= SumTo(w, k)}
<1>2. 0 \in grown
  <2>1. m <= 0 => m = 0
    OBVIOUS
  <2> QED
    BY <1>1, <2>1
<1>3. ASSUME NEW k \in 0..(n - 1), k \in grown PROVE k + 1 \in grown
  <2>1. k + 1 \in 1..n /\ (k + 1) - 1 = k /\ k + 1 \in Nat /\ k \in Nat
    OBVIOUS
  <2>2. SumTo(w, k + 1) = SumTo(w, k) + w[k + 1] /\ w[k + 1] \in Nat
    BY <1>1, <2>1
  <2>3. SumTo(w, k) \in Nat /\ (m <= k => SumTo(w, m) \in Nat /\ SumTo(w, m) <= SumTo(w, k))
    BY <1>3
  <2>4. SumTo(w, k + 1) \in Nat /\ SumTo(w, k) <= SumTo(w, k + 1)
    BY <2>2, <2>3
  <2>5. CASE m = k + 1
    BY <2>1, <2>4, <2>5
  <2>6. CASE m # k + 1 /\ m <= k + 1
    <3>1. m <= k
      BY <2>1, <2>6
    <3> QED
      BY <2>1, <2>3, <2>4, <3>1
  <2> QED
    BY <2>1, <2>4, <2>5, <2>6
<1> HIDE DEF grown
<1>4. \A k \in 0..n : k \in grown
  BY <1>2, <1>3, Induction
<1>5. n \in 0..n /\ m <= n
  OBVIOUS
<1> QED
  BY <1>4, <1>5 DEF grown

\* The numbers of two sequences, one behind the other.
LEMMA SumBehind ==
  ASSUME NEW n \in Nat, NEW m \in Nat, NEW w, NEW v, NEW u,
         \A k \in 1..n : w[k] \in Int, \A k \in 1..m : v[k] \in Int,
         \A k \in 1..n : u[k] = w[k], \A k \in 1..m : u[n + k] = v[k]
  PROVE  SumTo(u, n + m) = SumTo(w, n) + SumTo(v, m)
<1>1. \A k \in 1..(n + m) : u[k] \in Int
  <2> SUFFICES ASSUME NEW k \in 1..(n + m) PROVE u[k] \in Int
    OBVIOUS
  <2>1. CASE k <= n
    BY <2>1
  <2>2. CASE k > n
    <3>1. k - n \in 1..m /\ n + (k - n) = k
      BY <2>2
    <3> QED
      BY <3>1
  <2> QED
    BY <2>1, <2>2
<1>2. \A k \in 1..(n + m) : SumTo(u, k) = SumTo(u, k - 1) + u[k]
  BY <1>1, SumSteps, n + m \in Nat
<1>3. /\ SumTo(v, 0) = 0
      /\ \A k \in 1..m : SumTo(v, k) = SumTo(v, k - 1) + v[k]
      /\ \A k \in 0..m : SumTo(v, k) \in Int
  BY SumSteps
<1>4. SumTo(w, n) \in Int /\ SumTo(u, n) = SumTo(w, n)
  <2>1. Agree(w, u, n) /\ n \in 0..n
    BY DEF Agree
  <2> QED
    BY <2>1, SumSame, SumSteps
<1> DEFINE sums == {k \in Nat : SumTo(u, n + k) = SumTo(w, n) + SumTo(v, k)}
<1>5. 0 \in sums
  <2>1. n + 0 = n
    OBVIOUS
  <2> QED
    BY <1>3, <1>4, <2>1
<1>6. ASSUME NEW k \in 0..(m - 1), k \in sums PROVE k + 1 \in sums
  <2>1. /\ k + 1 \in 1..m /\ (k + 1) - 1 = k /\ k + 1 \in Nat /\ k \in 0..m
        /\ n + (k + 1) \in 1..(n + m) /\ (n + (k + 1)) - 1 = n + k
    OBVIOUS
  <2>2. SumTo(u, n + (k + 1)) = SumTo(u, n + k) + u[n + (k + 1)]
    BY <1>2, <2>1
  <2>3. SumTo(v, k + 1) = SumTo(v, k) + v[k + 1] /\ SumTo(v, k) \in Int /\ v[k + 1] \in Int
    BY <1>3, <2>1
  <2>4. u[n + (k + 1)] = v[k + 1]
    BY <2>1
  <2> QED
    BY <1>4, <1>6, <2>1, <2>2, <2>3, <2>4
<1> HIDE DEF sums
<1>7. \A k \in 0..m : k \in sums
  BY <1>5, <1>6, Induction
<1>8. m \in 0..m
  OBVIOUS
<1> QED
  BY <1>7, <1>8 DEF sums

\* A sum of which one number changes.
LEMMA SumChange ==
  ASSUME NEW n \in Nat, NEW w, NEW v, \A k \in 1..n : w[k] \in Int, \A k \in 1..n : v[k] \in Int,
         NEW s \in 1..n, \A k \in (1..n) \ {s} : v[k] = w[k]
  PROVE  \A m \in 0..n : SumTo(v, m) = IF m < s THEN SumTo(w, m) ELSE SumTo(w, m) + (v[s] - w[s])
<1>1. /\ SumTo(w, 0) = 0
      /\ \A k \in 1..n : SumTo(w, k) = SumTo(w, k - 1) + w[k]
      /\ \A k \in 0..n : SumTo(w, k) \in Int
  BY SumSteps
<1>2. /\ SumTo(v, 0) = 0
      /\ \A k \in 1..n : SumTo(v, k) = SumTo(v, k - 1) + v[k]
  BY SumSteps
<1> DEFINE right == {m \in Nat : SumTo(v, m) = IF m < s THEN SumTo(w, m) ELSE SumTo(w, m) + (v[s] - w[s])}
<1>3. 0 \in right
  BY <1>1, <1>2
<1>4. ASSUME NEW k \in 0..(n - 1), k \in right PROVE k + 1 \in right
  <2>1. k + 1 \in 1..n /\ (k + 1) - 1 = k /\ k + 1 \in Nat /\ k \in 0..n
    OBVIOUS
  <2>2. SumTo(v, k + 1) = SumTo(v, k) + v[k + 1] /\ SumTo(w, k + 1) = SumTo(w, k) + w[k + 1]
    BY <1>1, <1>2, <2>1
  <2>3. SumTo(v, k) = IF k < s THEN SumTo(w, k) ELSE SumTo(w, k) + (v[s] - w[s])
    BY <1>4
  <2>4. SumTo(w, k) \in Int /\ v[s] \in Int /\ w[s] \in Int /\ v[k + 1] \in Int /\ w[k + 1] \in Int
    BY <1>1, <2>1
  <2>5. k + 1 # s => v[k + 1] = w[k + 1]
    BY <2>1
  <2>6. SumTo(v, k + 1) = IF k + 1 < s THEN SumTo(w, k + 1) ELSE SumTo(w, k + 1) + (v[s] - w[s])
    <3>1. CASE k + 1 < s
      BY <2>1, <2>2, <2>3, <2>4, <2>5, <3>1
    <3>2. CASE k + 1 = s
      BY <2>1, <2>2, <2>3, <2>4, <3>2
    <3>3. CASE k + 1 > s
      BY <2>1, <2>2, <2>3, <2>4, <2>5, <3>3
    <3> QED
      BY <2>1, <3>1, <3>2, <3>3
  <2> QED
    BY <2>1, <2>6
<1> HIDE DEF right
<1>5. \A k \in 0..n : k \in right
  BY <1>3, <1>4, Induction
<1> QED
  BY <1>5 DEF right

\* A sum of nothing but zeros.
LEMMA SumZero ==
  ASSUME NEW n \in Nat, NEW w, \A k \in 1..n : w[k] = 0
  PROVE  SumTo(w, n) = 0
<1>1. /\ SumTo(w, 0) = 0
      /\ \A k \in 1..n : SumTo(w, k) = SumTo(w, k - 1) + w[k]
  <2>1. \A k \in 1..n : w[k] \in Int
    OBVIOUS
  <2> QED
    BY <2>1, SumSteps
<1> DEFINE none == {k \in Nat : SumTo(w, k) = 0}
<1>2. 0 \in none
  BY <1>1
<1>3. ASSUME NEW k \in 0..(n - 1), k \in none PROVE k + 1 \in none
  <2>1. k + 1 \in 1..n /\ (k + 1) - 1 = k /\ k + 1 \in Nat
    OBVIOUS
  <2>2. SumTo(w, k + 1) = SumTo(w, k) + w[k + 1] /\ w[k + 1] = 0
    BY <1>1, <2>1
  <2> QED
    BY <1>3, <2>1, <2>2
<1> HIDE DEF none
<1>4. \A k \in 0..n : k \in none
  BY <1>2, <1>3, Induction
<1>5. n \in 0..n
  OBVIOUS
<1> QED
  BY <1>4, <1>5 DEF none

\* A sum in which one number was changed.
LEMMA SumChanged ==
  ASSUME NEW n \in Nat, NEW w, NEW v, \A k \in 1..n : w[k] \in Int, \A k \in 1..n : v[k] \in Int,
         NEW s \in 1..n, \A k \in (1..n) \ {s} : v[k] = w[k]
  PROVE  SumTo(v, n) = SumTo(w, n) + (v[s] - w[s])
<1>1. \A m \in 0..n : SumTo(v, m) = IF m < s THEN SumTo(w, m) ELSE SumTo(w, m) + (v[s] - w[s])
  BY SumChange
<1>2. n \in 0..n /\ ~(n < s)
  OBVIOUS
<1> QED
  BY <1>1, <1>2

\* Numbers picked from a list, each at most once, are not more than all of it.
LEMMA SumPicked ==
  ASSUME NEW n \in Nat, NEW m \in Nat, NEW w, NEW u, NEW pick,
         \A j \in 1..n : pick[j] \in 0..m,
         \A i, j \in 1..n : pick[i] = pick[j] /\ pick[i] # 0 => i = j,
         \A k \in 1..m : u[k] \in Nat,
         \A j \in 1..n : w[j] = IF pick[j] = 0 THEN 0 ELSE u[pick[j]]
  PROVE  SumTo(w, n) <= SumTo(u, m)
<1> DEFINE upto(k) == [j \in 1..n |-> IF pick[j] \in 1..k THEN u[pick[j]] ELSE 0]
           good == {k \in Nat : SumTo(upto(k), n) <= SumTo(u, k)}
<1>1. /\ SumTo(u, 0) = 0
      /\ \A k \in 1..m : SumTo(u, k) = SumTo(u, k - 1) + u[k]
      /\ \A k \in 0..m : SumTo(u, k) \in Int
  <2>1. \A k \in 1..m : u[k] \in Int
    OBVIOUS
  <2> QED
    BY <2>1, SumSteps
<1>2. ASSUME NEW k \in 0..m, NEW j \in 1..n
      PROVE  upto(k)[j] \in Nat /\ upto(k)[j] \in Int /\ upto(k)[j] = IF pick[j] \in 1..k THEN u[pick[j]] ELSE 0
  OBVIOUS
<1> HIDE DEF upto
<1>3. 0 \in good
  <2>1. \A j \in 1..n : upto(0)[j] = 0
    BY <1>2
  <2>2. SumTo(upto(0), n) = 0
    BY <2>1, SumZero
  <2> QED
    BY <1>1, <2>2
<1>4. ASSUME NEW k \in 0..(m - 1), k \in good PROVE k + 1 \in good
  <2>1. k + 1 \in 1..m /\ (k + 1) - 1 = k /\ k + 1 \in Nat /\ k \in 0..m /\ k + 1 \in 0..m /\ k \in Nat
    OBVIOUS
  <2>2. SumTo(u, k + 1) = SumTo(u, k) + u[k + 1] /\ SumTo(u, k) \in Int /\ u[k + 1] \in Nat
    BY <1>1, <2>1
  <2>3. SumTo(upto(k), n) <= SumTo(u, k)
    BY <1>4 DEF good
  <2>4. /\ \A j \in 1..n : upto(k)[j] \in Int /\ upto(k + 1)[j] \in Int
        /\ n \in 0..n
    BY <1>2, <2>1
  <2>5. SumTo(upto(k), n) \in Int
    BY <2>4, SumSteps
  <2>6. CASE \E j \in 1..n : pick[j] = k + 1
    <3>1. PICK s \in 1..n : pick[s] = k + 1
      BY <2>6
    <3>2. upto(k)[s] = 0 /\ upto(k + 1)[s] = u[k + 1]
      BY <1>2, <2>1, <3>1
    <3>3. ASSUME NEW j \in (1..n) \ {s} PROVE upto(k + 1)[j] = upto(k)[j]
      <4>1. pick[j] # k + 1 /\ pick[j] \in 0..m
        BY <2>1, <3>1
      <4>2. pick[j] \in 1..(k + 1) <=> pick[j] \in 1..k
        BY <2>1, <4>1
      <4> QED
        BY <1>2, <2>1, <4>2
    <3>4. SumTo(upto(k + 1), n) = SumTo(upto(k), n) + (upto(k + 1)[s] - upto(k)[s])
      <4> DEFINE before == upto(k)
                 after == upto(k + 1)
      <4>1. /\ \A j \in 1..n : before[j] \in Int
            /\ \A j \in 1..n : after[j] \in Int
            /\ \A j \in (1..n) \ {s} : after[j] = before[j]
        BY <2>4, <3>3
      <4> HIDE DEF before, after
      <4>2. SumTo(after, n) = SumTo(before, n) + (after[s] - before[s])
        BY <4>1, SumChanged
      <4> QED
        BY <4>2 DEF before, after
    <3> QED
      BY <2>1, <2>2, <2>3, <2>5, <3>2, <3>4 DEF good
  <2>7. CASE ~(\E j \in 1..n : pick[j] = k + 1)
    <3>1. \A j \in 1..n : upto(k + 1)[j] = upto(k)[j]
      <4> SUFFICES ASSUME NEW j \in 1..n PROVE upto(k + 1)[j] = upto(k)[j]
        OBVIOUS
      <4>1. pick[j] # k + 1 /\ pick[j] \in 0..m
        BY <2>1, <2>7
      <4>2. pick[j] \in 1..(k + 1) <=> pick[j] \in 1..k
        BY <2>1, <4>1
      <4> QED
        BY <1>2, <2>1, <4>2
    <3>2. SumTo(upto(k), n) = SumTo(upto(k + 1), n)
      BY <2>4, <3>1, SumSame DEF Agree
    <3> QED
      BY <2>1, <2>2, <2>3, <2>5, <3>2 DEF good
  <2> QED
    BY <2>6, <2>7
<1> HIDE DEF good
<1>5. \A k \in 0..m : k \in good
  BY <1>3, <1>4, Induction
<1>6. SumTo(upto(m), n) <= SumTo(u, m)
  BY <1>5 DEF good
<1>7. \A j \in 1..n : upto(m)[j] = w[j]
  <2> SUFFICES ASSUME NEW j \in 1..n PROVE upto(m)[j] = w[j]
    OBVIOUS
  <2>1. pick[j] \in 0..m
    OBVIOUS
  <2>2. pick[j] \in 1..m <=> pick[j] # 0
    BY <2>1
  <2> QED
    BY <1>2, <2>2
<1>8. SumTo(upto(m), n) = SumTo(w, n)
  <2>1. \A j \in 1..n : upto(m)[j] \in Int
    BY <1>2
  <2> QED
    BY <1>7, <2>1, SumSame DEF Agree
<1> QED
  BY <1>6, <1>8
=============================================================================
