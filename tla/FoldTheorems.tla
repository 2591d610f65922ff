---------------------------- MODULE FoldTheorems ----------------------------
(***************************************************************************)
(* What FoldLeft computes, for any operator op: the facts an induction     *)
(* over the sequence would use.                                            *)
(***************************************************************************)
EXTENDS Integers, SequencesExt, FiniteSetTheorems, TLAPS

CONSTANT op(_, _)

Fold(base, seq) == FoldLeft(op, base, seq)

(* A set that contains 0 and with n also n + 1 contains every number.      *)
LEMMA Induction ==
  ASSUME NEW S, 0 \in S, \A n \in Nat : n \in S => n + 1 \in S
  PROVE  Nat \subseteq S
<1> SUFFICES ASSUME NEW m \in Nat, m \notin S PROVE FALSE
  OBVIOUS
<1> DEFINE B == {i \in 0 .. m : i \in S}
           f == [i \in B |-> i + 1]
<1>1. IsFiniteSet(B) /\ 0 \in B
  <2>1. IsFiniteSet(0 .. m)
    BY FS_Interval
  <2> QED
    BY <2>1, FS_Subset
<1>2. f \in [B -> B \ {0}]
  BY m \notin S
<1>3. IsFiniteSet(B \ {0}) /\ Cardinality(B \ {0}) < Cardinality(B)
  <2>1. IsFiniteSet(B \ {0}) /\ Cardinality(B \ {0}) = Cardinality(B) - 1
    BY <1>1, FS_RemoveElement
  <2> QED
    BY <1>1, <2>1, FS_CardinalityType
<1>4. \E i, j \in B : i # j /\ f[i] = f[j]
  <2> HIDE DEF f, B
  <2> QED
    BY <1>1, <1>2, <1>3, FS_PigeonHole
<1> QED
  BY <1>4

(* f is the function FoldLeft looks up: what is left of seq when only the  *)
(* positions in a set count.                                               *)
IsIter(f, base, seq, D) ==
  f = [s \in SUBSET D |->
         IF s = {} THEN base ELSE op(f[s \ {Max(s)}], seq[Max(s)])]

Iter(base, seq, D) == CHOOSE f : IsIter(f, base, seq, D)

LEMMA FoldIsIter ==
  ASSUME NEW base, NEW seq
  PROVE  Fold(base, seq) = Iter(base, seq, DOMAIN seq)[DOMAIN seq]
BY DEF Fold, FoldLeft, MapThenFoldSet, Iter, IsIter

LEMMA MaxIs ==
  ASSUME NEW S \in SUBSET Int, NEW m \in S, \A x \in S : x <= m
  PROVE  Max(S) = m
<1>1. \A x \in S : m >= x
  OBVIOUS
<1>2. \E x \in S : \A y \in S : x >= y
  BY <1>1
<1>3. Max(S) \in S /\ \A y \in S : Max(S) >= y
  BY <1>2, Zenon DEF Max
<1>4. PICK x \in Int : x = Max(S) /\ x >= m /\ x <= m
  BY <1>3
<1>5. m \in Int
  OBVIOUS
<1>6. x = m
  BY <1>4, <1>5
<1> QED
  BY <1>4, <1>6

LEMMA IterExists ==
  ASSUME NEW base, NEW seq
  PROVE  \A n \in Nat : \E f : IsIter(f, base, seq, 1 .. n)
<1> DEFINE S == {n \in Nat : \E f : IsIter(f, base, seq, 1 .. n)}
<1>1. 0 \in S
  <2> DEFINE f == [s \in SUBSET (1 .. 0) |-> base]
  <2>1. \A s \in SUBSET (1 .. 0) : s = {}
    OBVIOUS
  <2>2. f = [s \in SUBSET (1 .. 0) |->
               IF s = {} THEN base ELSE op(f[s \ {Max(s)}], seq[Max(s)])]
    BY <2>1
  <2>3. IsIter(f, base, seq, 1 .. 0)
    BY <2>2, Zenon DEF IsIter
  <2> QED
    BY <2>3
<1>2. ASSUME NEW n \in Nat, n \in S PROVE n + 1 \in S
  <2>1. PICK f : IsIter(f, base, seq, 1 .. n)
    BY <1>2
  <2> DEFINE g == [s \in SUBSET (1 .. n + 1) |->
                     IF n + 1 \in s THEN op(f[s \ {n + 1}], seq[n + 1]) ELSE f[s]]
  <2>2. ASSUME NEW s \in SUBSET (1 .. n + 1)
        PROVE  g[s] = IF s = {} THEN base ELSE op(g[s \ {Max(s)}], seq[Max(s)])
    <3>1. CASE n + 1 \in s
      <4>1. Max(s) = n + 1
        BY <3>1, MaxIs
      <4>2. s \ {n + 1} \in SUBSET (1 .. n + 1) /\ n + 1 \notin s \ {n + 1}
        OBVIOUS
      <4>3. g[s \ {n + 1}] = f[s \ {n + 1}]
        BY <4>2
      <4> QED
        BY <3>1, <4>1, <4>3
    <3>2. CASE s = {}
      <4>1. {} \in SUBSET (1 .. n) /\ g[{}] = f[{}]
        OBVIOUS
      <4>2. f[{}] = base
        BY <2>1, <4>1 DEF IsIter
      <4> QED
        BY <3>2, <4>1, <4>2
    <3>3. CASE n + 1 \notin s /\ s # {}
      <4>0. PICK t : t = s \ {Max(s)}
        OBVIOUS
      <4>1. s \in SUBSET (1 .. n) /\ t \in SUBSET (1 .. n + 1) /\ n + 1 \notin t
        <5>1. s \in SUBSET (1 .. n)
          BY <3>3
        <5> QED
          BY <3>3, <4>0, <5>1
      <4>2. g[s] = f[s] /\ g[t] = f[t]
        BY <3>3, <4>1
      <4>3. f[s] = op(f[t], seq[Max(s)])
        BY <2>1, <3>3, <4>0, <4>1 DEF IsIter
      <4> QED
        BY <3>3, <4>0, <4>2, <4>3
    <3> QED
      BY <3>1, <3>2, <3>3
  <2>3. IsIter(g, base, seq, 1 .. n + 1)
    <3>1. g = [s \in SUBSET (1 .. n + 1) |-> g[s]]
      OBVIOUS
    <3> HIDE DEF g
    <3> QED
      BY <2>2, <3>1, Zenon DEF IsIter
  <2> QED
    BY <2>3
<1> HIDE DEF S
<1>3. Nat \subseteq S
  BY <1>1, <1>2, Induction
<1> QED
  BY <1>3 DEF S

(* Folding the first k elements of seq, for every k.                       *)
Part(base, seq, k) == Iter(base, seq, DOMAIN seq)[1 .. k]

LEMMA PartIs ==
  ASSUME NEW E, NEW seq \in Seq(E), NEW base
  PROVE  /\ Part(base, seq, 0) = base
         /\ \A k \in 1 .. Len(seq) :
              Part(base, seq, k) = op(Part(base, seq, k - 1), seq[k])
         /\ Fold(base, seq) = Part(base, seq, Len(seq))
<1> DEFINE n == Len(seq)
           f == Iter(base, seq, 1 .. n)
<1>1. n \in Nat /\ DOMAIN seq = 1 .. n
  OBVIOUS
<1> HIDE DEF n
<1>2. \E g : IsIter(g, base, seq, 1 .. n)
  BY <1>1, IterExists
<1>3. IsIter(f, base, seq, 1 .. n)
  BY <1>2, Zenon DEF Iter
<1> HIDE DEF f
<1>4. \A s \in SUBSET (1 .. n) :
        f[s] = IF s = {} THEN base ELSE op(f[s \ {Max(s)}], seq[Max(s)])
  BY <1>3, Zenon DEF IsIter
<1>5. f[1 .. 0] = base
  <2>1. 1 .. 0 = {} /\ {} \in SUBSET (1 .. n)
    OBVIOUS
  <2> QED
    BY <1>4, <2>1
<1>6. ASSUME NEW k \in 1 .. n PROVE f[1 .. k] = op(f[1 .. k - 1], seq[k])
  <2>1. Max(1 .. k) = k
    <3>1. 1 .. k \in SUBSET Int /\ k \in 1 .. k /\ \A x \in 1 .. k : x <= k
      BY <1>1
    <3> QED
      BY <3>1, MaxIs
  <2>2. 1 .. k \in SUBSET (1 .. n) /\ 1 .. k # {} /\ (1 .. k) \ {k} = 1 .. k - 1
    BY <1>1
  <2> QED
    BY <1>4, <2>1, <2>2
<1>7. \A k : Part(base, seq, k) = f[1 .. k]
  BY <1>1 DEF Part, f
<1>8. Fold(base, seq) = f[1 .. n]
  BY <1>1, FoldIsIter DEF f
<1> QED
  BY <1>5, <1>6, <1>7, <1>8 DEF n

(* The fold reaches T[Len(seq)] if it starts in T[0] and its k-th step     *)
(* leads from T[k - 1] to T[k].                                            *)
THEOREM FoldAlong ==
  ASSUME NEW E, NEW seq \in Seq(E), NEW base, NEW T, base \in T[0],
         \A k \in 1 .. Len(seq) : \A x \in T[k - 1] : op(x, seq[k]) \in T[k]
  PROVE  Fold(base, seq) \in T[Len(seq)]
<1> DEFINE S == {k \in Nat : k <= Len(seq) => Part(base, seq, k) \in T[k]}
<1>1. 0 \in S
  BY PartIs
<1>2. ASSUME NEW k \in Nat, k \in S PROVE k + 1 \in S
  <2> SUFFICES ASSUME k + 1 <= Len(seq) PROVE Part(base, seq, k + 1) \in T[k + 1]
    OBVIOUS
  <2>1. k + 1 \in 1 .. Len(seq) /\ (k + 1) - 1 = k /\ k <= Len(seq)
    OBVIOUS
  <2>2. Part(base, seq, k) \in T[k]
    BY <1>2, <2>1
  <2>3. Part(base, seq, k + 1) = op(Part(base, seq, k), seq[k + 1])
    <3>1. \A j \in 1 .. Len(seq) :
            Part(base, seq, j) = op(Part(base, seq, j - 1), seq[j])
      BY PartIs
    <3> QED
      BY <2>1, <3>1
  <2> QED
    BY <2>1, <2>2, <2>3
<1> HIDE DEF S
<1>3. Len(seq) \in S
  BY <1>1, <1>2, Induction
<1>4. Part(base, seq, Len(seq)) \in T[Len(seq)]
  BY <1>3 DEF S
<1> QED
  BY <1>4, PartIs

(* The fold stays in a set that every step stays in.                       *)
THEOREM FoldStays ==
  ASSUME NEW E, NEW seq \in Seq(E), NEW T, NEW base \in T,
         \A x \in T, e \in E : op(x, e) \in T
  PROVE  Fold(base, seq) \in T
<1> DEFINE U == [k \in Nat |-> T]
<1>1. base \in U[0] /\ Len(seq) \in Nat
  OBVIOUS
<1>2. \A k \in 1 .. Len(seq) : k - 1 \in Nat /\ k \in Nat /\ seq[k] \in E
  OBVIOUS
<1>3. \A k \in 1 .. Len(seq) : \A x \in U[k - 1] : op(x, seq[k]) \in U[k]
  BY <1>2
<1> HIDE DEF U
<1>4. Fold(base, seq) \in U[Len(seq)]
  BY <1>1, <1>3, FoldAlong
<1> QED
  BY <1>1, <1>4 DEF U
=============================================================================
