----------------------------- MODULE DataLemmas -----------------------------
(***************************************************************************)
(* Facts about data the proofs of the modules share.  Induction over the   *)
(* naturals is the existence of a least element: a set that holds 0 and,   *)
(* with each number, the next one holds them all.                          *)
(***************************************************************************)
EXTENDS Integers, Sequences, FiniteSets, SequencesExt, FiniteSetTheorems, TLAPS

\* A set of naturals that is not empty has a least element.
LEMMA LeastElement ==
    ASSUME NEW T \in SUBSET Nat, T # {}
    PROVE  \E x \in T : \A y \in T : x =< y
  <1> DEFINE R == OpToRel(<, Nat)
  <1>1. IsWellFoundedOn(R, Nat)
    BY NatLessThanWellFounded
  <1>2. \A x, y \in T : y < x => <<y, x>> \in R
    BY DEF OpToRel
  <1> HIDE DEF R
  <1>3. \E x \in T : \A y \in T : ~ (<<y, x>> \in R)
    BY <1>1, WFMin
  <1>4. \E x \in T : \A y \in T : ~ (y < x)
    BY <1>2, <1>3
  <1> QED
    BY <1>4, Z3

\* Induction: for a set of naturals in place of a predicate.
LEMMA Induction ==
    ASSUME NEW P, 0 \in P, \A n \in Nat : n \in P => n + 1 \in P
    PROVE  \A n \in Nat : n \in P
  <1> DEFINE T == {n \in Nat : n \notin P}
  <1>1. ASSUME T # {}
        PROVE  FALSE
    <2>1. T \in SUBSET Nat
      OBVIOUS
    <2>2. PICK x \in T : \A y \in T : x =< y
      <3> HIDE DEF T
      <3> QED
        BY <1>1, <2>1, LeastElement
    <2>3. x # 0 /\ x \in Nat /\ x \notin P
      OBVIOUS
    <2>4. x - 1 \in Nat /\ x - 1 \notin T
      BY <2>2, <2>3
    <2> QED
      BY <2>3, <2>4
  <1> QED
    BY <1>1

\* The same up to a bound.
LEMMA InductionUpTo ==
    ASSUME NEW N \in Nat, NEW P, 0 \in P, \A n \in 0 .. N - 1 : n \in P => n + 1 \in P
    PROVE  \A n \in 0 .. N : n \in P
  <1> DEFINE Q == P \cup {n \in Nat : n > N}
  <1>1. 0 \in Q
    OBVIOUS
  <1>2. \A n \in Nat : n \in Q => n + 1 \in Q
    OBVIOUS
  <1> HIDE DEF Q
  <1>3. \A n \in Nat : n \in Q
    BY <1>1, <1>2, Induction
  <1> QED
    BY <1>3 DEF Q

\* A bounded set of integers that is not empty has a greatest element.
LEMMA GreatestElement ==
    ASSUME NEW T \in SUBSET Int, T # {}, NEW b \in Int, \A x \in T : x =< b
    PROVE  \E x \in T : \A y \in T : y =< x
  <1> DEFINE D == {b - x : x \in T}
  <1>1. D \in SUBSET Nat /\ D # {}
    <2>1. \A x \in T : b - x \in Nat /\ b - x \in D
      OBVIOUS
    <2> QED
      BY <2>1
  <1>2. PICK d \in D : \A e \in D : d =< e
    <2> HIDE DEF D
    <2> QED
      BY <1>1, LeastElement
  <1>3. PICK x \in T : d = b - x
    OBVIOUS
  <1>4. \A y \in T : b - x =< b - y
    BY <1>2, <1>3
  <1> QED
    BY <1>4

\* A finite set of integers has a bound.
LEMMA FiniteIsBounded ==
    ASSUME NEW S \in SUBSET Int, IsFiniteSet(S)
    PROVE  \E b \in Int : \A x \in S : x =< b
  <1> DEFINE P == {n \in Nat : \A T \in SUBSET Int :
                      IsFiniteSet(T) /\ Cardinality(T) = n => \E b \in Int : \A x \in T : x =< b}
  <1>1. 0 \in P
    BY FS_EmptySet
  <1>2. ASSUME NEW n \in Nat, n \in P
        PROVE  n + 1 \in P
    <2>1. ASSUME NEW T \in SUBSET Int, IsFiniteSet(T), Cardinality(T) = n + 1
          PROVE  \E b \in Int : \A x \in T : x =< b
      <3>1. PICK z \in T : TRUE
        <4>1. T # {}
          BY <1>2, <2>1, FS_EmptySet
        <4> QED
          BY <4>1
      <3>2. IsFiniteSet(T \ {z}) /\ Cardinality(T \ {z}) = n
        BY <2>1, <3>1, FS_RemoveElement
      <3>3. PICK b \in Int : \A x \in T \ {z} : x =< b
        BY <1>2, <3>2
      <3>4. \A x \in T : x =< (IF z =< b THEN b ELSE z)
        BY <3>1, <3>3
      <3> QED
        BY <3>1, <3>4
    <2> QED
      BY <2>1
  <1>3. Cardinality(S) \in Nat
    BY FS_CardinalityType
  <1> HIDE DEF P
  <1>4. Cardinality(S) \in P
    BY <1>1, <1>2, <1>3, Induction
  <1> QED
    BY <1>4 DEF P

LEMMA FiniteHasGreatest ==
    ASSUME NEW S \in SUBSET Int, IsFiniteSet(S), S # {}
    PROVE  \E x \in S : \A y \in S : y =< x
  BY FiniteIsBounded, GreatestElement

\* The values of a recursive function that makes each value of the one before it.
Iterated(h, S, base, step, N) ==
    h \in [0 .. N -> S] /\ h[0] = base /\ \A n \in 1 .. N : h[n] = step[n][h[n - 1]]

LEMMA Iterates ==
    ASSUME NEW S, NEW base \in S, NEW N \in Nat, NEW step \in [1 .. N -> [S -> S]]
    PROVE  \E h : Iterated(h, S, base, step, N)
  <1> DEFINE Good(h, m) == Iterated(h, S, base, step, m)
             P == {m \in Nat : m =< N => \E h : Good(h, m)}
  <1>1. 0 \in P
    <2> DEFINE h == [n \in 0 .. 0 |-> base]
    <2>1. Good(h, 0)
      BY DEF Iterated
    <2> HIDE DEF h, Good
    <2> QED
      BY <2>1
  <1>2. ASSUME NEW m \in Nat, m \in P
        PROVE  m + 1 \in P
    <2>1. ASSUME m + 1 =< N
          PROVE  \E h : Good(h, m + 1)
      <3>1. PICK h : h \in [0 .. m -> S] /\ h[0] = base /\ \A n \in 1 .. m : h[n] = step[n][h[n - 1]]
        BY <1>2, <2>1 DEF Iterated
      <3> DEFINE g == [n \in 0 .. m + 1 |-> IF n =< m THEN h[n] ELSE step[n][h[m]]]
      <3>2. g[0] = base
        BY <3>1
      <3>3. g \in [0 .. m + 1 -> S]
        <4>1. \A n \in 0 .. m + 1 : n =< m => h[n] \in S
          BY <3>1
        <4>2. \A n \in 0 .. m + 1 : ~ (n =< m) => n \in 1 .. N
          BY <2>1
        <4>3. \A n \in 1 .. N : step[n][h[m]] \in S
          BY <3>1
        <4> QED
          BY <4>1, <4>2, <4>3
      <3>4. ASSUME NEW n \in 1 .. m + 1
            PROVE  g[n] = step[n][g[n - 1]]
        <4>1. CASE n =< m
          BY <3>1, <4>1
        <4>2. CASE n = m + 1
          BY <3>1, <4>2
        <4> QED
          BY <4>1, <4>2
      <3> HIDE DEF g
      <3>5. Good(g, m + 1)
        BY <3>2, <3>3, <3>4 DEF Iterated
      <3> HIDE DEF Good
      <3> QED
        BY <3>5
    <2> QED
      BY <2>1
  <1> HIDE DEF P
  <1>3. N \in P
    BY <1>1, <1>2, Induction
  <1> QED
    BY <1>3 DEF P

\* The elements of a finite set in some order.
LEMMA SetToSeqOrders ==
    ASSUME NEW S, IsFiniteSet(S)
    PROVE  /\ Cardinality(S) \in Nat
           /\ SetToSeq(S) \in [1 .. Cardinality(S) -> S]
           /\ SetToSeq(S) \in Seq(S) /\ Len(SetToSeq(S)) = Cardinality(S)
           /\ \A i, j \in 1 .. Cardinality(S) : SetToSeq(S)[i] = SetToSeq(S)[j] => i = j
           /\ \A x \in S : \E i \in 1 .. Cardinality(S) : SetToSeq(S)[i] = x
  <1> DEFINE c == Cardinality(S)
             D == 1 .. c
             q == SetToSeq(S)
  <1>1. c \in Nat /\ ExistsBijection(1 .. c, S)
    BY FS_CardinalityType
  <1>2. \E f \in [D -> S] : IsInjective(f)
    BY <1>1 DEF ExistsBijection, Bijection, Injection
  <1>3. q \in [D -> S] /\ IsInjective(q)
    BY <1>2 DEF SetToSeq
  <1> HIDE DEF q, c
  <1>4. IsFiniteSet(D) /\ Cardinality(D) = c
    BY <1>1, FS_Interval
  <1>5. q \in Injection(D, S)
    BY <1>3 DEF Injection
  <1>6. q \in Surjection(D, S)
    BY <1>4, <1>5, FS_Injection DEF c
  <1>7. \A x \in S : \E i \in D : q[i] = x
    BY <1>6 DEF Surjection
  <1>8. \A i, j \in D : q[i] = q[j] => i = j
    BY <1>3 DEF IsInjective
  <1>9. q \in Seq(S) /\ Len(q) = c
    BY <1>1, <1>3
  <1> QED
    BY <1>1, <1>3, <1>7, <1>8, <1>9 DEF q, c
LEMMA FiniteImage ==
    ASSUME NEW D, IsFiniteSet(D), NEW f
    PROVE  IsFiniteSet({f[x] : x \in D})
  <1> DEFINE T == {f[x] : x \in D}
             g == [x \in D |-> f[x]]
  <1>1. g \in Surjection(D, T)
    BY DEF Surjection
  <1> HIDE DEF g
  <1> QED
    BY <1>1, FS_Surjection
-----------------------------------------------------------------------------
(* Sums. *)

SumOf(f) == FoldFunction(LAMBDA x, y : x + y, 0, f)

\* A function that adds up the values of f over the subsets of D, one element after the other.
Pick(s) == CHOOSE x \in s : TRUE
AddsUp(g, f, D) ==
    /\ DOMAIN g = D
    /\ \A s \in D : g[s] = IF s = {} THEN 0 ELSE f[Pick(s)] + g[s \ {Pick(s)}]

LEMMA PickedIsLess ==
    ASSUME NEW s, IsFiniteSet(s), s # {}
    PROVE  /\ Pick(s) \in s /\ IsFiniteSet(s \ {Pick(s)})
           /\ Cardinality(s) \in Nat \ {0}
           /\ Cardinality(s \ {Pick(s)}) = Cardinality(s) - 1
  <1>1. Pick(s) \in s
    BY DEF Pick
  <1>2. Cardinality(s) \in Nat \ {0}
    BY FS_CardinalityType, FS_EmptySet
  <1> QED
    BY <1>1, <1>2, FS_RemoveElement

LEMMA SumExists ==
    ASSUME NEW D, IsFiniteSet(D), NEW f \in [D -> Nat]
    PROVE  \E g : AddsUp(g, f, SUBSET D)
  <1> DEFINE Small(n) == {s \in SUBSET D : Cardinality(s) =< n}
             P == {n \in Nat : \E g : AddsUp(g, f, Small(n))}
  <1>1. \A s \in SUBSET D : IsFiniteSet(s) /\ Cardinality(s) \in Nat /\ Cardinality(s) =< Cardinality(D)
    BY FS_Subset, FS_CardinalityType
  <1>2. 0 \in P
    <2> DEFINE g == [s \in Small(0) |-> 0]
    <2>1. \A s \in Small(0) : s = {}
      BY <1>1, FS_EmptySet
    <2>2. AddsUp(g, f, Small(0))
      BY <2>1 DEF AddsUp
    <2> QED
      BY <2>2
  <1>3. ASSUME NEW n \in Nat, n \in P
        PROVE  n + 1 \in P
    <2>1. PICK g : AddsUp(g, f, Small(n))
      BY <1>3
    <2> DEFINE h == [s \in Small(n + 1) |-> IF s = {} THEN 0 ELSE f[Pick(s)] + g[s \ {Pick(s)}]]
    <2>2. ASSUME NEW s \in Small(n + 1), s # {}
          PROVE  s \ {Pick(s)} \in Small(n) /\ s \ {Pick(s)} \in Small(n + 1)
      <3>1. IsFiniteSet(s) /\ s \ {Pick(s)} \in SUBSET D
        BY <1>1
      <3>2. Cardinality(s \ {Pick(s)}) = Cardinality(s) - 1 /\ Cardinality(s) \in Nat
        BY <2>2, <3>1, PickedIsLess
      <3> QED
        BY <3>1, <3>2
    <2>3. ASSUME NEW s \in Small(n)
          PROVE  s \in Small(n + 1) /\ h[s] = g[s]
      <3>1. s \in Small(n + 1)
        BY <1>1
      <3> QED
        BY <2>1, <3>1 DEF AddsUp
    <2>4. \A s \in Small(n + 1) : h[s] = IF s = {} THEN 0 ELSE f[Pick(s)] + h[s \ {Pick(s)}]
      BY <2>2, <2>3
    <2>5. AddsUp(h, f, Small(n + 1))
      BY <2>4 DEF AddsUp
    <2> HIDE DEF h, Small
    <2> QED
      BY <2>5
  <1>4. Cardinality(D) \in Nat
    BY FS_CardinalityType
  <1> HIDE DEF P
  <1>5. Cardinality(D) \in P
    BY <1>2, <1>3, <1>4, Induction
  <1>6. Small(Cardinality(D)) = SUBSET D
    BY <1>1
  <1> QED
    BY <1>5, <1>6 DEF P

LEMMA SumOfAddsUp ==
    ASSUME NEW D, IsFiniteSet(D), NEW f \in [D -> Nat]
    PROVE  \E g : AddsUp(g, f, SUBSET D) /\ SumOf(f) = g[D]
  <1> DEFINE Body(g) == [s \in SUBSET D |-> IF s = {} THEN 0 ELSE f[Pick(s)] + g[s \ {Pick(s)}]]
             g0 == CHOOSE g : g = Body(g)
  <1>1. \E g : g = Body(g)
    <2>1. PICK g : AddsUp(g, f, SUBSET D)
      BY SumExists
    <2> DEFINE h == [s \in SUBSET D |-> g[s]]
    <2>2. h = Body(h)
      <3>1. \A s \in SUBSET D : s # {} => s \ {Pick(s)} \in SUBSET D
        OBVIOUS
      <3>2. \A s \in SUBSET D : h[s] = IF s = {} THEN 0 ELSE f[Pick(s)] + h[s \ {Pick(s)}]
        BY <2>1, <3>1 DEF AddsUp
      <3> QED
        BY <3>2
    <2> HIDE DEF h
    <2> QED
      BY <2>2
  <1>2. g0 = Body(g0)
    BY <1>1
  <1>3. SumOf(f) = g0[D]
    BY DEF SumOf, FoldFunction, FoldFunctionOnSet, MapThenFoldSet, Pick
  <1>4. AddsUp(g0, f, SUBSET D)
    <2> HIDE DEF g0
    <2> QED
      BY <1>2 DEF AddsUp
  <1> QED
    BY <1>3, <1>4

\* A sum of naturals is one, and one without terms is 0.
LEMMA SumType ==
    ASSUME NEW D, IsFiniteSet(D), NEW f \in [D -> Nat]
    PROVE  SumOf(f) \in Nat /\ (D = {} => SumOf(f) = 0)
  <1>1. PICK g : AddsUp(g, f, SUBSET D) /\ SumOf(f) = g[D]
    BY SumOfAddsUp
  <1> DEFINE P == {n \in Nat : \A s \in SUBSET D : Cardinality(s) = n => g[s] \in Nat}
  <1>2. \A s \in SUBSET D : IsFiniteSet(s) /\ Cardinality(s) \in Nat
    BY FS_Subset, FS_CardinalityType
  <1>3. 0 \in P
    BY <1>1, <1>2, FS_EmptySet DEF AddsUp
  <1>4. ASSUME NEW n \in Nat, n \in P
        PROVE  n + 1 \in P
    <2>1. ASSUME NEW s \in SUBSET D, Cardinality(s) = n + 1
          PROVE  g[s] \in Nat
      <3>1. s # {}
        BY <1>2, <2>1, FS_EmptySet
      <3>2. Pick(s) \in s /\ Cardinality(s \ {Pick(s)}) = n /\ s \ {Pick(s)} \in SUBSET D
        BY <1>2, <2>1, <3>1, PickedIsLess
      <3>3. g[s \ {Pick(s)}] \in Nat /\ f[Pick(s)] \in Nat
        BY <1>4, <3>2
      <3> QED
        BY <1>1, <3>1, <3>3 DEF AddsUp
    <2> QED
      BY <2>1
  <1> HIDE DEF P
  <1>5. Cardinality(D) \in P
    BY <1>2, <1>3, <1>4, Induction
  <1>6. D = {} => g[D] = 0
    BY <1>1 DEF AddsUp
  <1> QED
    BY <1>1, <1>5, <1>6 DEF P

\* What holds of each term and a constant share of it, holds of the sums.
LEMMA SumBound ==
    ASSUME NEW D, IsFiniteSet(D), NEW f \in [D -> Nat], NEW h \in [D -> Nat],
           \A x \in D : f[x] =< 4 * h[x] + 3
    PROVE  SumOf(f) =< 4 * SumOf(h) + 3 * Cardinality(D)
  <1>1. PICK g : AddsUp(g, f, SUBSET D) /\ SumOf(f) = g[D]
    BY SumOfAddsUp
  <1>2. PICK k : AddsUp(k, h, SUBSET D) /\ SumOf(h) = k[D]
    BY SumOfAddsUp
  <1> DEFINE P == {n \in Nat : \A s \in SUBSET D : Cardinality(s) = n =>
                                 g[s] \in Nat /\ k[s] \in Nat /\ g[s] =< 4 * k[s] + 3 * n}
  <1>3. \A s \in SUBSET D : IsFiniteSet(s) /\ Cardinality(s) \in Nat
    BY FS_Subset, FS_CardinalityType
  <1>4. 0 \in P
    <2>1. \A s \in SUBSET D : s = {} => g[s] = 0 /\ k[s] = 0
      BY <1>1, <1>2 DEF AddsUp
    <2>2. \A s \in SUBSET D : Cardinality(s) = 0 => g[s] = 0 /\ k[s] = 0
      BY <1>3, <2>1, FS_EmptySet
    <2>3. \A x, y : x = 0 /\ y = 0 => x \in Nat /\ y \in Nat /\ x =< 4 * y + 3 * 0
      OBVIOUS
    <2> QED
      BY <2>2, <2>3
  <1>5. ASSUME NEW n \in Nat, n \in P
        PROVE  n + 1 \in P
    <2>1. ASSUME NEW s \in SUBSET D, Cardinality(s) = n + 1
          PROVE  g[s] \in Nat /\ k[s] \in Nat /\ g[s] =< 4 * k[s] + 3 * (n + 1)
      <3>1. s # {}
        BY <1>3, <2>1, FS_EmptySet
      <3>2. Pick(s) \in s /\ Cardinality(s \ {Pick(s)}) = n /\ s \ {Pick(s)} \in SUBSET D
        BY <1>3, <2>1, <3>1, PickedIsLess
      <3>3. /\ g[s \ {Pick(s)}] \in Nat /\ k[s \ {Pick(s)}] \in Nat
            /\ g[s \ {Pick(s)}] =< 4 * k[s \ {Pick(s)}] + 3 * n
            /\ f[Pick(s)] \in Nat /\ h[Pick(s)] \in Nat /\ f[Pick(s)] =< 4 * h[Pick(s)] + 3
        BY <1>5, <3>2
      <3>4. /\ g[s] = f[Pick(s)] + g[s \ {Pick(s)}]
            /\ k[s] = h[Pick(s)] + k[s \ {Pick(s)}]
        BY <1>1, <1>2, <3>1 DEF AddsUp
      <3> QED
        BY <3>3, <3>4
    <2> QED
      BY <2>1
  <1> HIDE DEF P
  <1>6. Cardinality(D) \in P
    BY <1>3, <1>4, <1>5, Induction
  <1> QED
    BY <1>1, <1>2, <1>6 DEF P
-----------------------------------------------------------------------------
(* Sequences. *)

\* A sequence without repetitions has as many elements as places.
LEMMA DistinctElements ==
    ASSUME NEW S, NEW s \in Seq(S), \A i, j \in 1 .. Len(s) : s[i] = s[j] => i = j
    PROVE  IsFiniteSet(ToSet(s)) /\ Cardinality(ToSet(s)) = Len(s) /\ IsInjective(s)
  <1> DEFINE D == 1 .. Len(s)
             T == ToSet(s)
  <1>1. DOMAIN s = D /\ Len(s) \in Nat /\ s = [i \in D |-> s[i]]
    OBVIOUS
  <1>2. IsFiniteSet(D) /\ Cardinality(D) = Len(s)
    <2>1. \A n \in Nat : IsFiniteSet(1 .. n) /\ Cardinality(1 .. n) = n
      BY FS_Interval
    <2> QED
      BY <1>1, <2>1
  <1>3. \A x : x \in T <=> \E i \in D : s[i] = x
    BY <1>1 DEF ToSet
  <1>4. IsInjective(s)
    BY <1>1 DEF IsInjective
  <1> HIDE DEF D, T
  <1>5. s \in [D -> T]
    BY <1>1, <1>3
  <1>6. s \in Surjection(D, T)
    BY <1>3, <1>5 DEF Surjection
  <1>8. s \in Injection(D, T)
    BY <1>4, <1>5 DEF Injection
  <1>7. IsFiniteSet(T) /\ Cardinality(T) = Cardinality(D)
    BY <1>2, <1>6, <1>8, FS_Surjection
  <1> QED
    BY <1>2, <1>4, <1>7 DEF T

\* The first n elements of a sequence.
LEMMA FirstOf ==
    ASSUME NEW S, NEW s \in Seq(S), NEW n \in 0 .. Len(s)
    PROVE  /\ SubSeq(s, 1, n) \in Seq(S) /\ Len(SubSeq(s, 1, n)) = n
           /\ \A i \in 1 .. n : SubSeq(s, 1, n)[i] = s[i]
           /\ \A m \in 0 .. n : SubSeq(SubSeq(s, 1, n), 1, m) = SubSeq(s, 1, m)
  OBVIOUS


\* No element stands in two places.
AllDistinct(seqs) ==
    \A k, l \in 1 .. Len(seqs) : \A m \in 1 .. Len(seqs[k]), n \in 1 .. Len(seqs[l]) :
        seqs[k][m] = seqs[l][n] => k = l /\ m = n

\* What a sequence of sequences is made of, and only that, is in the flat one, and where no
\* element stands twice none does in the flat one.
LEMMA FlatSequence ==
    ASSUME NEW S, NEW seqs \in Seq(Seq(S))
    PROVE  /\ FlattenSeq(seqs) \in Seq(S)
           /\ \A i \in 1 .. Len(FlattenSeq(seqs)) :
                 \E k \in 1 .. Len(seqs) : \E m \in 1 .. Len(seqs[k]) : FlattenSeq(seqs)[i] = seqs[k][m]
           /\ \A k \in 1 .. Len(seqs) : \A m \in 1 .. Len(seqs[k]) :
                 \E i \in 1 .. Len(FlattenSeq(seqs)) : FlattenSeq(seqs)[i] = seqs[k][m]
           /\ AllDistinct(seqs) => \A i, j \in 1 .. Len(FlattenSeq(seqs)) :
                                      FlattenSeq(seqs)[i] = FlattenSeq(seqs)[j] => i = j
  <1>1. CASE Len(seqs) = 0
    <2>1. FlattenSeq(seqs) = << >> /\ seqs = << >>
      BY <1>1 DEF FlattenSeq
    <2> QED
      BY <2>1
  <1>2. CASE Len(seqs) # 0
    <2> DEFINE N == Len(seqs)
               Flat(g) == [i \in 1 .. N |-> IF i = 1 THEN seqs[i] ELSE g[i - 1] \o seqs[i]]
               flat == CHOOSE g : g = Flat(g)
               Made(s, n) ==
                  /\ s \in Seq(S)
                  /\ \A i \in 1 .. Len(s) : \E k \in 1 .. n : \E m \in 1 .. Len(seqs[k]) : s[i] = seqs[k][m]
                  /\ \A k \in 1 .. n : \A m \in 1 .. Len(seqs[k]) : \E i \in 1 .. Len(s) : s[i] = seqs[k][m]
                  /\ AllDistinct(seqs) => \A i, j \in 1 .. Len(s) : s[i] = s[j] => i = j
    <2>1. N \in Nat \ {0} /\ \A k \in 1 .. N : seqs[k] \in Seq(S)
      BY <1>2
    <2>2. FlattenSeq(seqs) = flat[N]
      BY <1>2 DEF FlattenSeq
    <2> HIDE DEF N
    <2>3. \E g : g = Flat(g)
      <3> DEFINE Good(g, n) ==
                    DOMAIN g = 1 .. n /\ \A i \in 1 .. n : g[i] = IF i = 1 THEN seqs[i] ELSE g[i - 1] \o seqs[i]
                 P == {n \in Nat : \E g : Good(g, n)}
      <3>1. 0 \in P
        <4>1. Good(<< >>, 0)
          OBVIOUS
        <4> QED
          BY <4>1
      <3>2. ASSUME NEW n \in Nat, n \in P
            PROVE  n + 1 \in P
        <4>1. PICK g : Good(g, n)
          BY <3>2
        <4> DEFINE h == [i \in 1 .. n + 1 |-> IF i =< n THEN g[i]
                                              ELSE IF i = 1 THEN seqs[i] ELSE g[i - 1] \o seqs[i]]
        <4>2. DOMAIN h = 1 .. n + 1 /\ \A i \in 1 .. n : h[i] = g[i]
          <5>1. \A i \in 1 .. n : i \in 1 .. n + 1 /\ i =< n
            OBVIOUS
          <5> QED
            BY <5>1
        <4>3. h[n + 1] = IF n + 1 = 1 THEN seqs[n + 1] ELSE h[n + 1 - 1] \o seqs[n + 1]
          <5>1. n # 0 => h[n] = g[n]
            BY <4>2
          <5> QED
            BY <5>1
        <4> HIDE DEF h
        <4>4. ASSUME NEW i \in 1 .. n + 1
              PROVE  h[i] = IF i = 1 THEN seqs[i] ELSE h[i - 1] \o seqs[i]
          <5>1. CASE i = n + 1
            BY <4>3, <5>1
          <5>2. CASE i \in 1 .. n
            <6>1. i # 1 => i - 1 \in 1 .. n
              BY <5>2
            <6> QED
              BY <4>1, <4>2, <5>2, <6>1
          <5> QED
            BY <5>1, <5>2
        <4>5. Good(h, n + 1)
          BY <4>2, <4>4
        <4> HIDE DEF Good
        <4> QED
          BY <4>5
      <3> HIDE DEF P
      <3>3. N \in P
        BY <2>1, <3>1, <3>2, Induction
      <3>4. PICK g : Good(g, N)
        BY <3>3 DEF P
      <3> DEFINE h == [i \in 1 .. N |-> g[i]]
      <3>5. h = Flat(h)
        <4>1. \A i \in 1 .. N : h[i] = g[i] /\ (i # 1 => h[i - 1] = g[i - 1])
          BY <2>1
        <4>2. \A i \in 1 .. N : h[i] = IF i = 1 THEN seqs[i] ELSE h[i - 1] \o seqs[i]
          BY <3>4, <4>1
        <4> QED
          BY <4>2
      <3> HIDE DEF h
      <3> QED
        BY <3>5
    <2>4. flat = Flat(flat)
      BY <2>3
    <2> HIDE DEF flat
    <2>9. \A i \in 1 .. N : flat[i] = IF i = 1 THEN seqs[i] ELSE flat[i - 1] \o seqs[i]
      BY <2>4
    <2> DEFINE P == {n \in Nat : n + 1 =< N => Made(flat[n + 1], n + 1)}
    <2>5. 0 \in P
      <3>1. flat[1] = seqs[1]
        BY <2>1, <2>9
      <3>2. AllDistinct(seqs) => \A i, j \in 1 .. Len(seqs[1]) : seqs[1][i] = seqs[1][j] => i = j
        BY <2>1 DEF AllDistinct, N
      <3>3. 1 \in 1 .. N /\ seqs[1] \in Seq(S)
        BY <2>1
      <3>4. Made(seqs[1], 1)
        <4>1. \A i \in 1 .. Len(seqs[1]) :
                 \E k \in 1 .. 1 : \E m \in 1 .. Len(seqs[k]) : seqs[1][i] = seqs[k][m]
          <5>1. 1 \in 1 .. 1
            OBVIOUS
          <5> QED
            BY <5>1
        <4>2. \A k \in 1 .. 1 : \A m \in 1 .. Len(seqs[k]) :
                 \E i \in 1 .. Len(seqs[1]) : seqs[1][i] = seqs[k][m]
          <5>1. \A k \in 1 .. 1 : k = 1
            OBVIOUS
          <5> QED
            BY <5>1
        <4> QED
          BY <3>2, <3>3, <4>1, <4>2
      <3> HIDE DEF Made
      <3> QED
        BY <2>1, <3>1, <3>4
    <2>6. ASSUME NEW n \in Nat, n \in P
          PROVE  n + 1 \in P
      <3>1. ASSUME n + 2 =< N
            PROVE  Made(flat[n + 2], n + 2)
        <4> DEFINE s == flat[n + 1]
                   t == seqs[n + 2]
        <4>1. Made(s, n + 1)
          BY <2>1, <2>6, <3>1
        <4>2. flat[n + 2] = s \o t /\ s \in Seq(S) /\ t \in Seq(S)
          <5>1. n + 2 \in 1 .. N /\ n + 2 # 1 /\ n + 2 - 1 = n + 1
            BY <2>1, <3>1
          <5>2. flat[n + 2] = flat[n + 1] \o seqs[n + 2]
            <6>1. PICK i : i = n + 2
              OBVIOUS
            <6>2. i \in 1 .. N /\ i # 1 /\ i - 1 = n + 1
              BY <5>1, <6>1
            <6>3. flat[i] = flat[i - 1] \o seqs[i]
              BY <2>9, <6>2
            <6> QED
              BY <6>1, <6>2, <6>3
          <5> QED
            BY <2>1, <4>1, <5>1, <5>2
        <4> HIDE DEF s
        <4>3. /\ s \o t \in Seq(S) /\ Len(s \o t) = Len(s) + Len(t) /\ Len(s) \in Nat /\ Len(t) \in Nat
              /\ \A i \in 1 .. Len(s) + Len(t) : (s \o t)[i] = IF i =< Len(s) THEN s[i] ELSE t[i - Len(s)]
          BY <4>2
        <4>4. ASSUME NEW i \in 1 .. Len(s \o t)
              PROVE  \E k \in 1 .. n + 2 : \E m \in 1 .. Len(seqs[k]) : (s \o t)[i] = seqs[k][m]
          <5>1. CASE i =< Len(s)
            <6>1. i \in 1 .. Len(s) /\ (s \o t)[i] = s[i]
              BY <4>3, <5>1
            <6>2. PICK k \in 1 .. n + 1 : \E m \in 1 .. Len(seqs[k]) : s[i] = seqs[k][m]
              BY <4>1, <6>1
            <6>3. k \in 1 .. n + 2
              OBVIOUS
            <6> QED
              BY <6>1, <6>2, <6>3
          <5>2. CASE ~ (i =< Len(s))
            <6>1. i - Len(s) \in 1 .. Len(t) /\ (s \o t)[i] = t[i - Len(s)]
              BY <4>3, <5>2
            <6>2. n + 2 \in 1 .. n + 2
              OBVIOUS
            <6> QED
              BY <6>1, <6>2
          <5> QED
            BY <5>1, <5>2
        <4>5. ASSUME NEW k \in 1 .. n + 2, NEW m \in 1 .. Len(seqs[k])
              PROVE  \E i \in 1 .. Len(s \o t) : (s \o t)[i] = seqs[k][m]
          <5>1. CASE k \in 1 .. n + 1
            <6>1. PICK i \in 1 .. Len(s) : s[i] = seqs[k][m]
              BY <4>1, <5>1
            <6>2. i \in 1 .. Len(s \o t) /\ (s \o t)[i] = s[i]
              BY <4>3
            <6> QED
              BY <6>1, <6>2
          <5>2. CASE k = n + 2
            <6>1. Len(s) + m \in 1 .. Len(s) + Len(t) /\ ~ (Len(s) + m =< Len(s)) /\ Len(s) + m - Len(s) = m
              BY <4>3, <5>2
            <6>2. (s \o t)[Len(s) + m] = t[m]
              BY <4>3, <6>1
            <6> QED
              BY <4>3, <5>2, <6>1, <6>2
          <5> QED
            BY <5>1, <5>2
        <4>6. ASSUME AllDistinct(seqs), NEW i \in 1 .. Len(s \o t), NEW j \in 1 .. Len(s \o t),
                     (s \o t)[i] = (s \o t)[j]
              PROVE  i = j
          <5>1. \A a \in 1 .. Len(s), b \in 1 .. Len(t) : s[a] # t[b]
            <6>1. ASSUME NEW a \in 1 .. Len(s), NEW b \in 1 .. Len(t), s[a] = t[b]
                  PROVE  FALSE
              <7>1. PICK k \in 1 .. n + 1 : \E m \in 1 .. Len(seqs[k]) : s[a] = seqs[k][m]
                BY <4>1
              <7>2. PICK m \in 1 .. Len(seqs[k]) : s[a] = seqs[k][m]
                BY <7>1
              <7>3. k \in 1 .. Len(seqs) /\ n + 2 \in 1 .. Len(seqs) /\ k # n + 2
                BY <2>1, <3>1 DEF N
              <7> QED
                BY <4>6, <6>1, <7>2, <7>3 DEF AllDistinct
            <6> QED
              BY <6>1
          <5>2. \A a, b \in 1 .. Len(t) : t[a] = t[b] => a = b
            BY <2>1, <3>1, <4>6 DEF AllDistinct, N
          <5>3. \A a, b \in 1 .. Len(s) : s[a] = s[b] => a = b
            BY <4>1, <4>6
          <5>4. \A a \in 1 .. Len(s) + Len(t) : ~ (a =< Len(s)) => a - Len(s) \in 1 .. Len(t)
            BY <4>3
          <5>5. CASE i =< Len(s) /\ j =< Len(s)
            BY <4>3, <4>6, <5>3, <5>5
          <5>6. CASE i =< Len(s) /\ ~ (j =< Len(s))
            BY <4>3, <4>6, <5>1, <5>4, <5>6
          <5>7. CASE ~ (i =< Len(s)) /\ j =< Len(s)
            BY <4>3, <4>6, <5>1, <5>4, <5>7
          <5>8. CASE ~ (i =< Len(s)) /\ ~ (j =< Len(s))
            <6>1. t[i - Len(s)] = t[j - Len(s)]
              BY <4>3, <4>6, <5>8
            <6>2. i - Len(s) = j - Len(s)
              BY <4>3, <5>2, <5>4, <5>8, <6>1
            <6> QED
              BY <4>3, <6>2
          <5> QED
            BY <5>5, <5>6, <5>7, <5>8
        <4>7. Made(s \o t, n + 2)
          BY <4>3, <4>4, <4>5, <4>6
        <4> HIDE DEF Made
        <4> QED
          BY <4>2, <4>7
      <3> QED
        BY <3>1
    <2> HIDE DEF P
    <2>7. N - 1 \in P
      <3>1. \A n \in Nat : n \in P
        BY <2>5, <2>6, Induction
      <3> QED
        BY <2>1, <3>1
    <2>8. Made(flat[N], N)
      BY <2>1, <2>7 DEF P
    <2> QED
      BY <2>2, <2>8 DEF N
  <1> QED
    BY <1>1, <1>2

\* The elements of a sequence that are in a set, in their order.
Keeping(s, K) == FlattenSeq([i \in DOMAIN s |-> IF s[i] \in K THEN <<s[i]>> ELSE << >>])

\* They are those, all of them, and distinct where the elements of the sequence are.
LEMMA KeepingKeeps ==
    ASSUME NEW S, NEW s \in Seq(S), NEW K
    PROVE  /\ Keeping(s, K) \in Seq(S)
           /\ \A i \in 1 .. Len(Keeping(s, K)) :
                 Keeping(s, K)[i] \in K /\ \E j \in 1 .. Len(s) : Keeping(s, K)[i] = s[j]
           /\ \A j \in 1 .. Len(s) :
                 s[j] \in K => \E i \in 1 .. Len(Keeping(s, K)) : Keeping(s, K)[i] = s[j]
           /\ (\A i, j \in 1 .. Len(s) : s[i] = s[j] => i = j) =>
                 \A i, j \in 1 .. Len(Keeping(s, K)) : Keeping(s, K)[i] = Keeping(s, K)[j] => i = j
  <1> DEFINE one(i) == IF s[i] \in K THEN <<s[i]>> ELSE << >>
             seqs == [i \in DOMAIN s |-> one(i)]
             flat == FlattenSeq(seqs)
  <1>1. DOMAIN s = 1 .. Len(s) /\ Len(s) \in Nat /\ \A i \in 1 .. Len(s) : s[i] \in S
    OBVIOUS
  <1>2. \A i \in 1 .. Len(s) : one(i) \in Seq(S)
    BY <1>1
  <1>3. seqs \in Seq(Seq(S)) /\ Len(seqs) = Len(s)
    <2>1. seqs \in [1 .. Len(s) -> Seq(S)]
      BY <1>1, <1>2
    <2> HIDE DEF seqs
    <2> QED
      BY <1>1, <2>1
  <1>4. \A i \in 1 .. Len(s) : seqs[i] = one(i)
    BY <1>1
  <1>5. \A k \in 1 .. Len(s) : \A m \in 1 .. Len(seqs[k]) : m = 1 /\ s[k] \in K /\ seqs[k][m] = s[k]
    BY <1>4
  <1>6. \A k \in 1 .. Len(s) : s[k] \in K => 1 \in 1 .. Len(seqs[k]) /\ seqs[k][1] = s[k]
    BY <1>4
  <1>7. Keeping(s, K) = flat
    BY DEF Keeping
  <1>8. (\A i, j \in 1 .. Len(s) : s[i] = s[j] => i = j) => AllDistinct(seqs)
    BY <1>3, <1>5 DEF AllDistinct
  <1> HIDE DEF seqs
  <1>9. /\ flat \in Seq(S)
        /\ \A i \in 1 .. Len(flat) :
              \E k \in 1 .. Len(seqs) : \E m \in 1 .. Len(seqs[k]) : flat[i] = seqs[k][m]
        /\ \A k \in 1 .. Len(seqs) : \A m \in 1 .. Len(seqs[k]) :
              \E i \in 1 .. Len(flat) : flat[i] = seqs[k][m]
        /\ AllDistinct(seqs) => \A i, j \in 1 .. Len(flat) : flat[i] = flat[j] => i = j
    BY <1>3, FlatSequence
  <1> HIDE DEF flat
  <1>10. \A i \in 1 .. Len(flat) : flat[i] \in K /\ \E j \in 1 .. Len(s) : flat[i] = s[j]
    <2> SUFFICES ASSUME NEW i \in 1 .. Len(flat)
                 PROVE  flat[i] \in K /\ \E j \in 1 .. Len(s) : flat[i] = s[j]
      OBVIOUS
    <2>1. PICK k \in 1 .. Len(s) : \E m \in 1 .. Len(seqs[k]) : flat[i] = seqs[k][m]
      BY <1>3, <1>9
    <2> QED
      BY <1>5, <2>1
  <1>11. \A j \in 1 .. Len(s) : s[j] \in K => \E i \in 1 .. Len(flat) : flat[i] = s[j]
    BY <1>3, <1>6, <1>9
  <1> QED
    BY <1>7, <1>8, <1>9, <1>10, <1>11
=============================================================================
