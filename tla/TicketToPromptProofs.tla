------------------------ MODULE TicketToPromptProofs ------------------------
(***************************************************************************)
(* What a run of the pipeline promises, for every graph, budget and number *)
(* of files, and whenever the indexing job writes.  The first part is      *)
(* about the algorithms: how far the walk over the edges gets, and that a  *)
(* list of snippets fits its budget.  The second says which results of     *)
(* these algorithms each step finds.                                       *)
(***************************************************************************)
EXTENDS TicketToPrompt, DataLemmas

(* The walk over the edges. *)

Partial(S, T) == UNION {[D -> T] : D \in SUBSET S}

\* What an answer to a query preserves: a distance is that of a path over edges the walk has
\* seen; those that wait are never more than one behind; and the neighbours, over the edges
\* that were always there, of a symbol that was asked about have a distance.
Near(E, seeds, d) ==
    /\ seeds \subseteq DOMAIN d
    /\ \A s \in DOMAIN d : d[s] = 0 <=> s \in seeds
    /\ \A s \in DOMAIN d : d[s] > 0 => \E t \in DOMAIN d : s \in Neighbours(E, t) /\ d[t] = d[s] - 1
Level(d, waiting, n) ==
    /\ \A p \in waiting : n =< d[p]
    /\ \A s \in DOMAIN d : d[s] =< n + 1
Ordered(d, waiting) == \A p \in waiting : \A s \in DOMAIN d : d[s] =< d[p] + 1
Settled(E, k, d, asked) ==
    \A s \in asked : d[s] < k => \A t \in Neighbours(E, s) : t \in DOMAIN d /\ d[t] =< d[s] + 1

LEMMA PartialType ==
    ASSUME NEW S, NEW T, NEW f
    PROVE  f \in Partial(S, T) <=> /\ f = [s \in DOMAIN f |-> f[s]]
                                   /\ DOMAIN f \subseteq S /\ \A s \in DOMAIN f : f[s] \in T
  <1>1. ASSUME f \in Partial(S, T)
        PROVE  f = [s \in DOMAIN f |-> f[s]] /\ DOMAIN f \subseteq S /\ \A s \in DOMAIN f : f[s] \in T
    <2>1. PICK D \in SUBSET S : f \in [D -> T]
      BY <1>1 DEF Partial
    <2> QED
      BY <2>1
  <1>2. ASSUME f = [s \in DOMAIN f |-> f[s]], DOMAIN f \subseteq S, \A s \in DOMAIN f : f[s] \in T
        PROVE  f \in Partial(S, T)
    <2>1. f \in [DOMAIN f -> T]
      BY <1>2
    <2> QED
      BY <1>2, <2>1 DEF Partial
  <1> QED
    BY <1>1, <1>2

LEMMA NeighboursAreSymbols ==
    ASSUME NEW E \in SUBSET (Symbol \X Symbol), NEW s
    PROVE  /\ Callees(E, s) \subseteq Symbol /\ Callers(E, s) \subseteq Symbol
           /\ Neighbours(E, s) \subseteq Symbol
  BY DEF Neighbours, Callees, Callers

LEMMA NeighboursGrow ==
    ASSUME NEW E, NEW F, E \subseteq F, NEW s
    PROVE  /\ Callees(E, s) \subseteq Callees(F, s) /\ Callers(E, s) \subseteq Callers(F, s)
           /\ Neighbours(E, s) \subseteq Neighbours(F, s)
           /\ Neighbours(E, s) = Callees(E, s) \cup Callers(E, s)
  BY DEF Neighbours, Callees, Callers

\* The balls around the seeds, each the last one and its neighbours.
First(ball, s, d) == s \in ball[d] /\ \A e \in 0 .. d - 1 : s \notin ball[e]
Balls(E, seeds, k, ball) ==
    /\ ball \in [0 .. k -> SUBSET Symbol] /\ ball[0] = seeds
    /\ \A n \in 1 .. k : ball[n] = ball[n - 1] \cup UNION {Neighbours(E, s) : s \in ball[n - 1]}
    /\ LeastDistance(E, seeds, k) = [s \in ball[k] |-> CHOOSE d \in 0 .. k : First(ball, s, d)]

LEMMA BallsGrow ==
    ASSUME NEW E \in SUBSET (Symbol \X Symbol), NEW seeds \in SUBSET Symbol, NEW k \in Nat
    PROVE  \E ball : Balls(E, seeds, k, ball)
  <1> DEFINE S == SUBSET Symbol
             Grow(X) == X \cup UNION {Neighbours(E, s) : s \in X}
             Body(f) == [d \in 0 .. k |-> IF d = 0 THEN seeds
                                         ELSE f[d - 1] \cup UNION {Neighbours(E, s) : s \in f[d - 1]}]
             ball == CHOOSE f : f = Body(f)
             step == [n \in 1 .. k |-> [X \in S |-> Grow(X)]]
  <1>1. step \in [1 .. k -> [S -> S]]
    <2>1. \A X \in S : Grow(X) \in S
      BY NeighboursAreSymbols
    <2> HIDE DEF Grow, S
    <2> QED
      BY <2>1
  <1>2. \E f \in [0 .. k -> S] : f = Body(f)
    <2>4. seeds \in S
      OBVIOUS
    <2> HIDE DEF step, S
    <2>5. PICK h : Iterated(h, S, seeds, step, k)
      BY <1>1, <2>4, Iterates
    <2> USE DEF step, S
    <2>1. h \in [0 .. k -> S] /\ h[0] = seeds /\ \A n \in 1 .. k : h[n] = step[n][h[n - 1]]
      BY <2>5 DEF Iterated
    <2>2. ASSUME NEW n \in 0 .. k
          PROVE  h[n] = IF n = 0 THEN seeds ELSE Grow(h[n - 1])
      <3>1. CASE n = 0
        BY <2>1, <3>1
      <3>2. CASE n # 0
        <4>1. n \in 1 .. k /\ n - 1 \in 0 .. k
          BY <3>2
        <4>2. h[n] = step[n][h[n - 1]] /\ h[n - 1] \in S
          BY <2>1, <4>1
        <4> QED
          BY <3>2, <4>2
      <3> QED
        BY <3>1, <3>2
    <2>3. h = Body(h)
      BY <2>1, <2>2
    <2> QED
      BY <2>1, <2>3
  <1>3. ball = Body(ball)
    BY <1>2
  <1>4. LeastDistance(E, seeds, k) =
           [s \in ball[k] |-> CHOOSE d \in 0 .. k : First(ball, s, d)]
    BY DEF LeastDistance, First
  <1> HIDE DEF ball
  <1>5. /\ ball[0] = seeds
        /\ \A n \in 1 .. k : ball[n] = Grow(ball[n - 1])
    BY <1>3
  <1>6. \A n \in 0 .. k : ball[n] \in S
    <2> DEFINE P == {n \in 0 .. k : ball[n] \in S}
    <2>1. 0 \in P
      BY <1>5
    <2>2. ASSUME NEW n \in 0 .. k - 1, n \in P
          PROVE  n + 1 \in P
      <3>1. PICK m : m = n + 1
        OBVIOUS
      <3>2. m \in 1 .. k /\ m - 1 = n /\ m \in 0 .. k
        BY <3>1
      <3>3. ball[m] = Grow(ball[n])
        BY <1>5, <3>2
      <3>4. \A X \in S : Grow(X) \in S
        BY NeighboursAreSymbols
      <3> HIDE DEF Grow, S
      <3> QED
        BY <2>2, <3>1, <3>2, <3>3, <3>4
    <2> HIDE DEF P
    <2>3. \A n \in 0 .. k : n \in P
      BY <2>1, <2>2, InductionUpTo
    <2> QED
      BY <2>3 DEF P
  <1>7. ball \in [0 .. k -> SUBSET Symbol]
    <2>1. ball = [d \in 0 .. k |-> ball[d]]
      BY <1>3
    <2> QED
      BY <1>6, <2>1
  <1> QED
    BY <1>4, <1>5, <1>7 DEF Balls

\* Of the balls that hold a symbol there is a first one.
LEMMA FirstBall ==
    ASSUME NEW ball, NEW s, NEW n \in Nat, s \in ball[n]
    PROVE  \E c \in 0 .. n : First(ball, s, c)
  <1> DEFINE holds == {-c : c \in {x \in 0 .. n : s \in ball[x]}}
  <1>1. -n \in holds /\ holds \in SUBSET Int /\ \A x \in holds : x =< 0
    BY DEF holds
  <1> HIDE DEF holds
  <1>2. PICK b \in holds : \A x \in holds : x =< b
    BY <1>1, GreatestElement
  <1>3. PICK c \in 0 .. n : b = -c /\ s \in ball[c]
    BY <1>2 DEF holds
  <1>4. ASSUME NEW e \in 0 .. c - 1, s \in ball[e]
        PROVE  FALSE
    <2>1. e \in 0 .. n /\ -e \in holds
      BY <1>3, <1>4 DEF holds
    <2>2. -e =< -c
      BY <1>2, <1>3, <2>1
    <2> QED
      BY <1>3, <1>4, <2>2
  <1>5. First(ball, s, c)
    BY <1>3, <1>4 DEF First
  <1> QED
    BY <1>5

LEMMA BallsNest ==
    ASSUME NEW E, NEW seeds, NEW k \in Nat, NEW ball, Balls(E, seeds, k, ball),
           NEW n \in 0 .. k, NEW s \in ball[n]
    PROVE  s \in ball[k]
  <1> DEFINE P == {m \in 0 .. k : m >= n => s \in ball[m]}
  <1>1. 0 \in P
    <2>1. 0 >= n => n = 0
      OBVIOUS
    <2> QED
      BY <2>1
  <1>2. ASSUME NEW m \in 0 .. k - 1, m \in P
        PROVE  m + 1 \in P
    <2>1. PICK j : j = m + 1
      OBVIOUS
    <2>2. j \in 1 .. k /\ j - 1 = m /\ j \in 0 .. k
      BY <2>1
    <2>3. ball[j] = ball[m] \cup UNION {Neighbours(E, x) : x \in ball[m]}
      BY <2>2 DEF Balls
    <2>4. j >= n => m >= n \/ j = n
      BY <2>1
    <2>5. j >= n => s \in ball[j]
      BY <1>2, <2>3, <2>4
    <2> QED
      BY <2>1, <2>2, <2>5
  <1> HIDE DEF P
  <1>3. \A m \in 0 .. k : m \in P
    BY <1>1, <1>2, InductionUpTo
  <1>4. k \in P /\ k >= n
    BY <1>3
  <1> QED
    BY <1>4 DEF P

LEMMA LeastIsFirst ==
    ASSUME NEW E, NEW seeds, NEW k \in Nat, NEW ball, Balls(E, seeds, k, ball),
           NEW s \in ball[k], \E c \in 0 .. k : First(ball, s, c)
    PROVE  LET least == LeastDistance(E, seeds, k) IN
           s \in DOMAIN least /\ least[s] \in 0 .. k /\ First(ball, s, least[s])
  <1> DEFINE d == CHOOSE c \in 0 .. k : First(ball, s, c)
  <1>1. d \in 0 .. k /\ First(ball, s, d)
    OBVIOUS
  <1>2. s \in DOMAIN LeastDistance(E, seeds, k) /\ LeastDistance(E, seeds, k)[s] = d
    BY DEF Balls
  <1> HIDE DEF d
  <1> QED
    BY <1>1, <1>2

\* What the walk has reached lies in the balls over the edges it has seen.
LEMMA NearIsWithin ==
    ASSUME NEW E \in SUBSET (Symbol \X Symbol), NEW seeds \in SUBSET Symbol, NEW k \in Nat,
           NEW d \in Partial(Symbol, 0 .. k), Near(E, seeds, d)
    PROVE  LET nearest == LeastDistance(E, seeds, k) IN
           \A s \in DOMAIN d : s \in DOMAIN nearest /\ nearest[s] \in Nat /\ nearest[s] =< d[s]
  <1> DEFINE nearest == LeastDistance(E, seeds, k)
             D == DOMAIN d
  <1>1. PICK ball : Balls(E, seeds, k, ball)
    BY BallsGrow
  <1>2. /\ ball \in [0 .. k -> SUBSET Symbol] /\ ball[0] = seeds
        /\ \A n \in 1 .. k : ball[n] = ball[n - 1] \cup UNION {Neighbours(E, s) : s \in ball[n - 1]}
    BY <1>1 DEF Balls
  <1>3. \A s \in D : d[s] \in 0 .. k
    BY PartialType
  <1> DEFINE P == {n \in 0 .. k : \A s \in D : d[s] = n => s \in ball[n]}
  <1>4. 0 \in P
    BY <1>2 DEF Near
  <1>5. ASSUME NEW n \in 0 .. k - 1, n \in P
        PROVE  n + 1 \in P
    <2>1. PICK m : m = n + 1
      OBVIOUS
    <2>2. m \in 1 .. k /\ m - 1 = n /\ m \in 0 .. k /\ m > 0
      BY <2>1
    <2>3. ASSUME NEW x \in D, d[x] = m
          PROVE  x \in ball[m]
      <3>1. PICK t \in D : x \in Neighbours(E, t) /\ d[t] = d[x] - 1
        BY <2>2, <2>3 DEF Near
      <3>2. t \in ball[n]
        BY <1>5, <2>2, <2>3, <3>1
      <3>3. ball[m] = ball[n] \cup UNION {Neighbours(E, s) : s \in ball[n]}
        BY <1>2, <2>2
      <3> QED
        BY <3>1, <3>2, <3>3
    <2> QED
      BY <2>1, <2>2, <2>3
  <1> HIDE DEF P
  <1>6. \A n \in 0 .. k : n \in P
    BY <1>4, <1>5, InductionUpTo
  <1>7. ASSUME NEW s \in D
        PROVE  s \in DOMAIN nearest /\ nearest[s] \in Nat /\ nearest[s] =< d[s]
    <2>1. d[s] \in 0 .. k /\ s \in ball[d[s]]
      BY <1>3, <1>6 DEF P
    <2>2. PICK c \in 0 .. d[s] : First(ball, s, c)
      BY <2>1, FirstBall
    <2>3. s \in ball[k]
      BY <1>1, <2>1, BallsNest
    <2>4. s \in DOMAIN nearest /\ nearest[s] \in 0 .. k /\ First(ball, s, nearest[s])
      BY <1>1, <2>1, <2>2, <2>3, LeastIsFirst
    <2>5. ~ (c < nearest[s])
      <3>1. ASSUME c < nearest[s]
            PROVE  FALSE
        <4>1. c \in 0 .. nearest[s] - 1
          BY <2>1, <2>4, <3>1
        <4> QED
          BY <2>2, <2>4, <4>1 DEF First
      <3> QED
        BY <3>1
    <2> HIDE DEF nearest
    <2> QED
      BY <2>1, <2>4, <2>5
  <1> QED
    BY <1>7

\* When every symbol closer than k is settled, the balls lie in what the walk has reached.
LEMMA SettledIsWithin ==
    ASSUME NEW E \in SUBSET (Symbol \X Symbol), NEW seeds \in SUBSET Symbol, NEW k \in Nat,
           NEW d \in Partial(Symbol, 0 .. k),
           \A s \in seeds : s \in DOMAIN d /\ d[s] = 0, Settled(E, k, d, DOMAIN d)
    PROVE  LET farthest == LeastDistance(E, seeds, k) IN
           \A s \in DOMAIN farthest : s \in DOMAIN d /\ farthest[s] \in Nat /\ d[s] =< farthest[s]
  <1> DEFINE farthest == LeastDistance(E, seeds, k)
             D == DOMAIN d
  <1>1. PICK ball : Balls(E, seeds, k, ball)
    BY BallsGrow
  <1>2. /\ ball \in [0 .. k -> SUBSET Symbol] /\ ball[0] = seeds
        /\ \A n \in 1 .. k : ball[n] = ball[n - 1] \cup UNION {Neighbours(E, s) : s \in ball[n - 1]}
    BY <1>1 DEF Balls
  <1>3. \A s \in D : d[s] \in 0 .. k
    BY PartialType
  <1> DEFINE P == {n \in 0 .. k : \A s \in ball[n] : s \in D /\ d[s] =< n}
  <1>4. 0 \in P
    BY <1>2
  <1>5. ASSUME NEW n \in 0 .. k - 1, n \in P
        PROVE  n + 1 \in P
    <2>1. PICK m : m = n + 1
      OBVIOUS
    <2>2. m \in 1 .. k /\ m - 1 = n /\ m \in 0 .. k
      BY <2>1
    <2>3. ASSUME NEW x \in ball[m]
          PROVE  x \in D /\ d[x] =< m
      <3>1. ball[m] = ball[n] \cup UNION {Neighbours(E, s) : s \in ball[n]}
        BY <1>2, <2>2
      <3>2. CASE x \in ball[n]
        BY <1>3, <1>5, <2>1, <3>2
      <3>3. CASE x \notin ball[n]
        <4>1. PICK s \in ball[n] : x \in Neighbours(E, s)
          BY <2>3, <3>1, <3>3
        <4>2. s \in D /\ d[s] =< n /\ d[s] < k
          BY <1>3, <1>5, <4>1
        <4>3. x \in D /\ d[x] =< d[s] + 1
          BY <4>1, <4>2 DEF Settled
        <4> QED
          BY <1>3, <2>1, <4>2, <4>3
      <3> QED
        BY <3>2, <3>3
    <2> QED
      BY <2>1, <2>2, <2>3
  <1> HIDE DEF P
  <1>6. \A n \in 0 .. k : n \in P
    BY <1>4, <1>5, InductionUpTo
  <1>7. ASSUME NEW s \in DOMAIN farthest
        PROVE  s \in D /\ farthest[s] \in Nat /\ d[s] =< farthest[s]
    <2>1. DOMAIN farthest = ball[k]
      BY <1>1 DEF Balls
    <2>2. PICK c \in 0 .. k : First(ball, s, c)
      BY <2>1, FirstBall
    <2>3. farthest[s] \in 0 .. k /\ First(ball, s, farthest[s])
      BY <1>1, <2>1, <2>2, LeastIsFirst
    <2> HIDE DEF farthest
    <2>4. s \in ball[farthest[s]]
      BY <2>3 DEF First
    <2> QED
      BY <1>6, <2>3, <2>4 DEF P
  <1> QED
    BY <1>7
-----------------------------------------------------------------------------
(* The budget. *)

Sized(X) == \A x \in X : IsFiniteSet(x.lines)

LEMMA SnippetSize ==
    ASSUME NEW x, IsFiniteSet(x.lines)
    PROVE  /\ SnippetChars(x) \in Nat /\ SnippetTokens(x) \in Nat
           /\ SnippetChars(x) =< 4 * SnippetTokens(x) + 3
  <1>1. Cardinality(x.lines) \in Nat
    BY FS_CardinalityType
  <1>2. \A n \in Nat : ChunkChars(n) \in Nat
    <2>1. \A n \in Nat : n * LineChars \in Nat
      BY BudgetAssumption
    <2> QED
      BY <2>1 DEF ChunkChars
  <1>3. SnippetChars(x) \in Nat
    BY <1>1, <1>2 DEF SnippetChars
  <1>4. SnippetTokens(x) = SnippetChars(x) \div 4
    BY DEF SnippetTokens, EstimateTokens
  <1>5. \A c \in Nat : c \div 4 \in Nat /\ c =< 4 * (c \div 4) + 3
    OBVIOUS
  <1> QED
    BY <1>3, <1>4, <1>5

\* Rounding hides at most three characters of each snippet.
LEMMA SnippetsSize ==
    ASSUME NEW X, Sized(X), NEW s \in Seq(X)
    PROVE  /\ TotalTokens(s) \in Nat /\ SumOver(s, SnippetChars) \in Nat
           /\ Len(s) = 0 => TotalTokens(s) = 0
           /\ SumOver(s, SnippetChars) =< 4 * TotalTokens(s) + 3 * Len(s)
  <1> DEFINE D == DOMAIN s
             f == [i \in D |-> SnippetChars(s[i])]
             h == [i \in D |-> SnippetTokens(s[i])]
  <1>1. D = 1 .. Len(s) /\ Len(s) \in Nat /\ \A i \in D : s[i] \in X
    OBVIOUS
  <1>2. IsFiniteSet(D) /\ Cardinality(D) = Len(s)
    BY <1>1, FS_Interval
  <1>3. SumOver(s, SnippetChars) = SumOf(f)
    BY DEF SumOver, SumOf
  <1>4. TotalTokens(s) = SumOf(h)
    BY DEF TotalTokens, SumOver, SumOf
  <1>5. \A i \in D : f[i] \in Nat /\ h[i] \in Nat /\ f[i] =< 4 * h[i] + 3
    BY <1>1, SnippetSize DEF Sized
  <1>6. f \in [D -> Nat] /\ h \in [D -> Nat]
    BY <1>5
  <1>7. Len(s) = 0 => D = {}
    BY <1>1
  <1> HIDE DEF D, f, h
  <1>8. SumOf(f) \in Nat /\ SumOf(h) \in Nat /\ (D = {} => SumOf(h) = 0)
    BY <1>2, <1>6, SumType
  <1>9. SumOf(f) =< 4 * SumOf(h) + 3 * Cardinality(D)
    BY <1>2, <1>5, <1>6, SumBound
  <1> QED
    BY <1>2, <1>3, <1>4, <1>7, <1>8, <1>9

\* What is left without the repetitions are snippets that were there.
LEMMA DeduplicateType ==
    ASSUME NEW X, NEW snippets \in Seq(X)
    PROVE  DeduplicateSnippets(snippets) \in Seq(X)
  <1> DEFINE N == Len(snippets)
             S == Seq(X)
             Add(kept, n) == IF \E i \in DOMAIN kept : kept[i].symbol = snippets[n].symbol
                             THEN kept ELSE Append(kept, snippets[n])
             Body(f) == [n \in 0 .. N |-> IF n = 0 THEN << >> ELSE Add(f[n - 1], n)]
             unique == CHOOSE f : f = Body(f)
             step == [n \in 1 .. N |-> [kept \in S |-> Add(kept, n)]]
  <1>1. N \in Nat /\ << >> \in S /\ \A n \in 1 .. N : snippets[n] \in X
    OBVIOUS
  <1>2. DeduplicateSnippets(snippets) = unique[N]
    BY DEF DeduplicateSnippets
  <1>3. \A n \in 1 .. N : \A kept \in S : Add(kept, n) \in S
    BY <1>1
  <1> HIDE DEF N, S, Add
  <1>4. step \in [1 .. N -> [S -> S]]
    BY <1>3
  <1>5. \E f : f = Body(f)
    <2> HIDE DEF step
    <2>1. PICK h : Iterated(h, S, << >>, step, N)
      BY <1>1, <1>4, Iterates
    <2> USE DEF step
    <2>2. h \in [0 .. N -> S] /\ h[0] = << >> /\ \A n \in 1 .. N : h[n] = step[n][h[n - 1]]
      BY <2>1 DEF Iterated
    <2>3. ASSUME NEW n \in 0 .. N
          PROVE  h[n] = IF n = 0 THEN << >> ELSE Add(h[n - 1], n)
      <3>1. CASE n = 0
        BY <2>2, <3>1
      <3>2. CASE n # 0
        <4>1. n \in 1 .. N /\ n - 1 \in 0 .. N
          BY <1>1, <3>2
        <4>2. h[n] = step[n][h[n - 1]] /\ h[n - 1] \in S
          BY <2>2, <4>1
        <4> QED
          BY <3>2, <4>1, <4>2
      <3> QED
        BY <3>1, <3>2
    <2>4. h = Body(h)
      BY <2>2, <2>3
    <2> QED
      BY <2>4
  <1>6. unique = Body(unique)
    BY <1>5
  <1> HIDE DEF unique
  <1>7. unique[0] = << >> /\ \A n \in 1 .. N : unique[n] = Add(unique[n - 1], n)
    BY <1>1, <1>6
  <1> DEFINE P == {n \in Nat : unique[n] \in S}
  <1>8. 0 \in P
    BY <1>1, <1>7
  <1>9. ASSUME NEW n \in 0 .. N - 1, n \in P
        PROVE  n + 1 \in P
    <2>1. PICK m : m = n + 1
      OBVIOUS
    <2>2. m \in 1 .. N /\ m - 1 = n /\ m \in Nat
      BY <1>1, <2>1
    <2>3. unique[m] = Add(unique[n], m)
      BY <1>7, <2>2
    <2>4. unique[m] \in S
      BY <1>3, <1>9, <2>2, <2>3
    <2> QED
      BY <2>1, <2>2, <2>4
  <1> HIDE DEF P
  <1>10. \A n \in 0 .. N : n \in P
    BY <1>1, <1>8, <1>9, InductionUpTo
  <1>11. N \in P
    BY <1>1, <1>10
  <1> QED
    BY <1>2, <1>11 DEF P, S

\* The compressed context is the longest beginning of the unique snippets that fits.
LEMMA CompressionFits ==
    ASSUME NEW X, Sized(X), NEW snippets \in Seq(X), NEW budget \in Nat
    PROVE  LET unique == DeduplicateSnippets(snippets) IN
           \E n \in 0 .. Len(unique) :
              /\ CompressContext(snippets, budget) = SubSeq(unique, 1, n)
              /\ 100 * TotalTokens(SubSeq(unique, 1, n)) =< 95 * budget
              /\ \A m \in 0 .. Len(unique) :
                    100 * TotalTokens(SubSeq(unique, 1, m)) =< 95 * budget => m =< n
  <1> DEFINE unique == DeduplicateSnippets(snippets)
             fits == {n \in 0 .. Len(unique) :
                        100 * TotalTokens(SubSeq(unique, 1, n)) =< 95 * budget}
             last == CHOOSE n \in fits : \A m \in fits : m =< n
  <1>1. unique \in Seq(X)
    BY DeduplicateType
  <1>2. CompressContext(snippets, budget) = SubSeq(unique, 1, last)
    BY DEF CompressContext
  <1> HIDE DEF unique
  <1>3. 0 \in fits
    <2>1. 0 \in 0 .. Len(unique)
      BY <1>1
    <2>2. SubSeq(unique, 1, 0) \in Seq(X) /\ Len(SubSeq(unique, 1, 0)) = 0
      BY <1>1, <2>1, FirstOf
    <2>3. TotalTokens(SubSeq(unique, 1, 0)) = 0
      BY <2>2, SnippetsSize
    <2> QED
      BY <2>1, <2>3
  <1>4. last \in fits /\ \A m \in fits : m =< last
    <2>1. fits \in SUBSET Int /\ \A x \in fits : x =< Len(unique)
      BY <1>1
    <2>2. Len(unique) \in Int
      BY <1>1
    <2> HIDE DEF fits
    <2>3. \E n \in fits : \A m \in fits : m =< n
      BY <1>3, <2>1, <2>2, GreatestElement
    <2> QED
      BY <2>3
  <1> HIDE DEF last
  <1>5. last \in 0 .. Len(unique) /\ 100 * TotalTokens(SubSeq(unique, 1, last)) =< 95 * budget
    BY <1>4
  <1>6. \A m \in 0 .. Len(unique) :
           100 * TotalTokens(SubSeq(unique, 1, m)) =< 95 * budget => m =< last
    BY <1>4
  <1> QED
    BY <1>2, <1>5, <1>6 DEF unique

LEMMA ContextType ==
    ASSUME NEW X, Sized(X), NEW snippets \in Seq(X), NEW budget \in Nat
    PROVE  /\ CompressContext(snippets, budget) \in Seq(X)
           /\ 100 * TotalTokens(CompressContext(snippets, budget)) =< 95 * budget
  <1> DEFINE unique == DeduplicateSnippets(snippets)
  <1>1. unique \in Seq(X)
    BY DeduplicateType
  <1>2. PICK n \in 0 .. Len(unique) :
           /\ CompressContext(snippets, budget) = SubSeq(unique, 1, n)
           /\ 100 * TotalTokens(SubSeq(unique, 1, n)) =< 95 * budget
    BY CompressionFits
  <1> HIDE DEF unique
  <1>3. SubSeq(unique, 1, n) \in Seq(X)
    BY <1>1, FirstOf
  <1> QED
    BY <1>2, <1>3

\* With a smaller budget only snippets at the end are lost.
LEMMA SmallerBudget ==
    ASSUME NEW X, Sized(X), NEW snippets \in Seq(X), NEW budget \in Nat, NEW less \in Nat,
           less =< budget
    PROVE  IsPrefix(CompressContext(snippets, less), CompressContext(snippets, budget))
  <1> DEFINE u == DeduplicateSnippets(snippets)
  <1>1. u \in Seq(X)
    BY DeduplicateType
  <1>2. PICK n \in 0 .. Len(u) :
           /\ CompressContext(snippets, budget) = SubSeq(u, 1, n)
           /\ \A m \in 0 .. Len(u) :
                 100 * TotalTokens(SubSeq(u, 1, m)) =< 95 * budget => m =< n
    BY CompressionFits
  <1>3. PICK m \in 0 .. Len(u) :
           /\ CompressContext(snippets, less) = SubSeq(u, 1, m)
           /\ 100 * TotalTokens(SubSeq(u, 1, m)) =< 95 * less
    BY CompressionFits
  <1> HIDE DEF u
  <1>4. m =< n
    <2>1. TotalTokens(SubSeq(u, 1, m)) \in Nat
      BY <1>1, FirstOf, SnippetsSize
    <2>2. 100 * TotalTokens(SubSeq(u, 1, m)) =< 95 * budget
      BY <1>3, <2>1
    <2> QED
      BY <1>2, <2>2
  <1>5. m \in 0 .. n
    BY <1>4
  <1>6. /\ Len(SubSeq(u, 1, m)) = m /\ Len(SubSeq(u, 1, n)) = n
        /\ SubSeq(SubSeq(u, 1, n), 1, m) = SubSeq(u, 1, m)
        /\ SubSeq(SubSeq(u, 1, m), 1, m) = SubSeq(u, 1, m)
    BY <1>1, <1>5, FirstOf
  <1>7. IsPrefix(SubSeq(u, 1, m), SubSeq(u, 1, n))
    BY <1>4, <1>6 DEF IsPrefix
  <1> QED
    BY <1>2, <1>3, <1>7

\* The second attempt has less room for code than the first.
LEMMA PromptFits ==
    ASSUME NEW X, Sized(X), NEW snippets \in Seq(X), NEW budget \in Nat, NEW size \in Nat
    PROVE  LET prompted == GeneratePrompt(size, snippets, budget) IN
           /\ prompted \in Seq(X)
           /\ IsPrefix(prompted, CompressContext(snippets, budget))
           /\ PromptTokens(size, prompted) > budget =>
                  100 * (FramingChars(size, prompted) + 3 * Len(prompted)) > 96 * budget
  <1> DEFINE first == CompressContext(snippets, budget)
             less == (budget * 8) \div 10
             second == CompressContext(snippets, less)
             prompted == GeneratePrompt(size, snippets, budget)
  <1>1. prompted = IF PromptTokens(size, first) > budget THEN second ELSE first
    BY DEF GeneratePrompt
  <1>2. less \in Nat /\ less =< budget /\ 10 * less =< 8 * budget
    OBVIOUS
  <1> HIDE DEF less, prompted
  <1>3. first \in Seq(X) /\ second \in Seq(X) /\ 100 * TotalTokens(second) =< 95 * less
    BY <1>2, ContextType
  <1>4. IsPrefix(second, first) /\ IsPrefix(first, first)
    BY <1>2, SmallerBudget
  <1> HIDE DEF first, second
  <1>5. ASSUME PromptTokens(size, prompted) > budget
        PROVE  100 * (FramingChars(size, prompted) + 3 * Len(prompted)) > 96 * budget
    <2>1. prompted = second
      BY <1>1, <1>5
    <2>2. /\ TotalTokens(second) \in Nat /\ SumOver(second, SnippetChars) \in Nat
          /\ SumOver(second, SnippetChars) =< 4 * TotalTokens(second) + 3 * Len(second)
          /\ Len(second) \in Nat
      BY <1>3, SnippetsSize
    <2>3. FramingChars(size, second) \in Nat
      <3>1. IsFiniteSet(DOMAIN second) /\ DOMAIN second = 1 .. Len(second)
        BY <1>3, <2>2, FS_Interval
      <3> DEFINE file == [i \in DOMAIN second |-> second[i].file]
      <3>2. FilesOf(second) = {file[i] : i \in DOMAIN second}
        BY DEF FilesOf
      <3> HIDE DEF file
      <3>3. IsFiniteSet(FilesOf(second))
        BY <3>1, <3>2, FiniteImage
      <3>4. Cardinality(FilesOf(second)) \in Nat
        BY <3>3, FS_CardinalityType
      <3>5. \A a, b, c \in Nat : size + FileChars * a + FrameChars * b \in Nat
        BY BudgetAssumption
      <3> QED
        BY <2>2, <3>4, <3>5 DEF FramingChars
    <2>4. PromptTokens(size, second) = (FramingChars(size, second) + SumOver(second, SnippetChars)) \div 4
      BY DEF PromptTokens, EstimateTokens, AssembleChars
    <2>5. \A c \in Nat : c \div 4 > budget => c >= 4 * budget + 4
      OBVIOUS
    <2>6. FramingChars(size, second) + SumOver(second, SnippetChars) >= 4 * budget + 4
      BY <1>5, <2>1, <2>2, <2>3, <2>4, <2>5
    <2>7. \A f, c, t, l \in Nat :
             f + c >= 4 * budget + 4 /\ c =< 4 * t + 3 * l /\ 100 * t =< 95 * less =>
                100 * (f + 3 * l) > 96 * budget
      BY <1>2
    <2>8. 100 * (FramingChars(size, second) + 3 * Len(second)) > 96 * budget
      BY <1>3, <2>2, <2>3, <2>6, <2>7
    <2> QED
      BY <2>1, <2>8
  <1>6. prompted \in Seq(X) /\ IsPrefix(prompted, first)
    BY <1>1, <1>3, <1>4
  <1> QED
    BY <1>5, <1>6 DEF prompted, first
-----------------------------------------------------------------------------
(* The searches. *)

Scores == -100 .. 100

\* What each search has found so far: symbols, each with the version it was read in.
FoundInv ==
    /\ hits \in Seq(Partial(Symbol, Scores)) /\ Len(hits) =< embedded
    /\ \A i \in 1 .. Len(hits) : \A s \in DOMAIN hits[i] : read.vector[s] # "none"
    /\ DOMAIN named \subseteq ExtractKeywords(TicketText)
    /\ \A w \in DOMAIN named : named[w] \subseteq Symbol /\ \A s \in named[w] : read.keyword[s] # "none"
    /\ vector \in Partial(Symbol, Scores) /\ \A s \in DOMAIN vector : read.vector[s] # "none"
    /\ keyword \in Partial(Symbol, {30, 60, 100}) /\ \A s \in DOMAIN keyword : read.keyword[s] # "none"
    /\ distances \in Partial(Symbol, 0 .. MaxDepth) /\ pending \subseteq DOMAIN distances
    /\ seenEdges \in SUBSET (Symbol \X Symbol) /\ steadyEdges \in SUBSET (Symbol \X Symbol)
    /\ steadyRows \in SUBSET Symbol

\* What was read of a symbol was there.
Existing(versions) ==
    /\ versions \in Versions
    /\ \A s \in Symbol : versions[s] # "none" => s \in Present[versions[s]]
ReadInv ==
    /\ read \in [vector : Versions, keyword : Versions, rows : Versions]
    /\ Existing(read.vector) /\ Existing(read.keyword) /\ Existing(read.rows)

\* An entry of the expansion is one of the walk's, whose row was there, or a match it kept.
GraphInv ==
    /\ DOMAIN graph \subseteq Symbol
    /\ \A s \in DOMAIN graph : graph[s].score \in Scores
    /\ \A s \in DOMAIN graph : graph[s].source = "graph" => read.rows[s] # "none"
    /\ \A s \in DOMAIN graph : graph[s].source = "keyword" => s \in DOMAIN keyword
    /\ \A s \in DOMAIN graph : graph[s].source \notin {"graph", "keyword"} => s \in DOMAIN vector

LEMMA MatchesType ==
    ASSUME FoundInv
    PROVE  /\ DOMAIN vector \subseteq Symbol /\ \A s \in DOMAIN vector : vector[s] \in Scores
           /\ DOMAIN keyword \subseteq Symbol /\ \A s \in DOMAIN keyword : keyword[s] \in {30, 60, 100}
           /\ DOMAIN distances \subseteq Symbol /\ \A s \in DOMAIN distances : distances[s] \in 0 .. MaxDepth
  <1>1. /\ vector \in Partial(Symbol, Scores) /\ keyword \in Partial(Symbol, {30, 60, 100})
        /\ distances \in Partial(Symbol, 0 .. MaxDepth)
    BY DEF FoundInv
  <1>2. DOMAIN vector \subseteq Symbol /\ \A s \in DOMAIN vector : vector[s] \in Scores
    BY <1>1, PartialType
  <1>3. DOMAIN keyword \subseteq Symbol /\ \A s \in DOMAIN keyword : keyword[s] \in {30, 60, 100}
    BY <1>1, PartialType
  <1>4. DOMAIN distances \subseteq Symbol /\ \A s \in DOMAIN distances : distances[s] \in 0 .. MaxDepth
    BY <1>1, PartialType
  <1> QED
    BY <1>2, <1>3, <1>4

\* What a store holds of a symbol is of one of the versions, and of one that has it.
LEMMA VersionInType ==
    ASSUME NEW store, NEW s \in Symbol
    PROVE  /\ VersionIn(store, s) \in Version \cup {"none"}
           /\ VersionIn(store, s) # "none" => s \in Present[VersionIn(store, s)]
           /\ s \in StoredIn(store) <=> VersionIn(store, s) # "none"
  BY PipelineAssumption DEF VersionIn, StoredIn

LEMMA StoredEdgesType ==
    ASSUME edges \in [Version -> Calls]
    PROVE  StoredEdges \in SUBSET (Symbol \X Symbol)
  <1>1. edges["old"] \in SUBSET (Symbol \X Symbol) /\ edges["new"] \in SUBSET (Symbol \X Symbol)
    BY PipelineAssumption DEF Calls
  <1> QED
    BY <1>1 DEF StoredEdges

\* The greatest of some scores is one of them.
LEMMA GreatestType ==
    ASSUME NEW S \in SUBSET Int, IsFiniteSet(S)
    PROVE  /\ Greatest(S) \in Int /\ (S = {} => Greatest(S) = 0)
           /\ S # {} => Greatest(S) \in S
  <1>1. CASE S = {}
    BY <1>1 DEF Greatest
  <1>2. CASE S # {}
    <2>1. \E x \in S : \A y \in S : y =< x
      BY <1>2, FiniteHasGreatest
    <2>2. Greatest(S) = CHOOSE x \in S : \A y \in S : y =< x
      BY <1>2 DEF Greatest
    <2>3. Greatest(S) \in S
      BY <2>1, <2>2
    <2> QED
      BY <1>2, <2>3
  <1> QED
    BY <1>1, <1>2

\* A merged score is a cosine, or 100, whatever the bonus.
LEMMA MergeType ==
    ASSUME NEW parts \in Seq(Partial(Symbol, Scores)), NEW merged,
           merged = MergeVectorResults(parts)
    PROVE  /\ merged \in Partial(Symbol, Scores)
           /\ \A s \in DOMAIN merged : \E i \in 1 .. Len(parts) : s \in DOMAIN parts[i]
  <1> DEFINE hitBy(s) == {q \in DOMAIN parts : s \in DOMAIN parts[q]}
             scores(s) == {parts[q][s] : q \in hitBy(s)}
             all == UNION {DOMAIN parts[q] : q \in DOMAIN parts}
             n == Len(parts)
  <1>1. merged = [s \in all |-> Least(100, Greatest(scores(s)) + 5 * (Cardinality(hitBy(s)) - 1))]
    BY DEF MergeVectorResults
  <1>2. n \in Nat /\ DOMAIN parts = 1 .. n /\ \A q \in 1 .. n : parts[q] \in Partial(Symbol, Scores)
    OBVIOUS
  <1>3. ASSUME NEW q \in 1 .. n
        PROVE  DOMAIN parts[q] \subseteq Symbol /\ \A s \in DOMAIN parts[q] : parts[q][s] \in Scores
    BY <1>2, PartialType
  <1> HIDE DEF n
  <1>4. ASSUME NEW s \in all
        PROVE  Least(100, Greatest(scores(s)) + 5 * (Cardinality(hitBy(s)) - 1)) \in Scores
    <2>1. PICK q \in 1 .. n : s \in DOMAIN parts[q]
      BY <1>2
    <2>2. hitBy(s) \subseteq 1 .. n /\ q \in hitBy(s)
      BY <1>2, <2>1
    <2>3. \A r \in hitBy(s) : parts[r][s] \in Scores
      BY <1>3, <2>2
    <2> DEFINE F == hitBy(s)
               score == [r \in F |-> parts[r][s]]
    <2>4. scores(s) = {score[r] : r \in F}
      <3>1. \A r \in F : score[r] = parts[r][s]
        OBVIOUS
      <3> HIDE DEF F, score
      <3> QED
        BY <3>1 DEF F
    <2>5. \A r \in F : score[r] \in Scores
      BY <2>3
    <2> HIDE DEF F, score, scores, hitBy
    <2>6. IsFiniteSet(F) /\ Cardinality(F) \in Nat /\ Cardinality(F) # 0
      <3>1. IsFiniteSet(1 .. n) /\ F \subseteq 1 .. n /\ q \in F
        <4>1. IsFiniteSet(1 .. n)
          <5>1. n \in Int /\ 1 \in Int
            BY <1>2
          <5> QED
            BY <5>1, FS_Interval
        <4>2. F \subseteq 1 .. n /\ q \in F
          BY <2>2 DEF F
        <4> QED
          BY <4>1, <4>2
      <3>2. IsFiniteSet(F)
        BY <3>1, FS_Subset
      <3> QED
        BY <3>1, <3>2, FS_CardinalityType, FS_EmptySet
    <2>7. IsFiniteSet(scores(s))
      BY <2>4, <2>6, FiniteImage
    <2>8. scores(s) \subseteq Scores /\ scores(s) # {}
      <3>1. \A x \in scores(s) : \E r \in F : x = score[r]
        BY <2>4
      <3>2. q \in F
        BY <2>2 DEF F
      <3>3. score[q] \in scores(s)
        BY <2>4, <3>2
      <3>4. ASSUME NEW x \in scores(s)
            PROVE  x \in Scores
        <4>1. PICK r \in F : x = score[r]
          BY <3>1
        <4> QED
          BY <2>5, <4>1
      <3> QED
        BY <3>3, <3>4
    <2>9. Greatest(scores(s)) \in Scores
      <3>1. \A x \in Scores : x \in Int
        BY DEF Scores
      <3>2. scores(s) \in SUBSET Int
        BY <2>8, <3>1
      <3>3. Greatest(scores(s)) \in scores(s)
        BY <2>7, <2>8, <3>2, GreatestType
      <3> QED
        BY <2>8, <3>3
    <2>10. \A g \in Scores : \A c \in Nat : c # 0 => Least(100, g + 5 * (c - 1)) \in Scores
      BY DEF Least, Scores
    <2> QED
      BY <2>6, <2>9, <2>10 DEF F
  <1>5. \A s \in all : s \in Symbol /\ \E i \in 1 .. n : s \in DOMAIN parts[i]
    BY <1>2, <1>3
  <1> HIDE DEF all, hitBy, scores
  <1>6. DOMAIN merged = all /\ merged = [s \in DOMAIN merged |-> merged[s]]
    BY <1>1
  <1>7. \A s \in DOMAIN merged : merged[s] \in Scores
    BY <1>1, <1>4, <1>6
  <1>8. merged \in Partial(Symbol, Scores)
    BY <1>5, <1>6, <1>7, PartialType
  <1> QED
    BY <1>5, <1>6, <1>8 DEF n

LEMMA KeywordsAreFinite == IsFiniteSet(ExtractKeywords(TicketText))
  <1> DEFINE said == {TicketText[i] : i \in 1 .. Len(TicketText)}
  <1>1. IsFiniteSet(1 .. Len(TicketText))
    BY RetrievalAssumption, FS_Interval
  <1>2. IsFiniteSet(said)
    BY <1>1, FiniteImage
  <1>3. ExtractKeywords(TicketText) \subseteq said
    BY DEF ExtractKeywords
  <1> QED
    BY <1>2, <1>3, FS_Subset

LEMMA KeywordsType ==
    ASSUME NEW parts, DOMAIN parts \subseteq ExtractKeywords(TicketText),
           \A w \in DOMAIN parts : parts[w] \subseteq Symbol,
           NEW matched, matched = SearchSymbolsByKeywords(parts)
    PROVE  /\ matched \in Partial(Symbol, {30, 60, 100})
           /\ \A s \in DOMAIN matched : \E w \in DOMAIN parts : s \in parts[w]
  <1> DEFINE words(s) == {w \in DOMAIN parts : s \in parts[w]}
             D == UNION {parts[w] : w \in DOMAIN parts}
  <1>1. matched = [s \in D |-> ComputeKeywordScore(Cardinality(words(s)))]
    BY DEF SearchSymbolsByKeywords
  <1>2. IsFiniteSet(DOMAIN parts)
    BY KeywordsAreFinite, FS_Subset
  <1>3. ASSUME NEW s \in D
        PROVE  ComputeKeywordScore(Cardinality(words(s))) \in {30, 60, 100}
    <2>1. IsFiniteSet(words(s)) /\ words(s) # {}
      BY <1>2, FS_Subset
    <2> HIDE DEF words
    <2>2. Cardinality(words(s)) \in Nat /\ Cardinality(words(s)) # 0
      BY <2>1, FS_CardinalityType, FS_EmptySet
    <2>3. \A c \in Nat : c # 0 => ComputeKeywordScore(c) \in {30, 60, 100}
      BY DEF ComputeKeywordScore
    <2> QED
      BY <2>2, <2>3
  <1>4. \A s \in D : s \in Symbol /\ \E w \in DOMAIN parts : s \in parts[w]
    OBVIOUS
  <1> HIDE DEF D
  <1>5. DOMAIN matched = D /\ matched = [s \in DOMAIN matched |-> matched[s]]
    BY <1>1
  <1>6. \A s \in DOMAIN matched : matched[s] \in {30, 60, 100}
    BY <1>1, <1>3, <1>5
  <1>7. matched \in Partial(Symbol, {30, 60, 100})
    BY <1>4, <1>5, <1>6, PartialType
  <1> QED
    BY <1>4, <1>5, <1>7

\* The expansion keeps every match and adds what the walk reached and has a row.
LEMMA ExpansionType ==
    ASSUME FoundInv, NEW rows \in SUBSET Symbol, NEW expanded,
           expanded = GraphExpansion(distances, rows, vector, keyword)
    PROVE  /\ DOMAIN expanded \subseteq Symbol
           /\ \A s \in DOMAIN distances \cap rows :
                 s \in DOMAIN expanded /\ expanded[s].score >= GraphDistanceScore(distances[s])
           /\ \A s \in DOMAIN expanded : expanded[s].score \in Scores
           /\ \A s \in DOMAIN expanded : expanded[s].source = "graph" =>
                 s \in rows /\ s \in DOMAIN distances
                   /\ expanded[s].score = GraphDistanceScore(distances[s])
           /\ \A s \in DOMAIN expanded : expanded[s].source = "keyword" => s \in DOMAIN keyword
           /\ \A s \in DOMAIN expanded :
                 expanded[s].source \notin {"graph", "keyword"} => s \in DOMAIN vector
  <1> DEFINE seeds == DOMAIN vector \cup DOMAIN keyword
             near == ExpandSymbols(distances, rows)
             initial == [s \in seeds |-> IF s \in DOMAIN keyword
                                        THEN [score |-> keyword[s], source |-> "keyword"]
                                        ELSE [score |-> vector[s], source |-> "vector"]]
             kept(s) == s \in seeds /\ (s \notin DOMAIN near \/ near[s] =< initial[s].score)
  <1>1. expanded = [s \in seeds \cup DOMAIN near |->
                      IF kept(s) THEN initial[s] ELSE [score |-> near[s], source |-> "graph"]]
    BY DEF GraphExpansion
  <1>2. /\ DOMAIN near = DOMAIN distances \cap rows
        /\ \A s \in DOMAIN near : near[s] = GraphDistanceScore(distances[s])
    BY DEF ExpandSymbols
  <1>3. \A s \in DOMAIN near : near[s] \in Scores
    BY <1>2 DEF GraphDistanceScore, Scores
  <1>4. /\ DOMAIN vector \subseteq Symbol /\ \A s \in DOMAIN vector : vector[s] \in Scores
        /\ DOMAIN keyword \subseteq Symbol /\ \A s \in DOMAIN keyword : keyword[s] \in Scores
    <2>1. \A x \in {30, 60, 100} : x \in Scores
      BY DEF Scores
    <2> QED
      BY <2>1, MatchesType
  <1>5. \A s \in seeds : /\ initial[s].score \in Scores
                         /\ initial[s].source \in {"vector", "keyword"}
                         /\ initial[s].source = "keyword" => s \in DOMAIN keyword
                         /\ initial[s].source = "vector" => s \in DOMAIN vector
    BY <1>4
  <1> HIDE DEF near, initial
  <1>6. ASSUME NEW s \in seeds \cup DOMAIN near
        PROVE  \/ /\ s \in seeds /\ expanded[s] = initial[s]
                  /\ s \in DOMAIN near => near[s] =< initial[s].score
               \/ /\ s \in DOMAIN near /\ expanded[s].score = near[s]
                  /\ expanded[s].source = "graph"
    BY <1>1
  <1>7. DOMAIN expanded = seeds \cup DOMAIN near
    BY <1>1
  <1>8. ASSUME NEW s \in DOMAIN distances \cap rows
        PROVE  s \in DOMAIN expanded /\ expanded[s].score >= GraphDistanceScore(distances[s])
    <2>1. s \in DOMAIN near /\ near[s] = GraphDistanceScore(distances[s]) /\ near[s] \in Int
      BY <1>2, <1>3 DEF Scores
    <2>2. \A x \in Scores : x \in Int
      BY DEF Scores
    <2>3. expanded[s].score >= near[s]
      BY <1>5, <1>6, <2>1, <2>2
    <2> QED
      BY <1>7, <2>1, <2>3
  <1>9. /\ \A s \in DOMAIN expanded : expanded[s].score \in Scores
        /\ \A s \in DOMAIN expanded : s \in Symbol
    BY <1>2, <1>3, <1>4, <1>5, <1>6, <1>7
  <1>10. \A s \in DOMAIN expanded : expanded[s].source = "graph" =>
            s \in rows /\ s \in DOMAIN distances /\ expanded[s].score = GraphDistanceScore(distances[s])
    BY <1>2, <1>5, <1>6, <1>7
  <1>11. /\ \A s \in DOMAIN expanded : expanded[s].source = "keyword" => s \in DOMAIN keyword
         /\ \A s \in DOMAIN expanded :
               expanded[s].source \notin {"graph", "keyword"} => s \in DOMAIN vector
    BY <1>5, <1>6, <1>7
  <1> QED
    BY <1>8, <1>9, <1>10, <1>11
-----------------------------------------------------------------------------
(* The ranking. *)

\* What the matches are when files are ranked: functions with integer scores.
Scored(m) == DOMAIN m \subseteq Symbol /\ \A s \in DOMAIN m : m[s] \in Int

LEMMA BestScoreType ==
    ASSUME NEW S \in SUBSET Symbol, NEW f, \A s \in S : f[s] \in Int
    PROVE  Greatest({f[s] : s \in S}) \in Int
  <1> DEFINE T == {f[s] : s \in S}
  <1>1. IsFiniteSet(S)
    BY RetrievalAssumption, FS_Subset
  <1>2. IsFiniteSet(T)
    BY <1>1, FiniteImage
  <1>3. T \in SUBSET Int
    OBVIOUS
  <1> HIDE DEF T
  <1>4. Greatest(T) \in Int
    BY <1>2, <1>3, GreatestType
  <1> QED
    BY <1>4 DEF T

LEMMA ScoreType ==
    ASSUME FoundInv, GraphInv, NEW f \in File
    PROVE  FinalScore(vector, keyword, graph, f) \in Int
  <1>1. Scored(vector) /\ Scored(keyword)
    BY MatchesType DEF Scored, Scores
  <1>2. SemanticScore(vector, f) \in Int
    <2>1. InFile(vector, f) \in SUBSET Symbol /\ \A s \in InFile(vector, f) : vector[s] \in Int
      BY <1>1 DEF InFile, Scored
    <2> QED
      BY <2>1, BestScoreType DEF SemanticScore
  <1>3. KeywordScore(keyword, f) \in Int
    <2>1. InFile(keyword, f) \in SUBSET Symbol /\ \A s \in InFile(keyword, f) : keyword[s] \in Int
      BY <1>1 DEF InFile, Scored
    <2> QED
      BY <2>1, BestScoreType DEF KeywordScore
  <1>4. GraphScore(graph, f) \in Int
    <2> DEFINE S == {t \in InFile(graph, f) : graph[t].source = "graph"}
               score == [s \in S |-> graph[s].score]
    <2>1. S \in SUBSET Symbol /\ \A s \in S : score[s] \in Int
      BY DEF InFile, GraphInv, Scores
    <2>2. GraphScore(graph, f) = Greatest({score[s] : s \in S})
      <3>1. {graph[s].score : s \in S} = {score[s] : s \in S}
        <4>1. \A s \in S : score[s] = graph[s].score
          OBVIOUS
        <4> HIDE DEF S, score
        <4> QED
          BY <4>1
      <3> HIDE DEF score
      <3> QED
        BY <3>1 DEF GraphScore
    <2> HIDE DEF S, score
    <2> QED
      BY <2>1, <2>2, BestScoreType
  <1>5. SymbolCount(vector, keyword, graph, f) \in Nat
    <2>1. /\ InFile(vector, f) \subseteq Symbol /\ InFile(keyword, f) \subseteq Symbol
          /\ InFile(graph, f) \subseteq Symbol
      BY <1>1 DEF InFile, GraphInv, Scored
    <2>2. \A S \in SUBSET Symbol : Cardinality(S) \in Nat
      BY RetrievalAssumption, FS_Subset, FS_CardinalityType
    <2> QED
      BY <2>1, <2>2 DEF SymbolCount
  <1>6. /\ GitRecencyScore(DaysOld[f]) \in Int
        /\ DensityScore(SymbolCount(vector, keyword, graph, f)) \in Int
    BY <1>5, RetrievalAssumption DEF GitRecencyScore, DensityScore
  <1> QED
    BY <1>2, <1>3, <1>4, <1>6 DEF FinalScore

\* The list holds the candidates with the highest scores, each once.
LEMMA RankingType ==
    ASSUME FoundInv, GraphInv, NEW r \in RankFiles(vector, keyword, graph, FileLimit)
    PROVE  LET files == Candidates(vector, keyword, graph) IN
           /\ files \subseteq File
           /\ r \in Seq(files) /\ Len(r) =< FileLimit /\ IsInjective(r)
           /\ Cardinality(ToSet(r)) = AtMost(FileLimit, Cardinality(files))
           /\ \A f \in ToSet(r), g \in files \ ToSet(r) :
                 FinalScore(vector, keyword, graph, f) >= FinalScore(vector, keyword, graph, g)
  <1> DEFINE files == Candidates(vector, keyword, graph)
             Score(f) == FinalScore(vector, keyword, graph, f)
             C == Cardinality(files)
             D == 1 .. C
  <1>1. files \subseteq File
    <2>1. /\ DOMAIN vector \subseteq Symbol /\ DOMAIN keyword \subseteq Symbol
          /\ DOMAIN graph \subseteq Symbol
      BY MatchesType DEF GraphInv
    <2> QED
      BY <2>1, RetrievalAssumption DEF Candidates
  <1>2. IsFiniteSet(files) /\ C \in Nat
    BY <1>1, RetrievalAssumption, FS_Subset, FS_CardinalityType
  <1>3. PICK q \in SetToSeqs(files) :
           /\ r = SubSeq(q, 1, Least(FileLimit, Len(q)))
           /\ \A i, j \in DOMAIN q : i < j => ~ Before(vector, keyword, graph, q[j], q[i])
    BY DEF RankFiles
  <1>4. /\ q \in [D -> files]
        /\ \A i, j \in D : q[i] = q[j] => i = j
    BY <1>3 DEF SetToSeqs
  <1> HIDE DEF files, C
  <1>5. /\ q \in Seq(files) /\ Len(q) = C /\ DOMAIN q = D
    BY <1>2, <1>4
  <1> DEFINE n == Least(FileLimit, C)
  <1>6. n \in 0 .. C /\ n =< FileLimit /\ n = AtMost(FileLimit, C)
    BY <1>2, PipelineAssumption DEF Least, AtMost
  <1>7. r = SubSeq(q, 1, n)
    BY <1>3, <1>5
  <1> HIDE DEF n
  <1>8. /\ r \in Seq(files) /\ Len(r) = n
        /\ \A i \in 1 .. n : r[i] = q[i]
    BY <1>5, <1>6, <1>7, FirstOf
  <1>9. ASSUME NEW i \in 1 .. n, NEW j \in 1 .. n, r[i] = r[j]
        PROVE  i = j
    <2>1. i \in D /\ j \in D
      BY <1>2, <1>6
    <2>2. q[i] = q[j]
      BY <1>8, <1>9
    <2> QED
      BY <1>4, <2>1, <2>2
  <1>10. IsInjective(r) /\ Cardinality(ToSet(r)) = n
    BY <1>8, <1>9, DistinctElements
  <1>11. \A x \in files : \E i \in D : q[i] = x
    <2>1. q \in Injection(D, files)
      BY <1>4 DEF Injection, IsInjective
    <2>2. IsFiniteSet(D) /\ Cardinality(D) = C
      BY <1>2, FS_Interval
    <2>3. q \in Surjection(D, files)
      <3> HIDE DEF D
      <3> QED
        BY <1>2, <2>1, <2>2, FS_Injection DEF C
    <2> QED
      BY <2>3 DEF Surjection
  <1>12. ASSUME NEW f \in ToSet(r), NEW g \in files \ ToSet(r)
         PROVE  Score(f) >= Score(g)
    <2>1. PICK i \in 1 .. n : f = r[i]
      BY <1>8 DEF ToSet
    <2>2. PICK j \in D : g = q[j]
      BY <1>11
    <2>3. ~ (j \in 1 .. n)
      <3>1. ASSUME j \in 1 .. n
            PROVE  FALSE
        <4>1. g = r[j] /\ j \in DOMAIN r
          BY <1>8, <2>2, <3>1
        <4> QED
          BY <4>1 DEF ToSet
      <3> QED
        BY <3>1
    <2>4. i \in DOMAIN q /\ j \in DOMAIN q /\ i < j /\ q[i] = f
      BY <1>5, <1>6, <1>8, <2>1, <2>2, <2>3
    <2>5. ~ Before(vector, keyword, graph, g, f)
      BY <1>3, <2>2, <2>4
    <2>6. Score(g) > Score(f) => Before(vector, keyword, graph, g, f)
      <3> DEFINE G == <<FinalScore(vector, keyword, graph, g), SymbolCount(vector, keyword, graph, g),
                        GitRecencyScore(DaysOld[g])>>
                 F == <<FinalScore(vector, keyword, graph, f), SymbolCount(vector, keyword, graph, f),
                        GitRecencyScore(DaysOld[f])>>
      <3>1. Score(g) > Score(f) => G[1] > F[1] /\ \A x \in 1 .. 1 - 1 : G[x] = F[x]
        OBVIOUS
      <3>2. Score(g) > Score(f) => \E y \in 1 .. 3 : G[y] > F[y] /\ \A x \in 1 .. y - 1 : G[x] = F[x]
        <4> HIDE DEF G, F, Score
        <4> QED
          BY <3>1
      <3> QED
        BY <3>2 DEF Before
    <2>7. Score(f) \in Int /\ Score(g) \in Int
      <3>1. f \in File /\ g \in File
        BY <1>1, <1>4, <2>2, <2>4, <1>5
      <3> QED
        BY <3>1, ScoreType
    <2> HIDE DEF Score
    <2> QED
      BY <2>5, <2>6, <2>7
  <1>13. /\ files \subseteq File /\ r \in Seq(files) /\ Len(r) =< FileLimit /\ IsInjective(r)
         /\ Cardinality(ToSet(r)) = AtMost(FileLimit, C)
    BY <1>1, <1>6, <1>8, <1>10
  <1>14. \A f \in ToSet(r), g \in files \ ToSet(r) :
            FinalScore(vector, keyword, graph, f) >= FinalScore(vector, keyword, graph, g)
    BY <1>12
  <1> QED
    BY <1>13, <1>14 DEF files, C
-----------------------------------------------------------------------------
(* The snippets. *)

\* The snippets of symbols, in the version they were found in, of files that can be read.
Found == {p \in Symbol \X Version : p[1] \in Present[p[2]] /\ Lines[disk][FileOf[p[1]]] >= 0}
Snippets == {Snippet(p[1], p[2]) : p \in Found}

LEMMA SnippetsShowTheFile ==
    ASSUME disk \in Version, NEW t \in Snippets
    PROVE  /\ IsFiniteSet(t.lines)
           /\ t.version = disk => t.lines = Span[disk][t.symbol][1] .. Span[disk][t.symbol][2]
           /\ t.lines \subseteq 1 .. Lines[disk][t.file]
           /\ t.lines = {} => Lines[disk][t.file] = 0
  <1>1. PICK p \in Found : t = Snippet(p[1], p[2])
    BY DEF Snippets
  <1> DEFINE s == p[1]
             v == p[2]
             first == Span[v][s][1]
             last == Span[v][s][2]
             total == Lines[disk][FileOf[s]]
  <1>2. s \in Symbol /\ v \in Version /\ s \in Present[v] /\ total >= 0
    BY DEF Found
  <1>3. FileOf[s] \in File /\ total \in Int
    BY <1>2, RetrievalAssumption, PipelineAssumption
  <1>4. first \in Nat /\ last \in Nat /\ 1 =< first /\ first =< last
    <2>1. Span[v][s] \in Nat \X Nat
      BY <1>2, PipelineAssumption
    <2> QED
      BY <1>2, <2>1, PipelineAssumption
  <1>5. v = disk => last =< total
    BY <1>2, PipelineAssumption
  <1>6. /\ t.symbol = s /\ t.file = FileOf[s] /\ t.version = v
        /\ t.lines = SnippetLines(first, last, total)
    BY <1>1 DEF Snippet
  <1> HIDE DEF first, last, total, s, v
  <1> DEFINE start == AtLeast(1, AtMost(first, total))
             end == AtLeast(start, AtMost(last, total))
             stop == AtMost(end, total)
  <1>7. t.lines = start .. stop
    BY <1>6 DEF SnippetLines
  <1>8. /\ start \in Int /\ stop \in Int /\ 1 =< start /\ stop =< total
        /\ start > stop => total = 0
        /\ last =< total => start = first /\ stop = last
    BY <1>2, <1>3, <1>4 DEF AtLeast, AtMost
  <1> HIDE DEF start, stop
  <1>9. IsFiniteSet(t.lines)
    BY <1>7, <1>8, FS_Interval
  <1>10. t.lines \subseteq 1 .. total
    BY <1>3, <1>7, <1>8
  <1>11. t.lines = {} => total = 0
    <2>1. start =< stop => start \in start .. stop
      BY <1>8
    <2> QED
      BY <1>7, <1>8, <2>1
  <1>12. t.version = disk => t.lines = first .. last
    BY <1>5, <1>6, <1>7, <1>8
  <1>13. t.version = disk => t.lines = Span[disk][t.symbol][1] .. Span[disk][t.symbol][2]
    BY <1>6, <1>12 DEF first, last, s, v
  <1>14. Lines[disk][t.file] = total
    BY <1>6 DEF total
  <1> QED
    BY <1>9, <1>10, <1>11, <1>13, <1>14

LEMMA InOrderType ==
    ASSUME NEW S \in SUBSET Symbol, NEW versions,
           \A s \in S : <<s, versions[s]>> \in Found
    PROVE  InOrder(S, versions) \in Seq(Snippets)
  <1> DEFINE q == SetToSeq(S)
  <1>1. IsFiniteSet(S)
    BY RetrievalAssumption, FS_Subset
  <1>2. q \in Seq(S)
    BY <1>1, SetToSeqOrders
  <1>3. InOrder(S, versions) = [i \in DOMAIN q |-> Snippet(q[i], versions[q[i]])]
    BY DEF InOrder
  <1> HIDE DEF q
  <1>4. Len(q) \in Nat /\ DOMAIN q = 1 .. Len(q) /\ \A i \in DOMAIN q : q[i] \in S
    BY <1>2
  <1>5. ASSUME NEW s \in S
        PROVE  Snippet(s, versions[s]) \in Snippets
    <2> DEFINE p == <<s, versions[s]>>
    <2>1. p \in Found /\ p[1] = s /\ p[2] = versions[s]
      OBVIOUS
    <2> HIDE DEF p
    <2> QED
      BY <2>1 DEF Snippets
  <1>6. \A i \in 1 .. Len(q) : Snippet(q[i], versions[q[i]]) \in Snippets
    BY <1>4, <1>5
  <1> QED
    BY <1>3, <1>4, <1>6

\* Every snippet is of a symbol in the version a search read.
LEMMA AllSnippetsType ==
    ASSUME FoundInv, ReadInv, GraphInv, disk \in Version \cup {"none"}, ranked \in Seq(File)
    PROVE  /\ AllSnippets \in Seq(Snippets)
           /\ disk = "none" => AllSnippets \in Seq({})
  <1> DEFINE N == Len(ranked)
             readable(f) == disk # "none" /\ Lines[disk][f] >= 0
             seqs == [i \in DOMAIN ranked |->
                        IF readable(ranked[i]) THEN FileSnippets(ranked[i]) ELSE << >>]
  <1>1. AllSnippets = FlattenSeq(seqs)
    BY DEF AllSnippets
  <1>2. /\ DOMAIN vector \subseteq Symbol /\ DOMAIN keyword \subseteq Symbol /\ DOMAIN graph \subseteq Symbol
    BY MatchesType DEF GraphInv
  <1>3. ASSUME NEW versions, Existing(versions), NEW s \in Symbol, versions[s] # "none",
               readable(FileOf[s])
        PROVE  <<s, versions[s]>> \in Found
    <2>1. versions[s] \in Version /\ s \in Present[versions[s]]
      BY <1>3 DEF Existing, Versions
    <2> QED
      BY <1>3, <2>1 DEF Found
  <1>4. ASSUME NEW f \in File, readable(f)
        PROVE  FileSnippets(f) \in Seq(Snippets)
    <2>1. Existing(read.vector) /\ Existing(read.keyword) /\ Existing(read.rows)
      BY DEF ReadInv
    <2>2. InOrder(InFile(vector, f), read.vector) \in Seq(Snippets)
      <3>1. ASSUME NEW s \in InFile(vector, f)
            PROVE  s \in Symbol /\ <<s, read.vector[s]>> \in Found
        <4>1. s \in DOMAIN vector /\ FileOf[s] = f
          BY DEF InFile
        <4>2. s \in Symbol /\ read.vector[s] # "none"
          BY <1>2, <4>1 DEF FoundInv
        <4> QED
          BY <1>3, <1>4, <2>1, <4>1, <4>2
      <3> QED
        BY <3>1, InOrderType
    <2>3. InOrder(InFile(keyword, f), read.keyword) \in Seq(Snippets)
      <3>1. ASSUME NEW s \in InFile(keyword, f)
            PROVE  s \in Symbol /\ <<s, read.keyword[s]>> \in Found
        <4>1. s \in DOMAIN keyword /\ FileOf[s] = f
          BY DEF InFile
        <4>2. s \in Symbol /\ read.keyword[s] # "none"
          BY <1>2, <4>1 DEF FoundInv
        <4> QED
          BY <1>3, <1>4, <2>1, <4>1, <4>2
      <3> QED
        BY <3>1, InOrderType
    <2>4. InOrder(InFile(graph, f), GraphVersions) \in Seq(Snippets)
      <3>1. ASSUME NEW s \in InFile(graph, f)
            PROVE  s \in Symbol /\ <<s, GraphVersions[s]>> \in Found
        <4>1. s \in DOMAIN graph /\ FileOf[s] = f /\ s \in Symbol
          BY <1>2 DEF InFile
        <4>2. CASE graph[s].source = "graph"
          <5>1. GraphVersions[s] = read.rows[s] /\ read.rows[s] # "none"
            BY <4>1, <4>2 DEF GraphVersions, GraphInv
          <5> QED
            BY <1>3, <1>4, <2>1, <4>1, <5>1
        <4>3. CASE graph[s].source = "keyword"
          <5>1. GraphVersions[s] = read.keyword[s] /\ s \in DOMAIN keyword
            BY <4>1, <4>3 DEF GraphVersions, GraphInv
          <5>2. read.keyword[s] # "none"
            BY <5>1 DEF FoundInv
          <5> QED
            BY <1>3, <1>4, <2>1, <4>1, <5>1, <5>2
        <4>4. CASE graph[s].source \notin {"graph", "keyword"}
          <5>1. GraphVersions[s] = read.vector[s] /\ s \in DOMAIN vector
            BY <4>1, <4>4 DEF GraphVersions, GraphInv
          <5>2. read.vector[s] # "none"
            BY <5>1 DEF FoundInv
          <5> QED
            BY <1>3, <1>4, <2>1, <4>1, <5>1, <5>2
        <4> QED
          BY <4>2, <4>3, <4>4
      <3> QED
        BY <3>1, InOrderType
    <2> QED
      BY <2>2, <2>3, <2>4 DEF FileSnippets
  <1>5. ASSUME NEW X, \A i \in 1 .. N : seqs[i] \in Seq(X)
        PROVE  AllSnippets \in Seq(X)
    <2>1. N \in Nat /\ seqs = [i \in 1 .. N |-> seqs[i]]
      OBVIOUS
    <2> HIDE DEF seqs
    <2>2. seqs \in Seq(Seq(X))
      BY <1>5, <2>1
    <2> QED
      BY <1>1, <2>2, FlatSequence
  <1>6. \A i \in 1 .. N : ranked[i] \in File /\ i \in DOMAIN ranked
    OBVIOUS
  <1>7. \A i \in 1 .. N : seqs[i] = IF readable(ranked[i]) THEN FileSnippets(ranked[i]) ELSE << >>
    BY <1>6
  <1>8. \A X : << >> \in Seq(X)
    OBVIOUS
  <1> HIDE DEF seqs, N
  <1>9. \A i \in 1 .. N : seqs[i] \in Seq(Snippets)
    BY <1>4, <1>6, <1>7, <1>8
  <1>10. disk = "none" => \A i \in 1 .. N : seqs[i] \in Seq({})
    BY <1>7, <1>8
  <1>11. AllSnippets \in Seq(Snippets)
    BY <1>5, <1>9
  <1>12. ASSUME disk = "none"
         PROVE  AllSnippets \in Seq({})
    BY <1>5, <1>10, <1>12
  <1> QED
    BY <1>11, <1>12
-----------------------------------------------------------------------------
(* The run.  The inductive invariant says which results each step finds.   *)

Preparing == {"intake", "jira_context", "expansion", "embedding"}
Walking == {"edges_from", "edges_to", "look_up"}
Searching == Preparing \cup {"vector_search", "keyword_search", "graph_expansion"} \cup Walking
Ranked == {"compression", "prompt", "answer", "completed"}

StepInv ==
    /\ pc \in Searching \cup Ranked \cup {"ranking", "failed"}
    /\ errors \subseteq {"embedding", "graph_expansion"}
    /\ cachedQueries \in 0 .. MaxQueries /\ queries \in 0 .. MaxQueries
    /\ embedded \in {0, queries}
    /\ pc \in Preparing => embedded = 0
    /\ indexing \in 0 .. 3 + Len(Writes)
    /\ ticket \in Nat /\ edges \in [Version -> Calls] /\ disk \in Version \cup {"none"}

Expanded == pc = "ranking" /\ "graph_expansion" \notin errors
Rows == {s \in Symbol : read.rows[s] # "none"}

WalkInv ==
    /\ pc \in Walking \/ Expanded => Near(seenEdges, Matched, distances)
    /\ pc = "edges_from" =>
          /\ Ordered(distances, pending)
          /\ Settled(steadyEdges, MaxDepth, distances, DOMAIN distances \ pending)
    /\ pc = "edges_to" =>
          /\ current \in DOMAIN distances /\ current \notin pending /\ distances[current] < MaxDepth
          /\ Level(distances, pending, distances[current])
          /\ Settled(steadyEdges, MaxDepth, distances, DOMAIN distances \ (pending \cup {current}))
          /\ Callees(steadyEdges, current) \subseteq DOMAIN distances
    /\ pc = "look_up" \/ Expanded => Settled(steadyEdges, MaxDepth, distances, DOMAIN distances)
    /\ pc = "look_up" => (DOMAIN distances \ pending) \cap steadyRows \subseteq Rows
    /\ Expanded => /\ DOMAIN distances \cap steadyRows \subseteq Rows
                   /\ graph = GraphExpansion(distances, Rows, vector, keyword)

ResultInv ==
    /\ pc \in Searching => graph = NoMatches
    /\ IF pc \in Ranked THEN ranked \in RankFiles(vector, keyword, graph, FileLimit) ELSE ranked = << >>
    /\ IF pc \in {"prompt", "answer", "completed"}
       THEN context = CompressContext(AllSnippets, TokenBudget) ELSE context = << >>
    /\ pc \in {"answer", "completed"} => prompt = GeneratePrompt(ticket, AllSnippets, TokenBudget)

PipelineInv == StepInv /\ FoundInv /\ ReadInv /\ GraphInv /\ WalkInv /\ ResultInv

LEMMA WritesType == Len(Writes) \in Nat
  <1> DEFINE S == [store : {"rows", "points", "edges"}, of : SUBSET Symbol]
             symbols(m) == UNION ToSet(Modules[m])
             rows(m) == << [store |-> "rows", of |-> symbols(m)] >>
             points(m) == [b \in DOMAIN Modules[m] |-> [store |-> "points", of |-> Modules[m][b]]]
             calls(m) == << [store |-> "edges", of |-> symbols(m)] >>
             seqs == [m \in DOMAIN Modules |-> rows(m) \o points(m) \o calls(m)]
  <1>1. Writes = FlattenSeq(seqs)
    BY DEF Writes
  <1>2. Modules \in Seq(Seq(SUBSET Present["new"])) /\ Present["new"] \subseteq Symbol
    BY PipelineAssumption
  <1>3. ASSUME NEW m \in DOMAIN Modules
        PROVE  rows(m) \o points(m) \o calls(m) \in Seq(S)
    <2>1. Modules[m] \in Seq(SUBSET Symbol)
      BY <1>2
    <2>2. symbols(m) \in SUBSET Symbol
      BY <2>1 DEF ToSet
    <2>3. rows(m) \in Seq(S) /\ calls(m) \in Seq(S)
      <3> HIDE DEF symbols
      <3> QED
        BY <2>2
    <2>4. points(m) \in Seq(S)
      <3>1. /\ DOMAIN Modules[m] = 1 .. Len(Modules[m]) /\ Len(Modules[m]) \in Nat
            /\ \A b \in 1 .. Len(Modules[m]) : Modules[m][b] \in SUBSET Symbol
        BY <2>1
      <3> QED
        BY <3>1
    <2> HIDE DEF rows, points, calls, S
    <2> QED
      BY <2>3, <2>4
  <1>4. Len(Modules) \in Nat /\ DOMAIN Modules = 1 .. Len(Modules)
    BY <1>2
  <1> HIDE DEF rows, points, calls, S
  <1>5. seqs \in Seq(Seq(S))
    BY <1>3, <1>4
  <1> HIDE DEF seqs
  <1>6. Writes \in Seq(S)
    BY <1>1, <1>5, FlatSequence
  <1> QED
    BY <1>6

\* What the results are computed from stays when the matches and the list stay.
LEMMA SameSnippets ==
    ASSUME UNCHANGED <<vector, keyword, graph, read, ranked, disk>>
    PROVE  AllSnippets' = AllSnippets
  <1>1. \A s, v : Snippet(s, v)' = Snippet(s, v)
    BY DEF Snippet
  <1>2. \A S, v : InOrder(S, v)' = InOrder(S, v)
    BY <1>1 DEF InOrder
  <1>3. GraphVersions' = GraphVersions
    BY DEF GraphVersions
  <1>4. \A f : FileSnippets(f)' = FileSnippets(f)
    BY <1>1, <1>2, <1>3 DEF FileSnippets, InFile
  <1> QED
    BY <1>4 DEF AllSnippets

LEMMA SameMatches ==
    ASSUME FoundInv, ReadInv, GraphInv, UNCHANGED found, Len(hits) =< embedded'
    PROVE  FoundInv' /\ ReadInv' /\ GraphInv' /\ Matched' = Matched /\ Rows' = Rows
  BY DEF FoundInv, ReadInv, GraphInv, found, searches, walk, Existing, Matched, Rows

\* A step after the ranking keeps the ranked files, and what is computed from them.
LEMMA SameResults ==
    ASSUME PipelineInv, pc \in Ranked, pc' \in Ranked, UNCHANGED <<embedded, found, ranked, stores>>
    PROVE  /\ FoundInv' /\ ReadInv' /\ GraphInv' /\ WalkInv' /\ AllSnippets' = AllSnippets
           /\ (pc \in Searching => graph = NoMatches)'
           /\ ranked' \in RankFiles(vector', keyword', graph', FileLimit)
  <1>1. FoundInv' /\ ReadInv' /\ GraphInv'
    BY SameMatches DEF PipelineInv, FoundInv
  <1>2. AllSnippets' = AllSnippets
    BY SameSnippets DEF found, searches, stores, given
  <1>3. WalkInv'
    BY DEF WalkInv, Ranked, Walking, Expanded
  <1>4. (pc \in Searching => graph = NoMatches)'
    BY DEF Ranked, Searching, Preparing, Walking
  <1>5. ranked' \in RankFiles(vector', keyword', graph', FileLimit)
    BY DEF PipelineInv, ResultInv, found, searches
  <1> QED
    BY <1>1, <1>2, <1>3, <1>4, <1>5

\* Before the ranking there is nothing to keep but the matches.
LEMMA NoResults ==
    ASSUME PipelineInv, pc \in Searching \cup {"ranking"},
           pc' \in Searching \cup {"ranking", "failed"},
           UNCHANGED <<ranked, context>>, pc' \in Searching => graph' = NoMatches
    PROVE  ResultInv'
  BY DEF PipelineInv, ResultInv, Searching, Ranked, Preparing, Walking

LEMMA PipelineInit == Init => PipelineInv
  <1> SUFFICES ASSUME Init
               PROVE  PipelineInv
    OBVIOUS
  <1>1. StepInv
    <2>1. ticket \in Nat /\ edges \in [Version -> Calls] /\ disk \in Version \cup {"none"}
      BY PipelineAssumption DEF Init
    <2>2. cachedQueries \in 0 .. MaxQueries
      <3>1. CASE cachedQueries = 0
        BY <3>1, PipelineAssumption
      <3>2. CASE cachedQueries # 0
        <4>1. PICK n \in LlmReplies : cachedQueries = AtMost(n, MaxQueries)
          BY <3>2 DEF Init
        <4>2. n \in Nat
          BY PipelineAssumption
        <4> QED
          BY <4>1, <4>2, PipelineAssumption DEF AtMost
      <3> QED
        BY <3>1, <3>2
    <2> QED
      BY <2>1, <2>2, WritesType, PipelineAssumption DEF Init, StepInv, Searching, Preparing
  <1>2. FoundInv
    <2>1. \A T : NoMatches \in Partial(Symbol, T) /\ DOMAIN NoMatches = {}
      <3>1. DOMAIN NoMatches = {} /\ NoMatches = [s \in DOMAIN NoMatches |-> NoMatches[s]]
        BY DEF NoMatches
      <3> QED
        BY <3>1, PartialType
    <2>2. hits \in Seq(Partial(Symbol, Scores)) /\ Len(hits) = 0 /\ embedded = 0
      BY DEF Init
    <2>3. \A i \in 1 .. Len(hits) : FALSE
      BY <2>2
    <2> QED
      BY <2>1, <2>2, <2>3 DEF Init, FoundInv
  <1>3. ReadInv
    BY DEF Init, ReadInv, Existing, Versions, NoVersions
  <1>4. GraphInv
    <2>1. DOMAIN graph = {}
      BY DEF Init, NoMatches
    <2> QED
      BY <2>1 DEF GraphInv
  <1>5. WalkInv
    BY DEF Init, WalkInv, Walking, Expanded
  <1>6. ResultInv
    BY DEF Init, ResultInv, Ranked
  <1> QED
    BY <1>1, <1>2, <1>3, <1>4, <1>5, <1>6 DEF PipelineInv

\* A step before the searches, or a failure, changes no match.
LEMMA PrepareKeeps ==
    ASSUME PipelineInv, Intake \/ JiraContext \/ ExpandTicket \/ Embed \/ StepRaises \/ GraphRaises
    PROVE  PipelineInv'
  <1>1. /\ pc \in Searching \cup {"ranking"} /\ pc' \in Searching \cup {"ranking", "failed"}
        /\ pc' \in Searching => pc \in Searching
        /\ pc' \notin Walking
        /\ pc' = "ranking" => "graph_expansion" \in errors'
        /\ UNCHANGED <<ranked, context, stores, found>>
    BY DEF Intake, JiraContext, ExpandTicket, Embed, StepRaises, GraphRaises, Goto, Abort, Searching,
           Walking, Preparing, results
  <1>2. StepInv'
    <2>1. CASE Intake \/ JiraContext \/ StepRaises \/ GraphRaises
      BY <2>1 DEF PipelineInv, StepInv, Intake, JiraContext, StepRaises, GraphRaises, Goto, Abort,
                  Searching, Preparing, Walking, stores, given
    <2>2. CASE Embed
      BY <2>2 DEF PipelineInv, StepInv, Embed, Goto, Searching, Preparing, stores, given
    <2>3. CASE ExpandTicket
      <3>1. cachedQueries' \in 0 .. MaxQueries /\ queries' \in 0 .. MaxQueries
        <4>1. CASE cachedQueries > 0
          BY <2>3, <4>1 DEF PipelineInv, StepInv, ExpandTicket
        <4>2. CASE ~ (cachedQueries > 0)
          <5>1. PICK n \in LlmReplies : /\ queries' = AtLeast(1, ParseExpansionResponse(n))
                                        /\ cachedQueries' = ParseExpansionResponse(n)
            BY <2>3, <4>2 DEF ExpandTicket
          <5>2. n \in Nat
            BY PipelineAssumption
          <5> QED
            BY <5>1, <5>2, PipelineAssumption DEF ParseExpansionResponse, AtMost, AtLeast
        <4> QED
          BY <4>1, <4>2
      <3>2. embedded' = 0
        BY <2>3 DEF PipelineInv, StepInv, ExpandTicket, Goto, Preparing
      <3> QED
        BY <2>3, <3>1, <3>2 DEF PipelineInv, StepInv, ExpandTicket, Goto, Searching, Preparing, stores, given
    <2> QED
      BY <2>1, <2>2, <2>3
  <1>3. Len(hits) =< embedded'
    <2>1. CASE Embed
      <3>1. embedded = 0 /\ embedded' \in Nat
        BY <1>2, <2>1, PipelineAssumption DEF PipelineInv, StepInv, Embed, Goto, Preparing
      <3>2. Len(hits) \in Nat /\ Len(hits) =< 0
        BY <3>1 DEF PipelineInv, FoundInv
      <3> QED
        BY <3>1, <3>2
    <2>2. CASE ~ Embed
      <3>1. embedded' = embedded
        BY <2>2 DEF Intake, JiraContext, ExpandTicket, StepRaises, GraphRaises
      <3> QED
        BY <3>1 DEF PipelineInv, FoundInv
    <2> QED
      BY <2>1, <2>2
  <1>4. FoundInv' /\ ReadInv' /\ GraphInv'
    BY <1>1, <1>3, SameMatches DEF PipelineInv
  <1>5. WalkInv'
    BY <1>1 DEF WalkInv, Walking, Expanded
  <1>6. ResultInv'
    <2>1. pc' \in Searching => graph' = NoMatches
      BY <1>1 DEF PipelineInv, ResultInv, found
    <2> QED
      BY <1>1, <2>1, NoResults
  <1> QED
    BY <1>2, <1>4, <1>5, <1>6 DEF PipelineInv

\* A query of the vector search adds an answer, and the versions of its payloads.
LEMMA SearchSingleQueryKeeps ==
    ASSUME PipelineInv, SearchSingleQuery
    PROVE  FoundInv' /\ ReadInv'
  <1> DEFINE q == Len(hits) + 1
             known(s) == ~ \A i \in DOMAIN hits : s \in DOMAIN hits[i] => Similarity[q][s] > hits[i][s]
  <1>1. PICK T \in SUBSET StoredIn("points") :
           /\ hits' = Append(hits, [s \in T |-> Similarity[q][s]])
           /\ read' = [read EXCEPT !.vector = [s \in Symbol |->
                          IF s \in T /\ ~ known(s) THEN VersionIn("points", s) ELSE read.vector[s]]]
    BY DEF SearchSingleQuery
  <1>2. /\ Len(hits) < embedded /\ pc = "vector_search"
        /\ UNCHANGED <<embedded, named, vector, keyword, walk>>
    BY DEF SearchSingleQuery
  <1>3. /\ hits \in Seq(Partial(Symbol, Scores)) /\ Len(hits) =< embedded
        /\ \A i \in 1 .. Len(hits) : \A s \in DOMAIN hits[i] : read.vector[s] # "none"
        /\ DOMAIN hits = 1 .. Len(hits) /\ Len(hits) \in Nat
    BY DEF PipelineInv, FoundInv
  <1>4. q \in 1 .. MaxQueries /\ q =< embedded
    <2>1. embedded \in 0 .. MaxQueries
      BY PipelineAssumption DEF PipelineInv, StepInv
    <2> QED
      BY <1>2, <1>3, <2>1, PipelineAssumption
  <1> DEFINE answer == [s \in T |-> Similarity[q][s]]
             versions == [s \in Symbol |->
                 IF s \in T /\ ~ known(s) THEN VersionIn("points", s) ELSE read.vector[s]]
  <1>5. ASSUME NEW s \in T
        PROVE  s \in Symbol /\ VersionIn("points", s) # "none" /\ VersionIn("points", s) \in Version
                 /\ s \in Present[VersionIn("points", s)]
    <2>1. s \in Symbol /\ s \in StoredIn("points")
      BY DEF StoredIn
    <2> QED
      BY <2>1, VersionInType
  <1>6. answer \in Partial(Symbol, Scores) /\ DOMAIN answer = T
    <2>1. DOMAIN answer = T /\ answer = [s \in T |-> answer[s]]
      OBVIOUS
    <2>2. \A s \in T : answer[s] = Similarity[q][s] /\ answer[s] \in Scores
      BY <1>4, <1>5, PipelineAssumption DEF Scores
    <2> HIDE DEF answer
    <2> QED
      BY <1>5, <2>1, <2>2, PartialType
  <1>7. ReadInv /\ read \in [vector : Versions, keyword : Versions, rows : Versions]
    BY DEF PipelineInv, ReadInv
  <1>8. read'.vector = versions /\ read'.keyword = read.keyword /\ read'.rows = read.rows
    BY <1>1, <1>7
  <1>9. ASSUME NEW s \in Symbol
        PROVE  /\ versions[s] \in Version \cup {"none"}
               /\ versions[s] # "none" => s \in Present[versions[s]]
               /\ read.vector[s] # "none" => versions[s] # "none"
    <2>1. /\ read.vector[s] \in Version \cup {"none"}
          /\ read.vector[s] # "none" => s \in Present[read.vector[s]]
      BY <1>7 DEF ReadInv, Existing, Versions
    <2>2. CASE s \in T /\ ~ known(s)
      BY <1>5, <2>2
    <2>3. CASE ~ (s \in T /\ ~ known(s))
      BY <2>1, <2>3
    <2> QED
      BY <2>2, <2>3
  <1>10. ASSUME NEW s \in T
         PROVE  versions[s] # "none"
    <2>1. CASE ~ known(s)
      BY <1>5, <2>1
    <2>2. CASE known(s)
      <3>1. PICK i \in 1 .. Len(hits) : s \in DOMAIN hits[i]
        BY <1>3, <2>2
      <3> HIDE DEF versions
      <3> QED
        BY <1>3, <1>5, <1>9, <3>1
    <2> QED
      BY <2>1, <2>2
  <1>11. versions \in Versions
    <2>1. versions = [s \in Symbol |-> versions[s]]
      OBVIOUS
    <2> HIDE DEF versions
    <2> QED
      BY <1>9, <2>1 DEF Versions
  <1>12. hits' = Append(hits, answer)
    BY <1>1
  <1>13. read' \in [vector : Versions, keyword : Versions, rows : Versions]
    BY <1>1, <1>7, <1>11
  <1> HIDE DEF answer, versions, known
  <1>14. ReadInv'
    <2>1. Existing(versions)
      BY <1>9, <1>11 DEF Existing
    <2> QED
      BY <1>7, <1>8, <1>13, <2>1 DEF ReadInv, Existing
  <1>15. /\ hits' \in Seq(Partial(Symbol, Scores)) /\ Len(hits') = q
         /\ \A i \in 1 .. Len(hits) : hits'[i] = hits[i]
         /\ hits'[q] = answer
    BY <1>3, <1>6, <1>12
  <1>16. ASSUME NEW i \in 1 .. Len(hits'), NEW s \in DOMAIN hits'[i]
         PROVE  read'.vector[s] # "none"
    <2>1. CASE i = q
      BY <1>6, <1>8, <1>10, <1>15, <2>1
    <2>2. CASE i # q
      <3>1. i \in 1 .. Len(hits) /\ hits'[i] = hits[i]
        BY <1>3, <1>15, <2>2
      <3>2. s \in Symbol
        BY <1>3, <3>1, PartialType
      <3> QED
        BY <1>3, <1>8, <1>9, <3>1, <3>2
    <2> QED
      BY <2>1, <2>2
  <1>17. \A s \in DOMAIN vector : s \in Symbol /\ read.vector[s] # "none"
    BY MatchesType DEF PipelineInv, FoundInv
  <1>18. \A s \in DOMAIN vector : read'.vector[s] # "none"
    BY <1>8, <1>9, <1>17
  <1>19. FoundInv'
    BY <1>2, <1>4, <1>8, <1>15, <1>16, <1>18 DEF PipelineInv, FoundInv, walk
  <1> QED
    BY <1>14, <1>19

\* A query of the keyword search adds a keyword, and the versions of its rows.
LEMMA SearchKeywordKeeps ==
    ASSUME PipelineInv, SearchKeyword
    PROVE  FoundInv' /\ ReadInv'
  <1> DEFINE known == UNION {named[w] : w \in DOMAIN named}
  <1>1. PICK w \in ExtractKeywords(TicketText) \ DOMAIN named :
           LET rows == StoredIn("rows") \cap Named[w] IN
           /\ named' = [v \in {w} \cup DOMAIN named |-> IF v = w THEN rows ELSE named[v]]
           /\ read' = [read EXCEPT !.keyword = [s \in Symbol |->
                          IF s \in rows \ known THEN VersionIn("rows", s) ELSE read.keyword[s]]]
    BY DEF SearchKeyword
  <1> DEFINE rows == StoredIn("rows") \cap Named[w]
             versions == [s \in Symbol |->
                 IF s \in rows \ known THEN VersionIn("rows", s) ELSE read.keyword[s]]
  <1>2. UNCHANGED <<embedded, hits, vector, keyword, walk>>
    BY DEF SearchKeyword
  <1>3. /\ DOMAIN named \subseteq ExtractKeywords(TicketText)
        /\ \A v \in DOMAIN named : named[v] \subseteq Symbol
        /\ \A v \in DOMAIN named : \A s \in named[v] : read.keyword[s] # "none"
    BY DEF PipelineInv, FoundInv
  <1>4. ASSUME NEW s \in rows
        PROVE  s \in Symbol /\ VersionIn("rows", s) # "none" /\ VersionIn("rows", s) \in Version
                 /\ s \in Present[VersionIn("rows", s)]
    <2>1. s \in Symbol /\ s \in StoredIn("rows")
      BY DEF StoredIn
    <2> QED
      BY <2>1, VersionInType
  <1>5. ReadInv /\ read \in [vector : Versions, keyword : Versions, rows : Versions]
    BY DEF PipelineInv, ReadInv
  <1>6. read'.keyword = versions /\ read'.vector = read.vector /\ read'.rows = read.rows
    BY <1>1, <1>5
  <1>7. ASSUME NEW s \in Symbol
        PROVE  /\ versions[s] \in Version \cup {"none"}
               /\ versions[s] # "none" => s \in Present[versions[s]]
               /\ read.keyword[s] # "none" => versions[s] # "none"
    <2>1. /\ read.keyword[s] \in Version \cup {"none"}
          /\ read.keyword[s] # "none" => s \in Present[read.keyword[s]]
      BY <1>5 DEF ReadInv, Existing, Versions
    <2>2. CASE s \in rows \ known
      BY <1>4, <2>2
    <2>3. CASE s \notin rows \ known
      BY <2>1, <2>3
    <2> QED
      BY <2>2, <2>3
  <1>8. ASSUME NEW s \in rows
        PROVE  versions[s] # "none"
    <2>1. CASE s \notin known
      BY <1>4, <2>1
    <2>2. CASE s \in known
      <3>1. read.keyword[s] # "none"
        BY <1>3, <2>2
      <3> HIDE DEF versions
      <3> QED
        BY <1>4, <1>7, <3>1
    <2> QED
      BY <2>1, <2>2
  <1>9. versions \in Versions
    <2>1. versions = [s \in Symbol |-> versions[s]]
      OBVIOUS
    <2> HIDE DEF versions
    <2> QED
      BY <1>7, <2>1 DEF Versions
  <1>10. read' \in [vector : Versions, keyword : Versions, rows : Versions]
    BY <1>1, <1>5, <1>9
  <1>11. /\ DOMAIN named' = {w} \cup DOMAIN named /\ named'[w] = rows
         /\ \A v \in DOMAIN named : named'[v] = named[v]
    BY <1>1
  <1> HIDE DEF versions, known, rows
  <1>12. ReadInv'
    <2>1. Existing(versions)
      BY <1>7, <1>9 DEF Existing
    <2> QED
      BY <1>5, <1>6, <1>10, <2>1 DEF ReadInv, Existing
  <1>13. ASSUME NEW v \in DOMAIN named'
         PROVE  named'[v] \subseteq Symbol /\ \A s \in named'[v] : read'.keyword[s] # "none"
    <2>1. CASE v = w
      BY <1>4, <1>6, <1>8, <1>11, <2>1
    <2>2. CASE v # w
      <3>1. v \in DOMAIN named /\ named'[v] = named[v]
        BY <1>11, <2>2
      <3> QED
        BY <1>3, <1>6, <1>7, <3>1
    <2> QED
      BY <2>1, <2>2
  <1>14. \A s \in DOMAIN keyword : s \in Symbol /\ read.keyword[s] # "none"
    BY MatchesType DEF PipelineInv, FoundInv
  <1>15. \A s \in DOMAIN keyword : read'.keyword[s] # "none"
    BY <1>6, <1>7, <1>14
  <1>16. DOMAIN named' \subseteq ExtractKeywords(TicketText)
    BY <1>3, <1>11
  <1>17. FoundInv'
    BY <1>2, <1>6, <1>13, <1>15, <1>16 DEF PipelineInv, FoundInv, walk
  <1> QED
    BY <1>12, <1>17

\* A search changes its own matches only.
LEMMA SearchKeeps ==
    ASSUME PipelineInv, SearchSingleQuery \/ MergeVectorHits \/ SearchKeyword \/ ScoreKeywords
    PROVE  PipelineInv'
  <1>1. /\ pc \in Searching /\ pc' \in Searching
        /\ pc' \in {"vector_search", "keyword_search", "graph_expansion"}
        /\ UNCHANGED <<ranked, context, stores, graph, errors>>
    BY DEF SearchSingleQuery, MergeVectorHits, SearchKeyword, ScoreKeywords, Goto, Searching, results
  <1>2. graph = NoMatches /\ DOMAIN graph = {}
    BY <1>1 DEF PipelineInv, ResultInv, NoMatches
  <1>3. StepInv'
    BY <1>1 DEF PipelineInv, StepInv, SearchSingleQuery, MergeVectorHits, SearchKeyword, ScoreKeywords,
                Preparing, stores, given
  <1>4. FoundInv' /\ ReadInv'
    <2>1. CASE SearchSingleQuery
      BY <2>1, SearchSingleQueryKeeps
    <2>2. CASE SearchKeyword
      BY <2>2, SearchKeywordKeeps
    <2>3. CASE MergeVectorHits
      <3>1. /\ vector' = MergeVectorResults(hits)
            /\ UNCHANGED <<embedded, hits, named, keyword, walk, read>>
        BY <2>3 DEF MergeVectorHits
      <3>2. hits \in Seq(Partial(Symbol, Scores))
        BY DEF PipelineInv, FoundInv
      <3>3. /\ vector' \in Partial(Symbol, Scores)
            /\ \A s \in DOMAIN vector' : \E i \in 1 .. Len(hits) : s \in DOMAIN hits[i]
        BY <3>1, <3>2, MergeType
      <3>4. \A s \in DOMAIN vector' : read.vector[s] # "none"
        BY <3>3 DEF PipelineInv, FoundInv
      <3>5. FoundInv'
        BY <3>1, <3>3, <3>4 DEF PipelineInv, FoundInv, walk
      <3> QED
        BY <3>1, <3>5 DEF PipelineInv, ReadInv, Existing
    <2>4. CASE ScoreKeywords
      <3>1. /\ keyword' = SearchSymbolsByKeywords(named)
            /\ UNCHANGED <<embedded, hits, named, vector, walk, read>>
        BY <2>4 DEF ScoreKeywords
      <3>2. /\ DOMAIN named \subseteq ExtractKeywords(TicketText)
            /\ \A w \in DOMAIN named : named[w] \subseteq Symbol
        BY DEF PipelineInv, FoundInv
      <3>3. /\ keyword' \in Partial(Symbol, {30, 60, 100})
            /\ \A s \in DOMAIN keyword' : \E w \in DOMAIN named : s \in named[w]
        BY <3>1, <3>2, KeywordsType
      <3>4. \A s \in DOMAIN keyword' : read.keyword[s] # "none"
        BY <3>3 DEF PipelineInv, FoundInv
      <3>5. FoundInv'
        BY <3>1, <3>3, <3>4 DEF PipelineInv, FoundInv, walk
      <3> QED
        BY <3>1, <3>5 DEF PipelineInv, ReadInv, Existing
    <2> QED
      BY <2>1, <2>2, <2>3, <2>4
  <1>5. GraphInv'
    BY <1>1, <1>2 DEF GraphInv
  <1>6. WalkInv'
    BY <1>1 DEF WalkInv, Walking, Expanded
  <1>7. ResultInv'
    BY <1>1, <1>2, NoResults
  <1> QED
    BY <1>3, <1>4, <1>5, <1>6, <1>7 DEF PipelineInv

\* A query of the walk changes the distances and the queue, and no result.
LEMMA WalkStepKeeps ==
    ASSUME PipelineInv, pc \in Searching, pc' \in Walking,
           UNCHANGED <<errors, cachedQueries, queries, embedded, searches, graph, results, stores>>
    PROVE  /\ StepInv' /\ ResultInv' /\ Matched' = Matched
           /\ UNCHANGED read => ReadInv' /\ GraphInv'
  <1>1. pc' \in Searching /\ graph = NoMatches /\ graph' = NoMatches /\ pc' \notin Preparing
    BY DEF PipelineInv, ResultInv, Searching, Walking, Preparing
  <1>2. StepInv'
    BY <1>1 DEF PipelineInv, StepInv, stores, given
  <1>3. ResultInv'
    BY <1>1, NoResults DEF results
  <1>4. Matched' = Matched
    BY DEF Matched, searches
  <1>5. UNCHANGED read => ReadInv' /\ GraphInv'
    BY DEF PipelineInv, ReadInv, GraphInv, Existing, searches
  <1> QED
    BY <1>2, <1>3, <1>4, <1>5

LEMMA StartWalkKeeps ==
    ASSUME PipelineInv, StartWalk
    PROVE  PipelineInv'
  <1>1. /\ pc \in Searching /\ pc' = "edges_from" /\ pc' \in Walking
        /\ UNCHANGED <<errors, cachedQueries, queries, embedded, searches, graph, read, results, stores>>
    BY DEF StartWalk, Goto, Searching, Walking
  <1>2. /\ StepInv' /\ ReadInv' /\ GraphInv' /\ ResultInv' /\ Matched' = Matched
    BY <1>1, WalkStepKeeps
  <1>3. /\ distances' = [s \in Matched |-> 0] /\ pending' = Matched
        /\ seenEdges' = {} /\ steadyEdges' = edges["old"] \cup edges["new"] /\ steadyRows' = Symbol
    BY DEF StartWalk
  <1>4. Matched \subseteq Symbol
    BY MatchesType DEF PipelineInv, Matched
  <1>5. DOMAIN distances' = Matched /\ \A s \in Matched : distances'[s] = 0
    BY <1>3
  <1>6. distances' \in Partial(Symbol, 0 .. MaxDepth)
    <2>1. distances' = [s \in DOMAIN distances' |-> distances'[s]]
      BY <1>3
    <2>2. 0 \in 0 .. MaxDepth
      BY PipelineAssumption
    <2> QED
      BY <1>4, <1>5, <2>1, <2>2, PartialType
  <1>7. edges["old"] \cup edges["new"] \in SUBSET (Symbol \X Symbol)
    BY PipelineAssumption DEF PipelineInv, StepInv, Calls
  <1>8. FoundInv'
    BY <1>1, <1>3, <1>5, <1>6, <1>7 DEF PipelineInv, FoundInv, searches
  <1>9. Near(seenEdges', Matched', distances')
    BY <1>2, <1>5 DEF Near
  <1>10. Ordered(distances', pending')
    BY <1>3, <1>5 DEF Ordered
  <1>11. Settled(steadyEdges', MaxDepth, distances', DOMAIN distances' \ pending')
    BY <1>3, <1>5 DEF Settled
  <1>12. WalkInv'
    BY <1>1, <1>9, <1>10, <1>11 DEF WalkInv, Walking, Expanded
  <1> QED
    BY <1>2, <1>8, <1>12 DEF PipelineInv

\* The answer to a query about one of the queue, or about the last one taken from it.
LEMMA ReachKeeps ==
    ASSUME NEW s, s \in DOMAIN distances, distances[s] < MaxDepth,
           distances \in Partial(Symbol, 0 .. MaxDepth), Matched \in SUBSET Symbol,
           NEW answer \in SUBSET Symbol, answer \subseteq Neighbours(StoredEdges, s),
           Near(seenEdges, Matched, distances), NEW left, Reach(s, answer, left)
    PROVE  /\ distances' \in Partial(Symbol, 0 .. MaxDepth)
           /\ DOMAIN distances' = answer \cup DOMAIN distances
           /\ \A x \in DOMAIN distances : distances'[x] = distances[x]
           /\ \A x \in answer \ DOMAIN distances : distances'[x] = distances[s] + 1
           /\ Near(seenEdges', Matched, distances')
  <1>1. PICK d, e, E, G, seeds : /\ d = distances /\ e = distances' /\ E = seenEdges
                                /\ G = StoredEdges /\ seeds = Matched
    OBVIOUS
  <1>2. e = Discover(d, answer, d[s] + 1) /\ seenEdges' = E \cup G
    BY <1>1 DEF Reach
  <1>3. /\ MaxDepth \in Nat /\ d \in Partial(Symbol, 0 .. MaxDepth) /\ seeds \in SUBSET Symbol
        /\ s \in DOMAIN d /\ d[s] < MaxDepth /\ answer \subseteq Neighbours(G, s)
        /\ Near(E, seeds, d)
    BY <1>1, PipelineAssumption
  <1>4. DOMAIN d \subseteq Symbol /\ \A x \in DOMAIN d : d[x] \in 0 .. MaxDepth
    BY <1>3, PartialType
  <1>5. /\ DOMAIN e = answer \cup DOMAIN d /\ e = [x \in DOMAIN e |-> e[x]]
        /\ \A x \in DOMAIN d : e[x] = d[x]
        /\ \A x \in answer \ DOMAIN d : e[x] = d[s] + 1
    BY <1>2 DEF Discover
  <1>6. e \in Partial(Symbol, 0 .. MaxDepth)
    <2>1. \A x \in DOMAIN e : e[x] \in 0 .. MaxDepth
      BY <1>3, <1>4, <1>5
    <2> QED
      BY <1>4, <1>5, <2>1, PartialType
  <1>7. seeds \subseteq DOMAIN e
    BY <1>3, <1>5 DEF Near
  <1>8. \A x \in DOMAIN e : e[x] = 0 <=> x \in seeds
    BY <1>3, <1>4, <1>5 DEF Near
  <1>9. ASSUME NEW x \in DOMAIN e, e[x] > 0
        PROVE  \E t \in DOMAIN e : x \in Neighbours(E \cup G, t) /\ e[t] = e[x] - 1
    <2>1. CASE x \in DOMAIN d
      <3>1. PICK t \in DOMAIN d : x \in Neighbours(E, t) /\ d[t] = d[x] - 1
        BY <1>3, <1>5, <1>9, <2>1 DEF Near
      <3>2. x \in Neighbours(E \cup G, t)
        BY <3>1, NeighboursGrow
      <3> QED
        BY <1>5, <2>1, <3>1, <3>2
    <2>2. CASE x \notin DOMAIN d
      <3>1. x \in answer /\ e[x] = d[s] + 1 /\ e[s] = d[s] /\ s \in DOMAIN e
        BY <1>3, <1>5, <2>2
      <3>2. x \in Neighbours(E \cup G, s)
        BY <1>3, <3>1, NeighboursGrow
      <3> QED
        BY <1>3, <1>4, <3>1, <3>2
    <2> QED
      BY <2>1, <2>2
  <1>10. Near(E \cup G, seeds, e)
    BY <1>7, <1>8, <1>9 DEF Near
  <1> QED
    BY <1>1, <1>2, <1>5, <1>6, <1>10

\* The next of the queue is asked for its callees.
LEMMA GetEdgesFromKeeps ==
    ASSUME PipelineInv, GetEdgesFrom
    PROVE  PipelineInv'
  <1>1. /\ pc = "edges_from" /\ pc \in Searching /\ pc' = "edges_to" /\ pc' \in Walking
        /\ UNCHANGED <<errors, cachedQueries, queries, embedded, searches, graph, read, steadyRows,
                       results, stores>>
    BY DEF GetEdgesFrom, Goto, Searching, Walking
  <1>2. /\ StepInv' /\ ReadInv' /\ GraphInv' /\ ResultInv' /\ Matched' = Matched
    BY <1>1, WalkStepKeeps
  <1>3. PICK s \in Foremost :
           /\ distances[s] < MaxDepth /\ current' = s
           /\ Reach(s, Callees(StoredEdges, s), pending \ {s})
    BY DEF GetEdgesFrom
  <1> DEFINE answer == Callees(StoredEdges, s)
             D == DOMAIN distances
  <1>4. /\ distances' = Discover(distances, answer, distances[s] + 1)
        /\ pending' = (pending \ {s}) \cup (answer \ D)
        /\ seenEdges' = seenEdges \cup StoredEdges /\ steadyEdges' = steadyEdges \cap StoredEdges
    BY <1>3 DEF Reach
  <1>5. /\ pending \subseteq D /\ s \in pending /\ s \in D
        /\ \A p \in pending : distances[s] =< distances[p]
    BY <1>3 DEF PipelineInv, FoundInv, Foremost
  <1>6. /\ distances \in Partial(Symbol, 0 .. MaxDepth) /\ Matched \in SUBSET Symbol
        /\ seenEdges \in SUBSET (Symbol \X Symbol) /\ steadyEdges \in SUBSET (Symbol \X Symbol)
    BY MatchesType DEF PipelineInv, FoundInv, Matched
  <1>7. StoredEdges \in SUBSET (Symbol \X Symbol)
    BY StoredEdgesType DEF PipelineInv, StepInv
  <1>8. answer \in SUBSET Symbol /\ answer \subseteq Neighbours(StoredEdges, s)
    BY <1>7, NeighboursAreSymbols, NeighboursGrow
  <1>9. /\ Near(seenEdges, Matched, distances) /\ Ordered(distances, pending)
        /\ Settled(steadyEdges, MaxDepth, distances, D \ pending)
    BY <1>1 DEF PipelineInv, WalkInv, Walking
  <1>10. \A x \in D : distances[x] \in 0 .. MaxDepth
    BY <1>6, PartialType
  <1> HIDE DEF answer
  <1>11. /\ distances' \in Partial(Symbol, 0 .. MaxDepth) /\ DOMAIN distances' = answer \cup D
         /\ \A x \in D : distances'[x] = distances[x]
         /\ \A x \in answer \ D : distances'[x] = distances[s] + 1
         /\ Near(seenEdges', Matched', distances')
    <2>1. Reach(s, answer, pending \ {s})
      BY <1>3 DEF answer
    <2> QED
      BY <1>2, <1>3, <1>5, <1>6, <1>8, <1>9, <2>1, ReachKeeps
  <1>12. FoundInv'
    <2>1. pending' \subseteq DOMAIN distances'
      BY <1>4, <1>5, <1>11
    <2>2. seenEdges' \in SUBSET (Symbol \X Symbol) /\ steadyEdges' \in SUBSET (Symbol \X Symbol)
      BY <1>4, <1>6, <1>7
    <2> QED
      BY <1>1, <1>11, <2>1, <2>2 DEF PipelineInv, FoundInv, searches
  <1>13. Level(distances', pending', distances'[s])
    <2>1. ASSUME NEW p \in pending'
          PROVE  distances'[s] =< distances'[p]
      <3>1. CASE p \in pending
        BY <1>5, <1>11, <3>1
      <3>2. CASE p \notin pending
        <4>1. p \in answer \ D
          BY <1>4, <3>2
        <4> QED
          BY <1>5, <1>10, <1>11, <4>1
      <3> QED
        BY <3>1, <3>2
    <2>2. ASSUME NEW x \in DOMAIN distances'
          PROVE  distances'[x] =< distances'[s] + 1
      <3>1. CASE x \in D
        BY <1>5, <1>9, <1>11, <3>1 DEF Ordered
      <3>2. CASE x \notin D
        BY <1>5, <1>10, <1>11, <3>2
      <3> QED
        BY <3>1, <3>2
    <2> QED
      BY <2>1, <2>2 DEF Level
  <1>14. Settled(steadyEdges', MaxDepth, distances', DOMAIN distances' \ (pending' \cup {s}))
    <2>1. ASSUME NEW x \in DOMAIN distances' \ (pending' \cup {s}), distances'[x] < MaxDepth,
                 NEW t \in Neighbours(steadyEdges', x)
          PROVE  t \in DOMAIN distances' /\ distances'[t] =< distances'[x] + 1
      <3>1. x \in D \ pending /\ distances'[x] = distances[x]
        BY <1>4, <1>11, <2>1
      <3>2. t \in Neighbours(steadyEdges, x)
        BY <1>4, <2>1, NeighboursGrow
      <3>3. t \in D /\ distances[t] =< distances[x] + 1
        BY <1>9, <2>1, <3>1, <3>2 DEF Settled
      <3> QED
        BY <1>11, <3>1, <3>3
    <2> QED
      BY <2>1 DEF Settled
  <1>15. Callees(steadyEdges', s) \subseteq DOMAIN distances'
    <2>1. steadyEdges' \subseteq StoredEdges
      BY <1>4
    <2>2. Callees(steadyEdges', s) \subseteq answer
      BY <2>1, NeighboursGrow DEF answer
    <2> QED
      BY <1>11, <2>2
  <1>16. current' \in DOMAIN distances' /\ current' \notin pending' /\ distances'[current'] < MaxDepth
    BY <1>3, <1>4, <1>5, <1>11
  <1>17. WalkInv'
    BY <1>1, <1>3, <1>11, <1>13, <1>14, <1>15, <1>16 DEF WalkInv, Walking, Expanded
  <1> QED
    BY <1>2, <1>12, <1>17 DEF PipelineInv

\* And then for its callers.
LEMMA GetEdgesToKeeps ==
    ASSUME PipelineInv, GetEdgesTo
    PROVE  PipelineInv'
  <1>1. /\ pc = "edges_to" /\ pc \in Searching /\ pc' = "edges_from" /\ pc' \in Walking
        /\ UNCHANGED <<errors, cachedQueries, queries, embedded, searches, current, graph, read,
                       steadyRows, results, stores>>
    BY DEF GetEdgesTo, Goto, Searching, Walking
  <1>2. /\ StepInv' /\ ReadInv' /\ GraphInv' /\ ResultInv' /\ Matched' = Matched
    BY <1>1, WalkStepKeeps
  <1> DEFINE answer == Callers(StoredEdges, current)
             D == DOMAIN distances
  <1>4. /\ distances' = Discover(distances, answer, distances[current] + 1)
        /\ pending' = pending \cup (answer \ D)
        /\ seenEdges' = seenEdges \cup StoredEdges /\ steadyEdges' = steadyEdges \cap StoredEdges
    BY DEF GetEdgesTo, Reach
  <1>5. /\ pending \subseteq D /\ current \in D /\ current \notin pending
        /\ distances[current] < MaxDepth /\ Level(distances, pending, distances[current])
        /\ Settled(steadyEdges, MaxDepth, distances, D \ (pending \cup {current}))
        /\ Callees(steadyEdges, current) \subseteq D /\ Near(seenEdges, Matched, distances)
    BY <1>1 DEF PipelineInv, FoundInv, WalkInv, Walking
  <1>6. /\ distances \in Partial(Symbol, 0 .. MaxDepth) /\ Matched \in SUBSET Symbol
        /\ seenEdges \in SUBSET (Symbol \X Symbol) /\ steadyEdges \in SUBSET (Symbol \X Symbol)
    BY MatchesType DEF PipelineInv, FoundInv, Matched
  <1>7. StoredEdges \in SUBSET (Symbol \X Symbol)
    BY StoredEdgesType DEF PipelineInv, StepInv
  <1>8. answer \in SUBSET Symbol /\ answer \subseteq Neighbours(StoredEdges, current)
    BY <1>7, NeighboursAreSymbols, NeighboursGrow
  <1>10. \A x \in D : distances[x] \in 0 .. MaxDepth
    BY <1>6, PartialType
  <1> HIDE DEF answer
  <1>11. /\ distances' \in Partial(Symbol, 0 .. MaxDepth) /\ DOMAIN distances' = answer \cup D
         /\ \A x \in D : distances'[x] = distances[x]
         /\ \A x \in answer \ D : distances'[x] = distances[current] + 1
         /\ Near(seenEdges', Matched', distances')
    <2>1. Reach(current, answer, pending)
      BY DEF GetEdgesTo, answer
    <2> QED
      BY <1>2, <1>5, <1>6, <1>8, <2>1, ReachKeeps
  <1>12. FoundInv'
    <2>1. pending' \subseteq DOMAIN distances'
      BY <1>4, <1>5, <1>11
    <2>2. seenEdges' \in SUBSET (Symbol \X Symbol) /\ steadyEdges' \in SUBSET (Symbol \X Symbol)
      BY <1>4, <1>6, <1>7
    <2> QED
      BY <1>1, <1>11, <2>1, <2>2 DEF PipelineInv, FoundInv, searches
  <1>13. \A x \in DOMAIN distances' : distances'[x] \in Nat /\ distances'[x] =< distances[current] + 1
    <2>1. ASSUME NEW x \in DOMAIN distances'
          PROVE  distances'[x] \in Nat /\ distances'[x] =< distances[current] + 1
      <3>1. CASE x \in D
        BY <1>5, <1>10, <1>11, <3>1 DEF Level
      <3>2. CASE x \notin D
        BY <1>5, <1>10, <1>11, <3>2
      <3> QED
        BY <3>1, <3>2
    <2> QED
      BY <2>1
  <1>14. Ordered(distances', pending')
    <2>1. ASSUME NEW p \in pending'
          PROVE  distances[current] =< distances'[p] /\ distances'[p] \in Nat
      <3>1. CASE p \in pending
        BY <1>5, <1>10, <1>11, <3>1 DEF Level
      <3>2. CASE p \notin pending
        BY <1>4, <1>5, <1>10, <1>11, <3>2
      <3> QED
        BY <3>1, <3>2
    <2>2. distances[current] \in Nat
      BY <1>5, <1>10
    <2> QED
      BY <1>13, <2>1, <2>2 DEF Ordered
  <1>15. Settled(steadyEdges', MaxDepth, distances', DOMAIN distances' \ pending')
    <2>1. ASSUME NEW x \in DOMAIN distances' \ pending', distances'[x] < MaxDepth,
                 NEW t \in Neighbours(steadyEdges', x)
          PROVE  t \in DOMAIN distances' /\ distances'[t] =< distances'[x] + 1
      <3>1. x \in D \ pending /\ distances'[x] = distances[x]
        BY <1>4, <1>11, <2>1
      <3>2. CASE x = current
        <4>1. Callees(steadyEdges', x) \subseteq D
          <5>1. steadyEdges' \subseteq steadyEdges
            BY <1>4
          <5>2. Callees(steadyEdges', x) \subseteq Callees(steadyEdges, x)
            BY <5>1, NeighboursGrow
          <5> QED
            BY <1>5, <3>2, <5>2
        <4>2. Callers(steadyEdges', x) \subseteq answer
          <5>1. steadyEdges' \subseteq StoredEdges
            BY <1>4
          <5> QED
            BY <3>2, <5>1, NeighboursGrow DEF answer
        <4>3. t \in DOMAIN distances'
          BY <1>11, <2>1, <4>1, <4>2 DEF Neighbours
        <4> QED
          BY <1>13, <3>1, <3>2, <4>3
      <3>3. CASE x # current
        <4>1. t \in Neighbours(steadyEdges, x)
          BY <1>4, <2>1, NeighboursGrow
        <4>2. t \in D /\ distances[t] =< distances[x] + 1
          BY <1>5, <2>1, <3>1, <3>3, <4>1 DEF Settled
        <4> QED
          BY <1>11, <3>1, <4>2
      <3> QED
        BY <3>2, <3>3
    <2> QED
      BY <2>1 DEF Settled
  <1>17. WalkInv'
    BY <1>1, <1>11, <1>14, <1>15 DEF WalkInv, Walking, Expanded
  <1> QED
    BY <1>2, <1>12, <1>17 DEF PipelineInv

\* What waits at the end of the walk is too far away to be asked about.
LEMMA EndWalkKeeps ==
    ASSUME PipelineInv, EndWalk
    PROVE  PipelineInv'
  <1>1. /\ pc = "edges_from" /\ pc \in Searching /\ pc' = "look_up" /\ pc' \in Walking
        /\ pending' = DOMAIN distances /\ \A s \in pending : distances[s] >= MaxDepth
        /\ UNCHANGED <<errors, cachedQueries, queries, embedded, searches, distances, current, graph,
                       read, seenEdges, steadyEdges, steadyRows, results, stores>>
    BY DEF EndWalk, Goto, Searching, Walking
  <1>2. /\ StepInv' /\ ReadInv' /\ GraphInv' /\ ResultInv' /\ Matched' = Matched
    BY <1>1, WalkStepKeeps
  <1>3. FoundInv'
    BY <1>1 DEF PipelineInv, FoundInv, searches
  <1>4. \A s \in DOMAIN distances : distances[s] \in 0 .. MaxDepth
    BY MatchesType DEF PipelineInv
  <1>5. /\ Near(seenEdges, Matched, distances)
        /\ Settled(steadyEdges, MaxDepth, distances, DOMAIN distances \ pending)
    BY <1>1 DEF PipelineInv, WalkInv, Walking
  <1>6. Settled(steadyEdges, MaxDepth, distances, DOMAIN distances)
    <2>1. \A s \in DOMAIN distances : distances[s] < MaxDepth => s \notin pending
      BY <1>1, <1>4, PipelineAssumption
    <2> QED
      BY <1>5, <2>1 DEF Settled
  <1>7. WalkInv'
    BY <1>1, <1>2, <1>5, <1>6 DEF WalkInv, Walking, Expanded
  <1> QED
    BY <1>2, <1>3, <1>7 DEF PipelineInv

\* A look-up finds the row of a symbol, unless it was away at one of the look-ups.
LEMMA GetSymbolKeeps ==
    ASSUME PipelineInv, GetSymbol
    PROVE  PipelineInv'
  <1>1. /\ pc = "look_up" /\ pc \in Searching /\ pc' = "look_up" /\ pc' \in Walking
        /\ steadyRows' = steadyRows \cap StoredIn("rows")
        /\ UNCHANGED <<errors, cachedQueries, queries, embedded, searches, distances, current,
                       graph, seenEdges, steadyEdges, results, stores>>
    BY DEF GetSymbol, Searching, Walking
  <1>2. PICK s \in Foremost :
           /\ pending' = pending \ {s}
           /\ read' = [read EXCEPT !.rows = [read.rows EXCEPT ![s] = VersionIn("rows", s)]]
    BY DEF GetSymbol
  <1>3. /\ StepInv' /\ ResultInv' /\ Matched' = Matched
    BY <1>1, WalkStepKeeps
  <1>4. s \in Symbol /\ s \in pending
    BY MatchesType DEF PipelineInv, FoundInv, Foremost
  <1>5. /\ VersionIn("rows", s) \in Version \cup {"none"}
        /\ VersionIn("rows", s) # "none" => s \in Present[VersionIn("rows", s)]
        /\ s \in StoredIn("rows") <=> VersionIn("rows", s) # "none"
    BY <1>4, VersionInType
  <1>6. ReadInv /\ read \in [vector : Versions, keyword : Versions, rows : Versions]
    BY DEF PipelineInv, ReadInv
  <1>7. read.rows \in [Symbol -> Version \cup {"none"}]
    BY <1>6 DEF Versions
  <1> DEFINE v == VersionIn("rows", s)
             rows == [read.rows EXCEPT ![s] = v]
  <1>8. /\ read'.rows = rows /\ read'.vector = read.vector /\ read'.keyword = read.keyword
    BY <1>2, <1>6
  <1> HIDE DEF v
  <1>9. /\ rows \in Versions /\ rows[s] = v /\ \A x \in Symbol : x # s => rows[x] = read.rows[x]
    BY <1>4, <1>5, <1>7 DEF Versions, v
  <1>10. read' \in [vector : Versions, keyword : Versions, rows : Versions]
    BY <1>2, <1>6, <1>9 DEF v
  <1> HIDE DEF rows
  <1>11. ReadInv'
    <2>1. Existing(rows)
      BY <1>5, <1>6, <1>9 DEF Existing, ReadInv, v
    <2> QED
      BY <1>6, <1>8, <1>10, <2>1 DEF ReadInv, Existing
  <1>12. GraphInv'
    <2>1. DOMAIN graph' = {}
      BY <1>1 DEF PipelineInv, ResultInv, NoMatches
    <2> QED
      BY <2>1 DEF GraphInv
  <1>13. FoundInv'
    BY <1>1, <1>2, <1>8 DEF PipelineInv, FoundInv, searches
  <1>14. (DOMAIN distances \ pending') \cap steadyRows' \subseteq Rows'
    <2>1. ASSUME NEW x \in DOMAIN distances \ pending', x \in steadyRows'
          PROVE  x \in Symbol /\ rows[x] # "none"
      <3>1. x \in Symbol
        BY MatchesType DEF PipelineInv
      <3>2. CASE x = s
        BY <1>1, <1>4, <1>5, <1>9, <2>1, <3>2 DEF v
      <3>3. CASE x # s
        <4>1. x \in DOMAIN distances \ pending /\ x \in steadyRows
          BY <1>1, <1>2, <2>1, <3>3
        <4>2. x \in Rows
          BY <1>1, <4>1 DEF PipelineInv, WalkInv
        <4> QED
          BY <1>9, <3>1, <3>3, <4>2 DEF Rows
      <3> QED
        BY <3>1, <3>2, <3>3
    <2> QED
      BY <1>8, <2>1 DEF Rows
  <1>15. WalkInv'
    BY <1>1, <1>3, <1>14 DEF PipelineInv, WalkInv, Walking, Expanded
  <1> QED
    BY <1>3, <1>11, <1>12, <1>13, <1>15 DEF PipelineInv

LEMMA ExpandGraphKeeps ==
    ASSUME PipelineInv, ExpandGraph
    PROVE  PipelineInv'
  <1>1. /\ pc = "look_up" /\ pc' = "ranking" /\ pending = {}
        /\ graph' = GraphExpansion(distances, Rows, vector, keyword)
        /\ UNCHANGED <<errors, cachedQueries, queries, embedded, searches, walk, read, results, stores>>
    BY DEF ExpandGraph, Goto, Rows
  <1>2. StepInv'
    BY <1>1 DEF PipelineInv, StepInv, Preparing, stores, given
  <1>3. FoundInv' /\ ReadInv'
    BY <1>1 DEF PipelineInv, FoundInv, ReadInv, Existing, searches, walk
  <1>4. Rows \in SUBSET Symbol /\ Rows' = Rows /\ Matched' = Matched
    BY <1>1 DEF Rows, Matched, searches
  <1>5. GraphInv'
    <2>1. /\ DOMAIN graph' \subseteq Symbol
          /\ \A s \in DOMAIN graph' : graph'[s].score \in Scores
          /\ \A s \in DOMAIN graph' : graph'[s].source = "graph" => s \in Rows
          /\ \A s \in DOMAIN graph' : graph'[s].source = "keyword" => s \in DOMAIN keyword
          /\ \A s \in DOMAIN graph' :
                graph'[s].source \notin {"graph", "keyword"} => s \in DOMAIN vector
      BY <1>1, <1>4, ExpansionType DEF PipelineInv
    <2> QED
      BY <1>1, <2>1 DEF GraphInv, Rows, searches
  <1>6. WalkInv'
    <2>1. /\ Near(seenEdges, Matched, distances)
          /\ Settled(steadyEdges, MaxDepth, distances, DOMAIN distances)
          /\ DOMAIN distances \cap steadyRows \subseteq Rows
      BY <1>1 DEF PipelineInv, WalkInv, Walking
    <2> QED
      BY <1>1, <1>4, <2>1 DEF WalkInv, Walking, Expanded, walk, searches
  <1>7. ResultInv'
    <2>1. pc \in Searching /\ pc' \notin Searching
      BY <1>1 DEF Searching, Walking, Preparing
    <2> QED
      BY <1>1, <2>1, NoResults DEF results
  <1> QED
    BY <1>2, <1>3, <1>5, <1>6, <1>7 DEF PipelineInv

LEMMA RankKeeps ==
    ASSUME PipelineInv, Rank
    PROVE  PipelineInv'
  <1>1. /\ pc = "ranking" /\ pc' = "compression"
        /\ ranked' \in RankFiles(vector, keyword, graph, FileLimit)
        /\ UNCHANGED <<embedded, found, context, stores>>
    BY DEF Rank, Goto
  <1>2. StepInv'
    BY DEF PipelineInv, StepInv, Rank, Goto, Ranked, Preparing, stores, given
  <1>3. FoundInv' /\ ReadInv' /\ GraphInv'
    BY <1>1, SameMatches DEF PipelineInv, FoundInv
  <1>4. WalkInv'
    BY <1>1 DEF WalkInv, Walking, Expanded
  <1>5. context = << >>
    BY <1>1 DEF PipelineInv, ResultInv
  <1>6. ResultInv'
    BY <1>1, <1>5 DEF ResultInv, Searching, Preparing, Walking, Ranked, found, searches
  <1> QED
    BY <1>2, <1>3, <1>4, <1>6 DEF PipelineInv

LEMMA WriteKeeps ==
    ASSUME PipelineInv, Compress \/ Generate \/ AnswerTicket
    PROVE  PipelineInv'
  <1>1. pc \in Ranked /\ pc' \in Ranked /\ UNCHANGED <<embedded, found, ranked, stores>>
    BY DEF Compress, Generate, AnswerTicket, Goto, Ranked
  <1>2. StepInv'
    BY DEF PipelineInv, StepInv, Compress, Generate, AnswerTicket, Goto, Ranked, Preparing, stores, given
  <1>3. /\ FoundInv' /\ ReadInv' /\ GraphInv' /\ WalkInv' /\ AllSnippets' = AllSnippets
        /\ (pc \in Searching => graph = NoMatches)'
        /\ ranked' \in RankFiles(vector', keyword', graph', FileLimit)
    BY <1>1, SameResults
  <1>4. ResultInv'
    <2>1. ticket' = ticket
      BY <1>1 DEF stores, given
    <2>2. pc' \in {"prompt", "answer", "completed"} /\ context' = CompressContext(AllSnippets, TokenBudget)
      BY <1>1 DEF PipelineInv, ResultInv, Compress, Generate, AnswerTicket, Goto
    <2>3. pc' \in {"answer", "completed"} => prompt' = GeneratePrompt(ticket, AllSnippets, TokenBudget)
      BY <1>1 DEF PipelineInv, ResultInv, Compress, Generate, AnswerTicket, Goto
    <2> QED
      BY <1>1, <1>3, <2>1, <2>2, <2>3 DEF ResultInv
  <1> QED
    BY <1>2, <1>3, <1>4 DEF PipelineInv

\* A step of the worker, or of nobody, is none of the run's.
LEMMA IndexingKeeps ==
    ASSUME PipelineInv, IndexStep \/ UNCHANGED vars
    PROVE  PipelineInv'
  <1>1. UNCHANGED <<pc, errors, cachedQueries, queries, embedded, found, results, given>>
    BY DEF IndexStep, vars, stores
  <1>2. StepInv'
    <2>1. indexing' \in 0 .. 3 + Len(Writes)
      BY WritesType DEF PipelineInv, StepInv, IndexStep, vars, stores
    <2>2. UNCHANGED <<pc, errors, cachedQueries, queries, embedded, ticket, edges, disk>>
      BY <1>1 DEF given
    <2> QED
      BY <2>1, <2>2 DEF PipelineInv, StepInv
  <1>3. FoundInv' /\ ReadInv' /\ GraphInv' /\ Matched' = Matched /\ Rows' = Rows
    BY <1>1, SameMatches DEF PipelineInv, FoundInv
  <1>4. WalkInv'
    BY <1>1, <1>3 DEF PipelineInv, WalkInv, Expanded, found, searches, walk
  <1>5. ResultInv'
    <2>1. AllSnippets' = AllSnippets
      BY <1>1, SameSnippets DEF found, searches, results, given
    <2>2. UNCHANGED <<pc, vector, keyword, graph, ranked, context, prompt, ticket>>
      BY <1>1 DEF found, searches, results, given
    <2> QED
      BY <2>1, <2>2 DEF PipelineInv, ResultInv
  <1> QED
    BY <1>2, <1>3, <1>4, <1>5 DEF PipelineInv

LEMMA PipelineInductive == Spec => []PipelineInv
  <1>1. PipelineInv /\ [Next]_vars => PipelineInv'
    BY PrepareKeeps, SearchSingleQueryKeeps, SearchKeywordKeeps, SearchKeeps, StartWalkKeeps,
       GetEdgesFromKeeps, GetEdgesToKeeps, EndWalkKeeps, GetSymbolKeeps, ExpandGraphKeeps,
       RankKeeps, WriteKeeps, IndexingKeeps DEF Next
  <1> QED
    BY PipelineInit, <1>1, PTL DEF Spec
-----------------------------------------------------------------------------
(* Theorems. *)

\* Every variable keeps its type: no score leaves its range, no list is longer than the
\* limits allow, and the list of files has no repetition.
THEOREM PipelineTypeCorrect == Spec => []TypeOK
  <1>1. PipelineInv => TypeOK
    <2> SUFFICES ASSUME PipelineInv
                 PROVE  TypeOK
      OBVIOUS
    <2>1. /\ DOMAIN vector \subseteq Symbol /\ \A s \in DOMAIN vector : vector[s] \in -100 .. 100
          /\ DOMAIN keyword \subseteq Symbol /\ \A s \in DOMAIN keyword : keyword[s] \in {30, 60, 100}
          /\ \A s \in DOMAIN distances : s \in Symbol /\ distances[s] \in 0 .. MaxDepth
          /\ DOMAIN graph \subseteq Symbol /\ \A s \in DOMAIN graph : graph[s].score \in -100 .. 100
      BY MatchesType DEF PipelineInv, GraphInv, Scores
    <2>2. Len(ranked) =< FileLimit /\ IsInjective(ranked)
      <3>1. CASE pc \in Ranked
        BY <3>1, RankingType DEF PipelineInv, ResultInv
      <3>2. CASE pc \notin Ranked
        BY <3>2, PipelineAssumption DEF PipelineInv, ResultInv, IsInjective
      <3> QED
        BY <3>1, <3>2
    <2>3. /\ Len(hits) =< embedded /\ DOMAIN named \subseteq ExtractKeywords(TicketText)
          /\ read \in [vector : Versions, keyword : Versions, rows : Versions]
          /\ pending \subseteq DOMAIN distances
          /\ pc = "edges_to" => current \in DOMAIN distances
      BY DEF PipelineInv, FoundInv, ReadInv, WalkInv
    <2>4. /\ pc \in Searching \cup Ranked \cup {"ranking", "failed"}
          /\ errors \subseteq {"embedding", "graph_expansion"}
          /\ cachedQueries \in 0 .. MaxQueries /\ queries \in 0 .. MaxQueries
          /\ embedded \in {0, queries} /\ indexing \in 0 .. 3 + Len(Writes)
      BY DEF PipelineInv, StepInv
    <2>5. pc \in {"intake", "jira_context", "expansion", "embedding", "vector_search",
                  "keyword_search", "graph_expansion", "edges_from", "edges_to", "look_up",
                  "ranking", "compression", "prompt", "answer", "completed", "failed"}
      BY <2>4 DEF Searching, Preparing, Walking, Ranked
    <2> QED
      BY <2>1, <2>2, <2>3, <2>4, <2>5 DEF TypeOK
  <1> QED
    BY <1>1, PipelineInductive, PTL

\* However the job deletes and writes edges and rows between the queries, the expansion lies
\* between the least distances over what it could see and those over what was always there,
\* for every graph: every cycle, every depth and every set of matches.
THEOREM DistancesAreBounded == Spec => []DistancesInBounds
  <1>1. PipelineInv => DistancesInBounds
    <2> SUFFICES ASSUME PipelineInv, Expanded
                 PROVE  LET nearest == LeastDistance(seenEdges, Matched, MaxDepth)
                            farthest == LeastDistance(steadyEdges, Matched, MaxDepth)
                        IN  /\ \A s \in DOMAIN graph : graph[s].source = "graph" =>
                                  s \in DOMAIN nearest /\ graph[s].score =< GraphDistanceScore(nearest[s])
                            /\ \A s \in DOMAIN farthest \cap steadyRows :
                                  s \in DOMAIN graph /\ graph[s].score >= GraphDistanceScore(farthest[s])
      BY DEF DistancesInBounds, Expanded
    <2> DEFINE nearest == LeastDistance(seenEdges, Matched, MaxDepth)
               farthest == LeastDistance(steadyEdges, Matched, MaxDepth)
    <2>1. /\ FoundInv /\ distances \in Partial(Symbol, 0 .. MaxDepth) /\ MaxDepth \in Nat
          /\ seenEdges \in SUBSET (Symbol \X Symbol) /\ steadyEdges \in SUBSET (Symbol \X Symbol)
      BY PipelineAssumption DEF PipelineInv, FoundInv
    <2>2. Matched \in SUBSET Symbol
      BY <2>1, MatchesType DEF Matched
    <2>3. /\ Near(seenEdges, Matched, distances)
          /\ Settled(steadyEdges, MaxDepth, distances, DOMAIN distances)
          /\ DOMAIN distances \cap steadyRows \subseteq Rows
          /\ graph = GraphExpansion(distances, Rows, vector, keyword)
      BY DEF PipelineInv, WalkInv
    <2>4. /\ \A s \in DOMAIN distances \cap Rows :
                s \in DOMAIN graph /\ graph[s].score >= GraphDistanceScore(distances[s])
          /\ \A s \in DOMAIN graph : graph[s].score \in Scores
          /\ \A s \in DOMAIN graph : graph[s].source = "graph" =>
                s \in DOMAIN distances /\ graph[s].score = GraphDistanceScore(distances[s])
      BY <2>1, <2>3, ExpansionType DEF Rows
    <2>5. \A s \in DOMAIN distances : /\ s \in DOMAIN nearest /\ nearest[s] \in Nat
                                      /\ nearest[s] =< distances[s] /\ distances[s] \in Nat
      <3>1. \A s \in DOMAIN distances : /\ s \in DOMAIN nearest /\ nearest[s] \in Nat
                                        /\ nearest[s] =< distances[s]
        BY <2>1, <2>2, <2>3, NearIsWithin
      <3> QED
        BY <2>1, <3>1, MatchesType
    <2>6. \A s \in DOMAIN farthest : /\ s \in DOMAIN distances /\ farthest[s] \in Nat
                                     /\ distances[s] =< farthest[s] /\ distances[s] \in Nat
      BY <2>1, <2>2, <2>3, SettledIsWithin, MatchesType DEF Near
    <2>7. \A m, n \in Nat : m =< n => /\ GraphDistanceScore(n) =< GraphDistanceScore(m)
                                      /\ GraphDistanceScore(m) \in Int
      BY DEF GraphDistanceScore
    <2> HIDE DEF nearest, farthest
    <2>8. \A s \in DOMAIN graph : graph[s].source = "graph" =>
             s \in DOMAIN nearest /\ graph[s].score =< GraphDistanceScore(nearest[s])
      BY <2>4, <2>5, <2>7
    <2>9. ASSUME NEW s \in DOMAIN farthest \cap steadyRows
          PROVE  s \in DOMAIN graph /\ graph[s].score >= GraphDistanceScore(farthest[s])
      <3>1. s \in DOMAIN distances \cap Rows
        BY <2>3, <2>6
      <3>2. s \in DOMAIN graph /\ graph[s].score >= GraphDistanceScore(distances[s])
        BY <2>4, <3>1
      <3>3. GraphDistanceScore(farthest[s]) =< GraphDistanceScore(distances[s])
        BY <2>6, <2>7
      <3>4. /\ graph[s].score \in Int /\ GraphDistanceScore(distances[s]) \in Int
            /\ GraphDistanceScore(farthest[s]) \in Int
        BY <2>4, <2>6, <2>7, <3>2 DEF Scores
      <3> QED
        BY <3>2, <3>3, <3>4
    <2> QED
      BY <2>8, <2>9 DEF nearest, farthest
  <1> QED
    BY <1>1, PipelineInductive, PTL

\* Whichever steps failed, the files of every match compete, and the places go to those
\* with the highest scores.
THEOREM EvidenceIsRanked == Spec => []EvidenceReachesRanking
  <1>1. PipelineInv => EvidenceReachesRanking
    <2> SUFFICES ASSUME PipelineInv, pc \in Ranked
                 PROVE  LET evidence == Candidates(vector, keyword, graph)
                            chosen == ToSet(ranked)
                        IN  /\ Cardinality(chosen) = AtMost(FileLimit, Cardinality(evidence))
                            /\ \A f \in chosen, g \in evidence \ chosen :
                                  FinalScore(vector, keyword, graph, f) >= FinalScore(vector, keyword, graph, g)
      BY DEF EvidenceReachesRanking, Candidates, Ranked
    <2>1. ranked \in RankFiles(vector, keyword, graph, FileLimit) /\ FoundInv /\ GraphInv
      BY DEF PipelineInv, ResultInv
    <2> QED
      BY <2>1, RankingType
  <1> QED
    BY <1>1, PipelineInductive, PTL

\* All the snippets there are, of which the contexts are made.
LEMMA SnippetsOfTheRun ==
    ASSUME PipelineInv
    PROVE  \E X : /\ AllSnippets \in Seq(X) /\ Sized(X)
                  /\ \A t \in X : /\ t.version = disk => t.lines = Span[disk][t.symbol][1] .. Span[disk][t.symbol][2]
                                  /\ t.lines \subseteq 1 .. Lines[disk][t.file]
                                  /\ t.lines = {} => Lines[disk][t.file] = 0
  <1>1. ranked \in Seq(File)
    <2>1. CASE pc \in Ranked
      <3>1. /\ Candidates(vector, keyword, graph) \subseteq File
            /\ ranked \in Seq(Candidates(vector, keyword, graph))
        BY <2>1, RankingType DEF PipelineInv, ResultInv
      <3> HIDE DEF Candidates
      <3> QED
        BY <3>1
    <2>2. CASE pc \notin Ranked
      BY <2>2 DEF PipelineInv, ResultInv
    <2> QED
      BY <2>1, <2>2
  <1>2. /\ AllSnippets \in Seq(Snippets)
        /\ disk = "none" => AllSnippets \in Seq({})
    BY <1>1, AllSnippetsType DEF PipelineInv, StepInv
  <1>3. CASE disk \in Version
    <2>1. Sized(Snippets)
      BY <1>3, SnippetsShowTheFile DEF Sized
    <2> QED
      BY <1>2, <1>3, <2>1, SnippetsShowTheFile
  <1>4. CASE disk = "none"
    <2>1. Sized({})
      BY DEF Sized
    <2> QED
      BY <1>2, <1>4, <2>1
  <1> QED
    BY <1>3, <1>4 DEF PipelineInv, StepInv

\* The context never takes more than 95% of the budget, and the prompt shows a beginning
\* of it.
THEOREM BudgetIsKept == Spec => []BudgetKept
  <1>1. PipelineInv => BudgetKept
    <2> SUFFICES ASSUME PipelineInv
                 PROVE  BudgetKept
      OBVIOUS
    <2>1. PICK X : AllSnippets \in Seq(X) /\ Sized(X)
      BY SnippetsOfTheRun
    <2>2. TokenBudget \in Nat /\ ticket \in Nat
      BY PipelineAssumption DEF PipelineInv, StepInv
    <2>3. 100 * TotalTokens(context) =< 95 * TokenBudget
      <3>1. CASE pc \in {"prompt", "answer", "completed"}
        BY <2>1, <2>2, <3>1, ContextType DEF PipelineInv, ResultInv
      <3>2. CASE pc \notin {"prompt", "answer", "completed"}
        <4>1. context \in Seq(X) /\ Len(context) = 0
          BY <3>2 DEF PipelineInv, ResultInv
        <4>2. TotalTokens(context) = 0
          BY <2>1, <4>1, SnippetsSize
        <4> QED
          BY <2>2, <4>2
      <3> QED
        BY <3>1, <3>2
    <2>4. pc \in {"answer", "completed"} => IsPrefix(prompt, context)
      BY <2>1, <2>2, PromptFits DEF PipelineInv, ResultInv
    <2> QED
      BY <2>3, <2>4 DEF BudgetKept
  <1> QED
    BY <1>1, PipelineInductive, PTL

\* A prompt over the budget is the framing's fault.
THEOREM OnlyFramingExceeds == Spec => []OverBudgetOnlyByFraming
  <1>1. PipelineInv => OverBudgetOnlyByFraming
    <2> SUFFICES ASSUME PipelineInv, pc \in {"answer", "completed"},
                        PromptTokens(ticket, prompt) > TokenBudget
                 PROVE  100 * (FramingChars(ticket, prompt) + 3 * Len(prompt)) > 96 * TokenBudget
      BY DEF OverBudgetOnlyByFraming
    <2>1. PICK X : AllSnippets \in Seq(X) /\ Sized(X)
      BY SnippetsOfTheRun
    <2>2. TokenBudget \in Nat /\ ticket \in Nat
      BY PipelineAssumption DEF PipelineInv, StepInv
    <2>3. prompt = GeneratePrompt(ticket, AllSnippets, TokenBudget)
      BY DEF PipelineInv, ResultInv
    <2> QED
      BY <2>1, <2>2, <2>3, PromptFits
  <1> QED
    BY <1>1, PipelineInductive, PTL

\* Whatever the index and the disk are versions of, a snippet shows lines of its file,
\* and the symbol's own when the two agree.
THEOREM SnippetsAreFromTheFile == Spec => []SnippetsFromTheFile
  <1>1. PipelineInv => SnippetsFromTheFile
    <2> SUFFICES ASSUME PipelineInv
                 PROVE  SnippetsFromTheFile
      OBVIOUS
    <2>1. PICK X : /\ AllSnippets \in Seq(X) /\ Sized(X)
                  /\ \A t \in X : /\ t.version = disk => t.lines = Span[disk][t.symbol][1] .. Span[disk][t.symbol][2]
                                  /\ t.lines \subseteq 1 .. Lines[disk][t.file]
                                  /\ t.lines = {} => Lines[disk][t.file] = 0
      BY SnippetsOfTheRun
    <2>2. context \in Seq(X)
      <3>1. CASE pc \in {"prompt", "answer", "completed"}
        BY <2>1, <3>1, PipelineAssumption, ContextType DEF PipelineInv, ResultInv
      <3>2. CASE pc \notin {"prompt", "answer", "completed"}
        BY <3>2 DEF PipelineInv, ResultInv
      <3> QED
        BY <3>1, <3>2
    <2>3. \A i \in DOMAIN context : context[i] \in X
      BY <2>2
    <2> QED
      BY <2>1, <2>3 DEF SnippetsFromTheFile
  <1> QED
    BY <1>1, PipelineInductive, PTL

=========================================================

