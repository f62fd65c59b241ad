------------------------ MODULE SourceAnalysisProofs ------------------------
(***************************************************************************)
(* Theorems about SourceAnalysis, for every repository and every tree:     *)
(* what a file is said to contain, what the detected modules have to do    *)
(* with each other, and the inductive invariant of the attempt.            *)
(***************************************************************************)
EXTENDS SourceAnalysis, DataLemmas

-----------------------------------------------------------------------------
(* Syntax trees. *)

IsTree(t) == t \in Seq(SyntaxNode) /\ \A n \in 1 .. Len(t) : t[n].parent < n

LEMMA TreeNodes ==
    ASSUME NEW t, IsTree(t)
    PROVE  /\ Len(t) \in Nat /\ DOMAIN t = 1 .. Len(t)
           /\ \A n \in 1 .. Len(t) : /\ t[n].parent \in Nat /\ t[n].parent < n
                                     /\ t[n].kind \in STRING /\ t[n].name \in STRING
  <1>1. Len(t) \in Nat /\ DOMAIN t = 1 .. Len(t) /\ \A n \in 1 .. Len(t) : t[n] \in SyntaxNode
    BY DEF IsTree
  <1> QED
    BY <1>1 DEF IsTree, SyntaxNode

\* The recursion that defines the ancestors of a node ends.
LEMMA AncestorsExist ==
    ASSUME NEW t, IsTree(t)
    PROVE  /\ DOMAIN Above(t) = 0 .. Len(t)
           /\ \A n \in 0 .. Len(t) :
                 Above(t)[n] = IF n = 0 THEN {} ELSE {t[n].parent} \cup Above(t)[t[n].parent]
  <1> DEFINE N == Len(t)
             At(g, i) == IF i = 0 THEN {} ELSE {t[i].parent} \cup g[t[i].parent]
             Body(g) == [n \in 0 .. N |-> At(g, n)]
             Good(g, n) == DOMAIN g = 0 .. n /\ \A i \in 0 .. n : g[i] = At(g, i)
             P == {n \in Nat : n =< N => \E g : Good(g, n)}
             up == CHOOSE g : g = Body(g)
  <1>1. N \in Nat /\ \A n \in 1 .. N : t[n].parent \in Nat /\ t[n].parent < n
    BY TreeNodes
  <1>2. Above(t) = up
    BY DEF Above
  <1> HIDE DEF N
  <1>3. 0 \in P
    <2>1. Good([i \in 0 .. 0 |-> {}], 0)
      OBVIOUS
    <2> QED
      BY <2>1
  <1>4. ASSUME NEW n \in Nat, n \in P
        PROVE  n + 1 \in P
    <2>1. PICK m : m = n + 1
      OBVIOUS
    <2>2. m \in Nat /\ m # 0 /\ m \in 0 .. m /\ \A i \in 0 .. m : i = m \/ i \in 0 .. n
      BY <2>1
    <2>3. \A i \in 0 .. n : i # m /\ i \in 0 .. m
      BY <2>1
    <2>4. ASSUME m =< N
          PROVE  \E g : Good(g, m)
      <3>1. PICK g : Good(g, n)
        <4>1. n =< N
          BY <1>1, <2>1, <2>4
        <4> HIDE DEF Good
        <4> QED
          BY <1>4, <4>1
      <3> DEFINE new == {t[m].parent} \cup g[t[m].parent]
                 h == [i \in 0 .. m |-> IF i = m THEN new ELSE g[i]]
      <3> HIDE DEF new
      <3>2. DOMAIN h = 0 .. m /\ h[m] = new /\ \A i \in 0 .. n : h[i] = g[i]
        BY <2>2, <2>3
      <3> HIDE DEF h
      <3>3. t[m].parent \in 0 .. n /\ \A i \in 0 .. n : i # 0 => t[i].parent \in 0 .. n
        BY <1>1, <2>1, <2>2, <2>4
      <3>4. h[m] = At(h, m)
        BY <2>2, <3>2, <3>3 DEF new
      <3>5. ASSUME NEW i \in 0 .. n
            PROVE  h[i] = At(h, i)
        <4>1. h[i] = At(g, i)
          BY <3>1, <3>2
        <4>2. i # 0 => h[t[i].parent] = g[t[i].parent]
          BY <3>2, <3>3
        <4> QED
          BY <4>1, <4>2
      <3>6. Good(h, m)
        <4> HIDE DEF At
        <4> QED
          BY <2>2, <3>2, <3>4, <3>5
      <3> HIDE DEF Good
      <3> QED
        BY <3>6
    <2> HIDE DEF Good
    <2> QED
      BY <2>1, <2>2, <2>4
  <1> HIDE DEF P
  <1>5. N \in P
    BY <1>1, <1>3, <1>4, Induction
  <1>6. PICK g : Good(g, N)
    <2> HIDE DEF Good
    <2> QED
      BY <1>1, <1>5 DEF P
  <1>7. [n \in 0 .. N |-> g[n]] = Body([n \in 0 .. N |-> g[n]])
    <2> DEFINE h == [n \in 0 .. N |-> g[n]]
    <2>1. \A n \in 0 .. N : h[n] = g[n] /\ (n # 0 => h[t[n].parent] = g[t[n].parent])
      BY <1>1
    <2>2. \A n \in 0 .. N : h[n] = At(h, n)
      BY <1>6, <2>1
    <2>3. h = [n \in 0 .. N |-> h[n]]
      OBVIOUS
    <2> HIDE DEF h, At
    <2>4. h = Body(h)
      BY <2>2, <2>3
    <2> QED
      BY <2>4 DEF h
  <1>8. up = Body(up)
    <2> HIDE DEF Body
    <2> QED
      BY <1>7
  <1> HIDE DEF up
  <1>9. DOMAIN up = 0 .. N /\ \A n \in 0 .. N : up[n] = At(up, n)
    BY <1>8
  <1> QED
    BY <1>2, <1>9 DEF N

\* Ancestors come before their descendants, and the parent of one is one or the top.
LEMMA AncestorsPrecede ==
    ASSUME NEW t, IsTree(t)
    PROVE  \A n \in 0 .. Len(t) :
              /\ Above(t)[n] \subseteq 0 .. n - 1
              /\ \A a \in Above(t)[n] : a # 0 => t[a].parent \in Above(t)[n]
  <1> DEFINE N == Len(t)
             Fine(n) == /\ Above(t)[n] \subseteq 0 .. n - 1
                        /\ \A a \in Above(t)[n] : a # 0 => t[a].parent \in Above(t)[n]
             P == {n \in 0 .. N : \A m \in 0 .. n : Fine(m)}
  <1>1. N \in Nat /\ \A n \in 1 .. N : t[n].parent \in Nat /\ t[n].parent < n
    BY TreeNodes
  <1>2. \A n \in 0 .. N :
            Above(t)[n] = IF n = 0 THEN {} ELSE {t[n].parent} \cup Above(t)[t[n].parent]
    BY AncestorsExist
  <1> HIDE DEF N
  <1>3. 0 \in P
    <2>1. 0 \in 0 .. N
      BY <1>1
    <2>2. Above(t)[0] = {}
      BY <1>2, <2>1
    <2>3. Fine(0)
      BY <2>2
    <2>4. \A m \in 0 .. 0 : m = 0
      OBVIOUS
    <2> HIDE DEF Fine
    <2> QED
      BY <2>1, <2>3, <2>4
  <1>4. ASSUME NEW n \in 0 .. N - 1, n \in P
        PROVE  n + 1 \in P
    <2>1. PICK m : m = n + 1
      OBVIOUS
    <2>2. m \in 1 .. N /\ m # 0 /\ m \in 0 .. N
      BY <1>1, <2>1
    <2>3. t[m].parent \in 0 .. n
      BY <1>1, <2>1, <2>2
    <2>4. Fine(t[m].parent)
      BY <1>4, <2>3
    <2>5. Above(t)[m] = {t[m].parent} \cup Above(t)[t[m].parent]
      BY <1>2, <2>2
    <2>6. Above(t)[m] \subseteq 0 .. m - 1
      BY <2>1, <2>3, <2>4, <2>5
    <2>7. \A a \in Above(t)[m] : a # 0 => t[a].parent \in Above(t)[m]
      <3>1. ASSUME t[m].parent # 0
            PROVE  t[t[m].parent].parent \in Above(t)[t[m].parent]
        <4>1. t[m].parent \in 0 .. N
          BY <1>1, <2>1, <2>2, <2>3
        <4> QED
          BY <1>2, <3>1, <4>1
      <3> QED
        BY <2>4, <2>5, <3>1
    <2>8. \A k \in 0 .. m : k = m \/ k \in 0 .. n
      BY <2>1
    <2> QED
      BY <1>4, <2>1, <2>2, <2>6, <2>7, <2>8
  <1> HIDE DEF P
  <1>5. \A n \in 0 .. N : n \in P
    BY <1>1, <1>3, <1>4, InductionUpTo
  <1> QED
    BY <1>1, <1>5 DEF N, P

\* The subtree of a node comes after it, in it and in that of its parent.
LEMMA SubtreeFollows ==
    ASSUME NEW t, IsTree(t), NEW n \in 1 .. Len(t)
    PROVE  /\ n \in Subtree(t, n) /\ Subtree(t, n) \subseteq n .. Len(t)
           /\ t[n].parent # 0 => Subtree(t, n) \subseteq Subtree(t, t[n].parent)
  <1>1. Len(t) \in Nat /\ DOMAIN t = 1 .. Len(t) /\ t[n].parent \in Nat /\ t[n].parent < n
    BY TreeNodes
  <1>2. \A m \in 1 .. Len(t) : /\ Above(t)[m] \subseteq 0 .. m - 1
                               /\ \A a \in Above(t)[m] : a # 0 => t[a].parent \in Above(t)[m]
    BY <1>1, AncestorsPrecede
  <1>3. t[n].parent \in Above(t)[n]
    <2>1. n \in 0 .. Len(t) /\ n # 0
      BY <1>1
    <2> QED
      BY <2>1, AncestorsExist
  <1>4. n \in Subtree(t, n) /\ Subtree(t, n) \subseteq n .. Len(t)
    BY <1>1, <1>2 DEF Subtree
  <1>5. ASSUME t[n].parent # 0, NEW m \in Subtree(t, n)
        PROVE  m \in Subtree(t, t[n].parent)
    <2>1. CASE m = n
      BY <1>1, <1>3, <2>1 DEF Subtree
    <2>2. CASE m \in 1 .. Len(t) /\ n \in Above(t)[m]
      <3>1. n # 0
        OBVIOUS
      <3> QED
        BY <1>1, <1>2, <2>2, <3>1 DEF Subtree
    <2> QED
      BY <1>1, <1>5, <2>1, <2>2 DEF Subtree
  <1> QED
    BY <1>4, <1>5

\* The lines of a symbol begin at a node and hold everything below the symbol's own.
LEMMA LinesSpan ==
    ASSUME NEW t, IsTree(t), NEW n \in 1 .. Len(t), t[n].kind = "arrow" => t[n].parent # 0
    PROVE  /\ Lines(t, n)[1] \in Nat \ {0} /\ Lines(t, n)[1] =< Lines(t, n)[2]
           /\ \A c \in Subtree(t, n) : /\ c \in 1 .. Len(t)
                                       /\ Lines(t, n)[1] =< c /\ c =< Lines(t, n)[2]
  <1> DEFINE node == IF t[n].kind = "arrow" THEN t[n].parent ELSE n
             S == Subtree(t, node)
  <1>1. Len(t) \in Nat /\ t[n].parent \in Nat /\ t[n].parent < n
    BY TreeNodes
  <1>2. node \in 1 .. Len(t)
    BY <1>1
  <1>3. Lines(t, n) = <<node, Max(S)>>
    BY DEF Lines
  <1>4. Subtree(t, n) \subseteq S
    BY SubtreeFollows
  <1> HIDE DEF node
  <1>5. node \in S /\ S \subseteq node .. Len(t)
    BY <1>2, SubtreeFollows
  <1> HIDE DEF S
  <1>6. Max(S) \in S /\ \A y \in S : y =< Max(S)
    <2>1. IsFiniteSet(S)
      <3>1. IsFiniteSet(node .. Len(t))
        BY <1>1, <1>2, FS_Interval
      <3> QED
        BY <1>5, <3>1, FS_Subset
    <2>2. S \in SUBSET Int /\ S # {}
      BY <1>1, <1>2, <1>5
    <2>3. \E x \in S : \A y \in S : y =< x
      BY <2>1, <2>2, FiniteHasGreatest
    <2>4. \E x \in S : \A y \in S : x >= y
      BY <2>2, <2>3
    <2> QED
      BY <2>2, <2>4 DEF Max
  <1>7. Lines(t, n)[1] = node /\ Lines(t, n)[2] = Max(S)
    BY <1>3
  <1>8. node \in Nat \ {0} /\ node =< Max(S)
    BY <1>1, <1>2, <1>5, <1>6
  <1>9. ASSUME NEW c \in Subtree(t, n)
        PROVE  c \in 1 .. Len(t) /\ node =< c /\ c =< Max(S)
    <2>1. c \in S
      BY <1>4
    <2>2. c \in node .. Len(t) /\ c =< Max(S)
      BY <1>5, <1>6, <2>1
    <2> QED
      BY <1>1, <1>2, <2>2
  <1> QED
    BY <1>7, <1>8, <1>9

SymbolTypes == {"function", "method", "class", "interface", "type"}

LEMMA TypesAre ==
    ASSUME NEW t, IsTree(t), NEW language, NEW n \in 1 .. Len(t), TypeOf(t, language, n) # "none"
    PROVE  /\ TypeOf(t, language, n) \in SymbolTypes
           /\ t[n].kind = "arrow" => t[n].parent # 0
           /\ TypeOf(t, language, n) \in {"function", "method"} => t[n].kind \in {"function", "method", "arrow"}
  <1>1. CASE language = "python"
    <2>1. TypeOf(t, language, n) = PythonType(t, n)
      BY <1>1 DEF TypeOf
    <2>2. CASE t[n].kind = "function"
      BY <2>1, <2>2 DEF PythonType, SymbolTypes
    <2>3. CASE t[n].kind = "class"
      BY <2>1, <2>3 DEF PythonType, SymbolTypes
    <2>4. CASE t[n].kind \notin {"function", "class"}
      <3>1. PythonType(t, n) = "none"
        BY <2>4 DEF PythonType
      <3> QED
        BY <2>1, <3>1
    <2> QED
      BY <2>2, <2>3, <2>4
  <1>2. CASE language # "python"
    <2>1. TypeOf(t, language, n) = JsTsType(t, n)
      BY <1>2 DEF TypeOf
    <2>2. CASE t[n].kind = "arrow"
      BY <2>1, <2>2 DEF JsTsType, SymbolTypes
    <2>3. CASE t[n].kind \in {"function", "class", "method", "interface", "type"}
      <3>1. JsTsType(t, n) \in {t[n].kind, "none"}
        BY <2>3 DEF JsTsType
      <3> QED
        BY <2>1, <2>3, <3>1 DEF SymbolTypes
    <2>4. CASE t[n].kind \notin {"arrow", "function", "class", "method", "interface", "type"}
      <3>1. JsTsType(t, n) = "none"
        BY <2>4 DEF JsTsType
      <3> QED
        BY <2>1, <3>1
    <2> QED
      BY <2>2, <2>3, <2>4
  <1> QED
    BY <1>1, <1>2

\* A symbol a file has, and an edge: the callee is called in the lines of the caller.
SymbolIn(path, t, s) ==
    /\ s = [id |-> s.id, lines |-> s.lines]
    /\ \E n \in 1 .. Len(t), type \in SymbolTypes : s.id = IdOf(path, t[n].name, type)
    /\ s.lines[1] \in Nat \ {0} /\ s.lines[1] =< s.lines[2]

EdgeIn(path, t, e) ==
    \E n, c \in 1 .. Len(t), type \in {"function", "method"} :
        /\ e = <<IdOf(path, t[n].name, type), IdOf(path, t[c].name, "function")>>
        /\ t[n].kind \in {"function", "method", "arrow"} /\ t[c].kind = "call"
        /\ Lines(t, n)[1] =< c /\ c =< Lines(t, n)[2]

LEMMA ExtractIs ==
    ASSUME NEW t, IsTree(t), NEW path, NEW language
    PROVE  LET E == Extract(path, t, language)
           IN  /\ Len(E.symbols) \in Nat /\ DOMAIN E.symbols = 1 .. Len(E.symbols)
               /\ \A i \in 1 .. Len(E.symbols) : SymbolIn(path, t, E.symbols[i])
               /\ \A e \in E.edges : EdgeIn(path, t, e)
  <1> DEFINE type(n) == TypeOf(t, language, n)
             K == {n \in 1 .. Len(t) : language \in Grammars /\ type(n) # "none"}
             all == [n \in DOMAIN t |-> n]
             defined == Keeping(all, K)
             symbol(n) == [id |-> IdOf(path, t[n].name, type(n)), lines |-> Lines(t, n)]
             callers == {n \in ToSet(defined) : type(n) \in {"function", "method"}}
             calls(n) == {<<IdOf(path, t[n].name, type(n)), IdOf(path, name, "function")>> : name \in CallsOf(t, n)}
             E == Extract(path, t, language)
  <1>1. Len(t) \in Nat /\ DOMAIN t = 1 .. Len(t)
    BY TreeNodes
  <1>2. all \in Seq(1 .. Len(t)) /\ Len(all) = Len(t) /\ \A n \in 1 .. Len(t) : all[n] = n
    BY <1>1
  <1>3. FlattenSeq([n \in DOMAIN t |-> IF language \in Grammars /\ type(n) # "none" THEN <<n>> ELSE << >>])
          = defined
    <2> DEFINE one(n) == IF language \in Grammars /\ type(n) # "none" THEN <<n>> ELSE << >>
               kept(n) == IF all[n] \in K THEN <<all[n]>> ELSE << >>
    <2>1. \A n \in 1 .. Len(t) : one(n) = kept(n)
      BY <1>2
    <2>2. DOMAIN all = 1 .. Len(t)
      BY <1>1
    <2> HIDE DEF one, kept, all
    <2>3. [n \in DOMAIN t |-> one(n)] = [n \in DOMAIN all |-> kept(n)]
      BY <1>1, <2>1, <2>2
    <2> QED
      BY <2>3 DEF one, kept, Keeping
  <1>4. E = [symbols |-> [i \in DOMAIN defined |-> symbol(defined[i])], edges |-> UNION {calls(n) : n \in callers}]
    <2> HIDE DEF defined
    <2> QED
      BY <1>3 DEF Extract
  <1> HIDE DEF all, E
  <1>5. defined \in Seq(1 .. Len(t)) /\ \A i \in 1 .. Len(defined) : defined[i] \in K
    BY <1>2, KeepingKeeps, SMTT(30)
  <1> HIDE DEF defined
  <1>6. Len(defined) \in Nat /\ DOMAIN defined = 1 .. Len(defined)
    BY <1>5
  <1>7. \A n \in K : /\ n \in 1 .. Len(t) /\ type(n) \in SymbolTypes
                     /\ t[n].kind = "arrow" => t[n].parent # 0
                     /\ type(n) \in {"function", "method"} => t[n].kind \in {"function", "method", "arrow"}
    BY TypesAre
  <1>8. E.symbols = [i \in 1 .. Len(defined) |-> symbol(defined[i])] /\ E.edges = UNION {calls(n) : n \in callers}
    BY <1>4, <1>6
  <1>9. Len(E.symbols) = Len(defined) /\ DOMAIN E.symbols = 1 .. Len(defined)
    <2> HIDE DEF symbol
    <2> QED
      BY <1>6, <1>8
  <1>10. ASSUME NEW i \in 1 .. Len(defined)
         PROVE  SymbolIn(path, t, E.symbols[i])
    <2>1. PICK n : n = defined[i]
      OBVIOUS
    <2>2. E.symbols[i] = symbol(n)
      <3> HIDE DEF symbol
      <3> QED
        BY <1>8, <2>1
    <2>3. n \in K
      BY <1>5, <2>1
    <2>4. n \in 1 .. Len(t) /\ type(n) \in SymbolTypes /\ (t[n].kind = "arrow" => t[n].parent # 0)
      BY <1>7, <2>3
    <2>5. Lines(t, n)[1] \in Nat \ {0} /\ Lines(t, n)[1] =< Lines(t, n)[2]
      BY <2>4, LinesSpan
    <2>6. symbol(n).id = IdOf(path, t[n].name, type(n)) /\ symbol(n).lines = Lines(t, n)
          /\ symbol(n) = [id |-> symbol(n).id, lines |-> symbol(n).lines]
      OBVIOUS
    <2> HIDE DEF symbol, type
    <2> QED
      BY <2>2, <2>4, <2>5, <2>6 DEF SymbolIn
  <1>11. ASSUME NEW e \in E.edges
         PROVE  EdgeIn(path, t, e)
    <2>1. PICK n \in callers : e \in calls(n)
      BY <1>8
    <2>2. PICK name \in CallsOf(t, n) : e = <<IdOf(path, t[n].name, type(n)), IdOf(path, name, "function")>>
      BY <2>1
    <2>3. n \in K /\ type(n) \in {"function", "method"}
      BY <1>5, <1>6 DEF ToSet
    <2>4. /\ n \in 1 .. Len(t) /\ (t[n].kind = "arrow" => t[n].parent # 0)
          /\ t[n].kind \in {"function", "method", "arrow"}
      BY <1>7, <2>3
    <2>5. PICK c \in Subtree(t, n) : t[c].kind = "call" /\ name = t[c].name
      BY <2>2 DEF CallsOf
    <2>6. c \in 1 .. Len(t) /\ Lines(t, n)[1] =< c /\ c =< Lines(t, n)[2]
      BY <2>4, LinesSpan
    <2> HIDE DEF type, K
    <2> QED
      BY <2>2, <2>3, <2>4, <2>5, <2>6 DEF EdgeIn
  <1> QED
    BY <1>6, <1>9, <1>10, <1>11 DEF E

-----------------------------------------------------------------------------
(* Files and modules. *)

LEMMA PrefixIs ==
    ASSUME NEW S, NEW s \in Seq(S), NEW p \in Seq(S)
    PROVE  IsPrefix(s, p) <=> Len(s) =< Len(p) /\ \A i \in 1 .. Len(s) : s[i] = p[i]
  <1>1. Len(s) \in Nat /\ Len(p) \in Nat
    OBVIOUS
  <1>2. CASE Len(s) =< Len(p)
    <2> DEFINE a == SubSeq(s, 1, Len(s))
               b == SubSeq(p, 1, Len(s))
    <2>1. /\ a \in Seq(S) /\ Len(a) = Len(s) /\ \A i \in 1 .. Len(s) : a[i] = s[i]
          /\ b \in Seq(S) /\ Len(b) = Len(s) /\ \A i \in 1 .. Len(s) : b[i] = p[i]
      BY <1>1, <1>2
    <2>2. IsPrefix(s, p) <=> a = b
      BY <1>2 DEF IsPrefix
    <2> HIDE DEF a, b
    <2>3. a = b <=> \A i \in 1 .. Len(s) : a[i] = b[i]
      BY <2>1
    <2> QED
      BY <1>2, <2>1, <2>2, <2>3
  <1>3. CASE ~ (Len(s) =< Len(p))
    BY <1>3 DEF IsPrefix
  <1> QED
    BY <1>2, <1>3

LEMMA PrefixAgrees ==
    ASSUME NEW s \in Seq(STRING), NEW p \in Seq(STRING), IsPrefix(s, p), NEW k \in 1 .. Len(s)
    PROVE  p[k] = s[k]
  BY PrefixIs

LEMMA FilesAre ==
    ASSUME NEW f \in File
    PROVE  /\ f.dir \in Seq(STRING) /\ f.base \in STRING /\ f.tree \in Seq(SyntaxNode) /\ f.fails \in BOOLEAN
           /\ PathOf(f) \in Seq(STRING) /\ Len(f.dir) \in Nat /\ Len(PathOf(f)) = Len(f.dir) + 1
           /\ \A i \in 1 .. Len(f.dir) : PathOf(f)[i] = f.dir[i]
  <1>1. f.dir \in Seq(ToSet(Names)) /\ f.base \in STRING /\ f.tree \in Seq(SyntaxNode) /\ f.fails \in BOOLEAN
    BY DEF File
  <1>2. ToSet(Names) \subseteq STRING
    BY AnalysisAssumption DEF AnalysisAssumption, ToSet
  <1>3. f.dir \in Seq(STRING)
    BY <1>1, <1>2
  <1> QED
    BY <1>1, <1>3 DEF PathOf

LEMMA RepositoriesAre ==
    ASSUME NEW r \in Repositories
    PROVE  /\ r \in Seq(File) /\ Len(r) \in Nat /\ ToSet(r) = {r[i] : i \in 1 .. Len(r)}
           /\ \A f \in ToSet(r) : f \in File /\ IsTree(f.tree)
           /\ \A f, g \in ToSet(r) : PathOf(f) = PathOf(g) => f = g
           /\ \A i, j \in 1 .. Len(r) : r[i] = r[j] => i = j
  <1>1. /\ r \in Seq(File)
        /\ \A i, j \in DOMAIN r : PathOf(r[i]) = PathOf(r[j]) => i = j
        /\ \A i \in DOMAIN r : \A n \in DOMAIN r[i].tree : r[i].tree[n].parent < n
    BY AnalysisAssumption
  <1>2. Len(r) \in Nat /\ DOMAIN r = 1 .. Len(r) /\ \A i \in 1 .. Len(r) : r[i] \in File
    BY <1>1
  <1>3. ToSet(r) = {r[i] : i \in 1 .. Len(r)}
    BY <1>2 DEF ToSet
  <1>4. \A i \in 1 .. Len(r) : IsTree(r[i].tree)
    <2> SUFFICES ASSUME NEW i \in 1 .. Len(r)
                 PROVE  IsTree(r[i].tree)
      OBVIOUS
    <2>1. r[i].tree \in Seq(SyntaxNode)
      BY <1>2, FilesAre
    <2>2. DOMAIN r[i].tree = 1 .. Len(r[i].tree)
      BY <2>1
    <2> QED
      BY <1>1, <1>2, <2>1, <2>2 DEF IsTree
  <1> QED
    BY <1>1, <1>2, <1>3, <1>4

LEMMA FilterIs ==
    ASSUME NEW r \in Repositories, NEW root
    PROVE  LET kept == FilterFiles(r, root)
           IN  /\ kept \in Seq(ToSet(r)) /\ Len(kept) \in Nat
               /\ \A i \in 1 .. Len(kept) : kept[i] \in ToSet(r) /\ IsPrefix(root, kept[i].dir)
               /\ \A i, j \in 1 .. Len(kept) : PathOf(kept[i]) = PathOf(kept[j]) => i = j
  <1> DEFINE in(f) == /\ IsPrefix(root, f.dir)
                      /\ ShouldIndexFile(SubSeq(PathOf(f), Len(root) + 1, Len(f.dir) + 1), f.suffix)
             K == {f \in ToSet(r) : in(f)}
             one(i) == IF in(r[i]) THEN <<r[i]>> ELSE << >>
             other(i) == IF r[i] \in K THEN <<r[i]>> ELSE << >>
             kept == Keeping(r, K)
  <1>1. /\ r \in Seq(File) /\ Len(r) \in Nat /\ DOMAIN r = 1 .. Len(r) /\ ToSet(r) = {r[i] : i \in 1 .. Len(r)}
        /\ \A f, g \in ToSet(r) : PathOf(f) = PathOf(g) => f = g
        /\ \A i, j \in 1 .. Len(r) : r[i] = r[j] => i = j
    BY RepositoriesAre
  <1>2. FilterFiles(r, root) = kept
    <2>1. \A i \in DOMAIN r : one(i) = other(i)
      BY <1>1
    <2> HIDE DEF one, other
    <2>2. [i \in DOMAIN r |-> one(i)] = [i \in DOMAIN r |-> other(i)]
      BY <2>1
    <2> QED
      BY <2>2 DEF FilterFiles, Keeping, one, other
  <1>3. \A f \in K : f \in ToSet(r) /\ IsPrefix(root, f.dir)
    OBVIOUS
  <1> HIDE DEF K
  <1>4. /\ kept \in Seq(File) /\ \A i \in 1 .. Len(kept) : kept[i] \in K
        /\ \A i, j \in 1 .. Len(kept) : kept[i] = kept[j] => i = j
    BY <1>1, KeepingKeeps
  <1> HIDE DEF kept
  <1>5. Len(kept) \in Nat /\ kept \in [1 .. Len(kept) -> ToSet(r)]
    BY <1>3, <1>4
  <1>6. kept \in Seq(ToSet(r))
    BY <1>5
  <1> QED
    BY <1>1, <1>2, <1>3, <1>4, <1>5, <1>6

LEMMA ChildDirsAre ==
    ASSUME NEW r, NEW dir
    PROVE  LET dirs == ChildDirs(r, dir)
           IN  dirs \in Seq(STRING) /\ \A i, j \in 1 .. Len(dirs) : dirs[i] = dirs[j] => i = j
  <1> DEFINE in(d) == d \notin IGNORED_DIRS /\ \E f \in ToSet(r) : IsPrefix(Append(dir, d), f.dir)
             K == {d \in STRING : in(d)}
             one(i) == IF in(Names[i]) THEN <<Names[i]>> ELSE << >>
             other(i) == IF Names[i] \in K THEN <<Names[i]>> ELSE << >>
  <1>1. Names \in Seq(STRING) /\ \A i, j \in DOMAIN Names : Names[i] = Names[j] => i = j
    BY AnalysisAssumption DEF AnalysisAssumption, IsInjective
  <1>2. DOMAIN Names = 1 .. Len(Names)
    BY <1>1
  <1>3. ChildDirs(r, dir) = Keeping(Names, K)
    <2>1. \A i \in DOMAIN Names : one(i) = other(i)
      BY <1>1
    <2> HIDE DEF one, other
    <2>2. [i \in DOMAIN Names |-> one(i)] = [i \in DOMAIN Names |-> other(i)]
      BY <2>1
    <2> QED
      BY <2>2 DEF ChildDirs, Keeping, one, other
  <1> HIDE DEF K
  <1>4. \A i, j \in 1 .. Len(Names) : Names[i] = Names[j] => i = j
    BY <1>1, <1>2
  <1>5. /\ Keeping(Names, K) \in Seq(STRING)
        /\ \A i, j \in 1 .. Len(Keeping(Names, K)) : Keeping(Names, K)[i] = Keeping(Names, K)[j] => i = j
    BY <1>1, <1>4, KeepingKeeps
  <1> QED
    BY <1>3, <1>5

AModule == [name : STRING \cup {Root.name}, path : Seq(STRING)]

\* The modules of an entry begin with it, and no path is in two of them.
LEMMA FoundInIs ==
    ASSUME NEW r, NEW entry \in STRING
    PROVE  LET found == FoundIn(r, entry)
           IN  /\ found \in Seq(AModule) /\ Len(found) \in Nat
               /\ \A i \in 1 .. Len(found) : Len(found[i].path) >= 1 /\ found[i].path[1] = entry
               /\ \A i, j \in 1 .. Len(found), p \in Seq(STRING) :
                     IsPrefix(found[i].path, p) /\ IsPrefix(found[j].path, p) => i = j
  <1> DEFINE found == FoundIn(r, entry)
  <1>1. CASE entry \in SERVICE_DIR_NAMES
    <2> DEFINE dirs == ChildDirs(r, <<entry>>)
    <2>1. dirs \in Seq(STRING) /\ \A i, j \in 1 .. Len(dirs) : dirs[i] = dirs[j] => i = j
      BY ChildDirsAre
    <2>2. found = [i \in DOMAIN dirs |-> Module(<<entry, dirs[i]>>)]
      BY <1>1 DEF FoundIn
    <2> HIDE DEF dirs
    <2>3. Len(dirs) \in Nat /\ DOMAIN dirs = 1 .. Len(dirs) /\ \A i \in 1 .. Len(dirs) : dirs[i] \in STRING
      BY <2>1
    <2>4. \A d \in STRING : /\ Module(<<entry, d>>) = [name |-> d, path |-> <<entry, d>>]
                            /\ Module(<<entry, d>>) \in AModule
      BY DEF Module, Last, AModule
    <2> HIDE DEF found
    <2>5. found \in [1 .. Len(dirs) -> AModule]
      BY <2>2, <2>3, <2>4
    <2>6. found \in Seq(AModule) /\ Len(found) = Len(dirs)
      BY <2>3, <2>5
    <2>7. ASSUME NEW i \in 1 .. Len(dirs)
          PROVE  /\ found[i].path \in Seq(STRING) /\ Len(found[i].path) = 2
                 /\ found[i].path[1] = entry /\ found[i].path[2] = dirs[i]
      <3>1. found[i] = Module(<<entry, dirs[i]>>)
        BY <2>2, <2>3
      <3>2. found[i].path = <<entry, dirs[i]>>
        BY <3>1 DEF Module
      <3> QED
        BY <2>3, <3>2
    <2>8. ASSUME NEW i \in 1 .. Len(dirs), NEW j \in 1 .. Len(dirs), NEW p \in Seq(STRING),
                 IsPrefix(found[i].path, p), IsPrefix(found[j].path, p)
          PROVE  i = j
      <3> DEFINE s == found[i].path
                 t == found[j].path
      <3>1. /\ s \in Seq(STRING) /\ 2 \in 1 .. Len(s) /\ s[2] = dirs[i] /\ IsPrefix(s, p)
            /\ t \in Seq(STRING) /\ 2 \in 1 .. Len(t) /\ t[2] = dirs[j] /\ IsPrefix(t, p)
        BY <2>7, <2>8
      <3> HIDE DEF s, t
      <3>2. p[2] = dirs[i]
        BY <3>1, PrefixAgrees
      <3>3. p[2] = dirs[j]
        BY <3>1, PrefixAgrees
      <3> QED
        BY <2>1, <3>2, <3>3
    <2>9. /\ found \in Seq(AModule) /\ Len(found) \in Nat
          /\ \A i \in 1 .. Len(found) : Len(found[i].path) >= 1 /\ found[i].path[1] = entry
      BY <2>3, <2>6, <2>7
    <2>10. \A i, j \in 1 .. Len(found), p \in Seq(STRING) :
              IsPrefix(found[i].path, p) /\ IsPrefix(found[j].path, p) => i = j
      BY <2>6, <2>8
    <2> QED
      BY <2>9, <2>10 DEF found
  <1>2. CASE entry \notin SERVICE_DIR_NAMES
    <2>1. Module(<<entry>>) = [name |-> entry, path |-> <<entry>>] /\ Module(<<entry>>) \in AModule
      BY DEF Module, Last, AModule
    <2>2. found = <<Module(<<entry>>)>> \/ found = << >>
      BY <1>2 DEF FoundIn
    <2>3. CASE found = << >>
      BY <2>3
    <2>4. CASE found = <<Module(<<entry>>)>>
      <3> HIDE DEF found
      <3>1. found \in Seq(AModule) /\ Len(found) = 1 /\ found[1].path = <<entry>>
        BY <2>1, <2>4
      <3>2. \A i \in 1 .. 1 : i = 1
        OBVIOUS
      <3> QED
        BY <3>1, <3>2, SMTT(30) DEF found
    <2> QED
      BY <2>2, <2>3, <2>4
  <1> QED
    BY <1>1, <1>2

\* No path is in two modules.
Apart(ms) ==
    \A i, j \in 1 .. Len(ms), p \in Seq(STRING) :
        IsPrefix(ms[i].path, p) /\ IsPrefix(ms[j].path, p) => i = j

LEMMA ModulesAre ==
    ASSUME NEW r
    PROVE  LET ms == DetectModules(r)
           IN  /\ ms \in Seq(AModule) /\ Len(ms) \in Nat \ {0} /\ ms # << >>
               /\ Apart(ms)
  <1> DEFINE top == ChildDirs(r, << >>)
             seqs == [i \in DOMAIN top |-> FoundIn(r, top[i])]
             flat == FlattenSeq(seqs)
             ms == DetectModules(r)
  <1>1. top \in Seq(STRING) /\ \A i, j \in 1 .. Len(top) : top[i] = top[j] => i = j
    BY ChildDirsAre
  <1>2. ms = IF flat = << >> THEN <<Root>> ELSE flat
    BY DEF DetectModules
  <1> HIDE DEF top, ms
  <1>3. Len(top) \in Nat /\ DOMAIN top = 1 .. Len(top) /\ \A k \in 1 .. Len(top) : top[k] \in STRING
    BY <1>1
  <1>4. \A k \in 1 .. Len(top) :
           /\ seqs[k] \in Seq(AModule) /\ Len(seqs[k]) \in Nat
           /\ \A m \in 1 .. Len(seqs[k]) : Len(seqs[k][m].path) >= 1 /\ seqs[k][m].path[1] = top[k]
           /\ \A m, n \in 1 .. Len(seqs[k]), p \in Seq(STRING) :
                 IsPrefix(seqs[k][m].path, p) /\ IsPrefix(seqs[k][n].path, p) => m = n
    <2> SUFFICES ASSUME NEW k \in 1 .. Len(top)
                 PROVE  /\ seqs[k] \in Seq(AModule) /\ Len(seqs[k]) \in Nat
                        /\ \A m \in 1 .. Len(seqs[k]) : Len(seqs[k][m].path) >= 1 /\ seqs[k][m].path[1] = top[k]
                        /\ \A m, n \in 1 .. Len(seqs[k]), p \in Seq(STRING) :
                              IsPrefix(seqs[k][m].path, p) /\ IsPrefix(seqs[k][n].path, p) => m = n
      OBVIOUS
    <2>1. seqs[k] = FoundIn(r, top[k])
      BY <1>3
    <2> HIDE DEF seqs
    <2>2. top[k] \in STRING
      BY <1>3
    <2> DEFINE F == FoundIn(r, top[k])
    <2>3. /\ F \in Seq(AModule) /\ Len(F) \in Nat
          /\ \A m \in 1 .. Len(F) : Len(F[m].path) >= 1 /\ F[m].path[1] = top[k]
          /\ \A m, n \in 1 .. Len(F), p \in Seq(STRING) :
                IsPrefix(F[m].path, p) /\ IsPrefix(F[n].path, p) => m = n
      BY <2>2, FoundInIs
    <2>4. seqs[k] = F
      BY <2>1
    <2> HIDE DEF F
    <2> QED
      BY <2>3, <2>4
  <1>5. seqs \in Seq(Seq(AModule)) /\ Len(seqs) = Len(top)
    <2>1. DOMAIN seqs = 1 .. Len(top) /\ seqs = [k \in 1 .. Len(top) |-> seqs[k]]
      BY <1>3
    <2> HIDE DEF seqs
    <2>2. seqs \in [1 .. Len(top) -> Seq(AModule)]
      BY <1>4, <2>1
    <2> QED
      BY <1>3, <2>2
  <1> HIDE DEF seqs
  <1>6. \A k \in 1 .. Len(top) : \A m \in 1 .. Len(seqs[k]) : seqs[k][m] \in AModule /\ seqs[k][m].path \in Seq(STRING)
    <2>1. \A k \in 1 .. Len(top) : \A m \in 1 .. Len(seqs[k]) : seqs[k][m] \in AModule
      BY <1>4
    <2> QED
      BY <2>1 DEF AModule
  <1>7. ASSUME NEW k \in 1 .. Len(top), NEW l \in 1 .. Len(top), NEW m \in 1 .. Len(seqs[k]),
               NEW n \in 1 .. Len(seqs[l]), NEW p \in Seq(STRING),
               IsPrefix(seqs[k][m].path, p), IsPrefix(seqs[l][n].path, p)
        PROVE  k = l /\ m = n
    <2>1. p[1] = seqs[k][m].path[1] /\ p[1] = seqs[l][n].path[1]
      <3>1. /\ Len(seqs[k][m].path) >= 1 /\ Len(seqs[l][n].path) >= 1
            /\ seqs[k][m].path \in Seq(STRING) /\ seqs[l][n].path \in Seq(STRING)
        BY <1>4, <1>6
      <3>2. 1 \in 1 .. Len(seqs[k][m].path) /\ 1 \in 1 .. Len(seqs[l][n].path)
        BY <3>1
      <3>3. p[1] = seqs[k][m].path[1]
        BY <1>7, <3>1, <3>2, PrefixAgrees
      <3>4. p[1] = seqs[l][n].path[1]
        BY <1>7, <3>1, <3>2, PrefixAgrees
      <3> QED
        BY <3>3, <3>4
    <2>2. top[k] = top[l]
      BY <1>4, <2>1
    <2>3. k = l
      BY <1>1, <2>2
    <2> QED
      BY <1>4, <1>7, <2>3
  <1>8. AllDistinct(seqs)
    <2> SUFFICES ASSUME NEW k \in 1 .. Len(top), NEW l \in 1 .. Len(top), NEW m \in 1 .. Len(seqs[k]),
                        NEW n \in 1 .. Len(seqs[l]), seqs[k][m] = seqs[l][n]
                 PROVE  k = l /\ m = n
      BY <1>5 DEF AllDistinct
    <2>1. IsPrefix(seqs[k][m].path, seqs[k][m].path)
      <3>1. Len(seqs[k][m].path) \in Nat
        BY <1>6
      <3> QED
        BY <1>6, <3>1, PrefixIs
    <2> QED
      BY <1>6, <1>7, <2>1
  <1>9. /\ flat \in Seq(AModule)
        /\ \A i \in 1 .. Len(flat) :
              \E k \in 1 .. Len(seqs) : \E m \in 1 .. Len(seqs[k]) : flat[i] = seqs[k][m]
        /\ \A i, j \in 1 .. Len(flat) : flat[i] = flat[j] => i = j
    BY <1>5, <1>8, FlatSequence
  <1> HIDE DEF flat
  <1>10. Apart(flat)
    <2> SUFFICES ASSUME NEW i \in 1 .. Len(flat), NEW j \in 1 .. Len(flat), NEW p \in Seq(STRING),
                        IsPrefix(flat[i].path, p), IsPrefix(flat[j].path, p)
                 PROVE  i = j
      BY DEF Apart
    <2>1. PICK k \in 1 .. Len(top) : \E m \in 1 .. Len(seqs[k]) : flat[i] = seqs[k][m]
      BY <1>5, <1>9
    <2>2. PICK m \in 1 .. Len(seqs[k]) : flat[i] = seqs[k][m]
      BY <2>1
    <2>3. PICK l \in 1 .. Len(top) : \E n \in 1 .. Len(seqs[l]) : flat[j] = seqs[l][n]
      BY <1>5, <1>9
    <2>4. PICK n \in 1 .. Len(seqs[l]) : flat[j] = seqs[l][n]
      BY <2>3
    <2>5. k = l /\ m = n
      BY <1>7, <2>2, <2>4
    <2> QED
      BY <1>9, <2>2, <2>4, <2>5
  <1>11. CASE flat # << >>
    <2>1. ms = flat /\ Len(flat) \in Nat \ {0}
      BY <1>2, <1>9, <1>11
    <2> QED
      BY <1>9, <1>10, <1>11, <2>1 DEF ms
  <1>12. CASE flat = << >>
    <2>1. ms = <<Root>> /\ Root \in AModule
      <3>1. << >> \in Seq(STRING)
        OBVIOUS
      <3>2. \A path \in Seq(STRING) : [name |-> Root.name, path |-> path] \in AModule
        BY DEF AModule
      <3>3. Root \in AModule
        BY <3>1, <3>2 DEF Root
      <3> QED
        BY <1>2, <1>12, <3>3
    <2>2. ms \in Seq(AModule) /\ Len(ms) = 1 /\ ms # << >>
      BY <2>1
    <2>3. \A i \in 1 .. 1 : i = 1
      OBVIOUS
    <2>4. Apart(ms)
      BY <2>2, <2>3 DEF Apart
    <2> QED
      BY <2>2, <2>4 DEF ms
  <1> QED
    BY <1>11, <1>12

\* A path is classified as the module it lies in.
LEMMA ClassifyIs ==
    ASSUME NEW ms \in Seq(AModule), Apart(ms), NEW i \in 1 .. Len(ms), NEW p \in Seq(STRING),
           IsPrefix(ms[i].path, p)
    PROVE  ClassifyFileToModule(p, ms) = ms[i].name
  <1> DEFINE above == {m \in ToSet(ms) : IsPrefix(m.path, p)}
             m == ms[i]
  <1>1. DOMAIN ms = 1 .. Len(ms) /\ m \in AModule
    OBVIOUS
  <1>2. above = {m}
    BY <1>1 DEF Apart, ToSet
  <1>3. Len(m.path) \in Nat
    BY <1>1 DEF AModule
  <1> HIDE DEF m
  <1>4. (CHOOSE x \in {m} : \A o \in {m} : Len(o.path) =< Len(x.path)) = m
    BY <1>3
  <1> QED
    BY <1>2, <1>4 DEF ClassifyFileToModule, m

\* Each row of a batch is that of a symbol with its id.
LEMMA LastOfIs ==
    ASSUME NEW symbols, Len(symbols) \in Nat, DOMAIN symbols = 1 .. Len(symbols)
    PROVE  /\ DOMAIN LastOf(symbols) = {symbols[i].id : i \in 1 .. Len(symbols)}
           /\ \A id \in DOMAIN LastOf(symbols) : \E i \in 1 .. Len(symbols) :
                 symbols[i].id = id /\ LastOf(symbols)[id] = symbols[i].row
  <1>1. DOMAIN LastOf(symbols) = {symbols[i].id : i \in 1 .. Len(symbols)}
    BY DEF LastOf
  <1>2. ASSUME NEW id \in DOMAIN LastOf(symbols)
        PROVE  \E i \in 1 .. Len(symbols) : symbols[i].id = id /\ LastOf(symbols)[id] = symbols[i].row
    <2> DEFINE S == {i \in DOMAIN symbols : symbols[i].id = id}
    <2>1. S \in SUBSET Int /\ S # {} /\ S \subseteq 1 .. Len(symbols)
      BY <1>1
    <2>2. IsFiniteSet(S)
      <3>1. IsFiniteSet(1 .. Len(symbols))
        BY FS_Interval
      <3> QED
        BY <2>1, <3>1, FS_Subset
    <2>3. LastOf(symbols)[id] = symbols[Max(S)].row
      BY <1>1 DEF LastOf
    <2>4. \A i \in S : symbols[i].id = id
      OBVIOUS
    <2> HIDE DEF S
    <2>5. Max(S) \in S
      <3>1. \E x \in S : \A y \in S : y =< x
        BY <2>1, <2>2, FiniteHasGreatest
      <3>2. \E x \in S : \A y \in S : x >= y
        BY <2>1, <3>1
      <3> QED
        BY <3>2 DEF Max
    <2> QED
      BY <2>1, <2>3, <2>4, <2>5
  <1> QED
    BY <1>1, <1>2

-----------------------------------------------------------------------------
(* The attempt. *)

SymbolsOf(f) == ToSet(Extract(PathOf(f), f.tree, Language[f.suffix]).symbols)

\* A row that some file states, in the module the file lies in.
Stated(id, row) ==
    \E f \in ToSet(files) : \E k \in 1 .. Len(modules) :
        /\ IsPrefix(modules[k].path, f.dir)
        /\ row.path = PathOf(f) /\ row.module = modules[k].name
        /\ [id |-> id, lines |-> row.lines] \in SymbolsOf(f)

IsSequence(s) == Len(s) \in Nat /\ s = [i \in 1 .. Len(s) |-> s[i]]

BatchIds == {batch.symbols[i].id : i \in 1 .. Len(batch.symbols)}

AttemptInv ==
    /\ files \in Repositories
    /\ pc \in {"detect", "read", "rows", "vectors", "edges", "cross", "done", "raised"}
    /\ pc = "detect" => modules = << >> /\ current = 0 /\ parsed = << >> /\ batch = NoBatch
                        /\ rows = << >> /\ points = << >> /\ edges = {}
    /\ pc # "detect" => modules = DetectModules(files)
    /\ pc \in {"read", "rows", "vectors", "edges", "raised"} => current \in 1 .. Len(modules)
    /\ pc \in {"cross", "done"} => current = Len(modules) + 1 /\ batch = NoBatch
    /\ cross = {}

\* The files to read lie in the current module, what was read in it or those before it,
\* and no file is both.
ReadInv ==
    /\ batch.toRead \in Seq(ToSet(files))
    /\ \A i \in 1 .. Len(batch.toRead) : IsPrefix(modules[current].path, batch.toRead[i].dir)
    /\ \A i, j \in 1 .. Len(batch.toRead) : PathOf(batch.toRead[i]) = PathOf(batch.toRead[j]) => i = j
    /\ parsed \in Seq(Seq(STRING))
    /\ \A i \in 1 .. Len(parsed) : \E f \in ToSet(files) : \E k \in 1 .. Len(modules) :
          k =< current /\ parsed[i] = PathOf(f) /\ IsPrefix(modules[k].path, f.dir)
    /\ \A i, j \in 1 .. Len(parsed) : parsed[i] = parsed[j] => i = j
    /\ \A i \in 1 .. Len(batch.toRead), j \in 1 .. Len(parsed) : PathOf(batch.toRead[i]) # parsed[j]

BatchInv ==
    /\ batch = [toRead |-> batch.toRead, symbols |-> batch.symbols, edges |-> batch.edges]
    /\ IsSequence(batch.symbols)
    /\ \A i \in 1 .. Len(batch.symbols) : Stated(batch.symbols[i].id, batch.symbols[i].row)
    /\ \A e \in batch.edges : \E f \in ToSet(files) : EdgeIn(PathOf(f), f.tree, e)

\* Every symbol of a file that was read is stored or in the batch, which is stored before
\* its edges are.
StoreInv ==
    /\ \A id \in DOMAIN rows : Stated(id, rows[id])
    /\ \A id \in DOMAIN points : Stated(id, points[id])
    /\ pc = "vectors" => rows = Upserted(LastOf(batch.symbols), points)
    /\ pc # "vectors" => rows = points
    /\ pc \in {"vectors", "edges"} => BatchIds \subseteq DOMAIN rows
    /\ \A f \in ToSet(files) : PathOf(f) \in ToSet(parsed) =>
          \A s \in SymbolsOf(f) : s.id \in DOMAIN rows \cup BatchIds
    /\ \A e \in edges : /\ e[1] \in DOMAIN rows /\ e[2] \in DOMAIN rows
                        /\ \E f \in ToSet(files) : EdgeIn(PathOf(f), f.tree, e)

AnalysisInv == AttemptInv /\ ReadInv /\ BatchInv /\ StoreInv

LEMMA ModulesOfRun ==
    ASSUME AttemptInv, pc # "detect"
    PROVE  modules \in Seq(AModule) /\ Len(modules) \in Nat \ {0} /\ modules # << >> /\ Apart(modules)
  BY ModulesAre DEF AttemptInv

LEMMA SameStated ==
    ASSUME UNCHANGED <<files, modules>>
    PROVE  \A id, row : Stated(id, row)' <=> Stated(id, row)
  BY DEF Stated, SymbolsOf

\* A new module is entered with an empty batch, and none of its files was read before.
LEMMA EnterKeeps ==
    ASSUME files \in Repositories, UNCHANGED <<files, parsed>>,
           modules' \in Seq(AModule), Apart(modules'),
           NEW n \in Nat \ {0}, n =< Len(modules') + 1, Enter(n, modules'),
           parsed \in Seq(Seq(STRING)),
           \A i, j \in 1 .. Len(parsed) : parsed[i] = parsed[j] => i = j,
           \A i \in 1 .. Len(parsed) : \E f \in ToSet(files) : \E k \in 1 .. Len(modules') :
               k < n /\ parsed[i] = PathOf(f) /\ IsPrefix(modules'[k].path, f.dir)
    PROVE  /\ ReadInv' /\ BatchInv' /\ BatchIds' = {} /\ current' = n
           /\ \/ pc' = "read" /\ n \in 1 .. Len(modules')
              \/ pc' = "cross" /\ n = Len(modules') + 1 /\ batch' = NoBatch
  <1> DEFINE todo == IF n =< Len(modules') THEN FilterFiles(files, modules'[n].path) ELSE << >>
  <1>1. Len(modules') \in Nat /\ \A k \in 1 .. Len(modules') : modules'[k].path \in Seq(STRING)
    <2>1. Len(modules') \in Nat /\ \A k \in 1 .. Len(modules') : modules'[k] \in AModule
      OBVIOUS
    <2> QED
      BY <2>1 DEF AModule
  <1>2. /\ current' = n /\ batch'.toRead = todo /\ batch'.symbols = << >> /\ batch'.edges = {}
        /\ \/ pc' = "read" /\ n \in 1 .. Len(modules')
           \/ pc' = "cross" /\ n = Len(modules') + 1 /\ batch' = NoBatch
    <2>1. CASE n =< Len(modules')
      <3>1. /\ current' = n /\ pc' = "read"
            /\ batch' = [NoBatch EXCEPT !.toRead = FilterFiles(files, modules'[n].path)]
        BY <2>1 DEF Enter
      <3>2. batch' = [toRead |-> FilterFiles(files, modules'[n].path), symbols |-> << >>, edges |-> {}]
        BY <3>1 DEF NoBatch
      <3>3. todo = FilterFiles(files, modules'[n].path)
        BY <2>1
      <3> HIDE DEF todo
      <3>4. batch'.toRead = todo /\ batch'.symbols = << >> /\ batch'.edges = {}
        BY <3>2, <3>3
      <3>5. n \in 1 .. Len(modules')
        BY <1>1, <2>1
      <3> QED
        BY <3>1, <3>4, <3>5
    <2>2. CASE ~ (n =< Len(modules'))
      <3>1. current' = n /\ pc' = "cross" /\ batch' = NoBatch
        BY <2>2 DEF Enter
      <3>2. batch'.toRead = << >> /\ batch'.symbols = << >> /\ batch'.edges = {} /\ todo = << >>
        BY <2>2, <3>1 DEF NoBatch
      <3> QED
        BY <1>1, <2>2, <3>1, <3>2
    <2> QED
      BY <2>1, <2>2
  <1>3. /\ todo \in Seq(ToSet(files)) /\ Len(todo) \in Nat
        /\ \A i \in 1 .. Len(todo) : todo[i] \in ToSet(files) /\ IsPrefix(modules'[n].path, todo[i].dir)
        /\ \A i, j \in 1 .. Len(todo) : PathOf(todo[i]) = PathOf(todo[j]) => i = j
    <2>1. CASE n =< Len(modules')
      <3>1. todo = FilterFiles(files, modules'[n].path)
        BY <2>1
      <3> QED
        BY <3>1, FilterIs
    <2>2. CASE ~ (n =< Len(modules'))
      BY <2>2
    <2> QED
      BY <2>1, <2>2
  <1>4. todo # << >> => n \in 1 .. Len(modules')
    BY <1>1
  <1> HIDE DEF todo
  <1>5. ASSUME NEW i \in 1 .. Len(todo), NEW j \in 1 .. Len(parsed), PathOf(todo[i]) = parsed[j]
        PROVE  FALSE
    <2>1. PICK f \in ToSet(files) : \E k \in 1 .. Len(modules') :
               k < n /\ parsed[j] = PathOf(f) /\ IsPrefix(modules'[k].path, f.dir)
      OBVIOUS
    <2>2. PICK k \in 1 .. Len(modules') : k < n /\ parsed[j] = PathOf(f) /\ IsPrefix(modules'[k].path, f.dir)
      BY <2>1
    <2>3. todo[i] = f
      BY <1>3, <1>5, <2>2, RepositoriesAre
    <2>4. f.dir \in Seq(STRING)
      BY RepositoriesAre, FilesAre
    <2>5. todo # << >>
      BY <1>3
    <2>6. n \in 1 .. Len(modules') /\ IsPrefix(modules'[n].path, f.dir)
      BY <1>3, <1>4, <2>3, <2>5
    <2> QED
      BY <1>1, <2>2, <2>4, <2>6 DEF Apart
  <1>6. ReadInv'
    <2>1. \A i \in 1 .. Len(parsed) : \E f \in ToSet(files) : \E k \in 1 .. Len(modules') :
             k =< n /\ parsed[i] = PathOf(f) /\ IsPrefix(modules'[k].path, f.dir)
      BY <1>1
    <2> QED
      BY <1>2, <1>3, <1>5, <2>1 DEF ReadInv
  <1>7. BatchInv' /\ BatchIds' = {}
    <2>1. batch' = [toRead |-> batch'.toRead, symbols |-> batch'.symbols, edges |-> batch'.edges]
      BY DEF Enter, NoBatch
    <2>2. IsSequence(batch'.symbols) /\ Len(batch'.symbols) = 0
      BY <1>2 DEF IsSequence
    <2> QED
      BY <1>2, <2>1, <2>2 DEF BatchInv, BatchIds
  <1> QED
    BY <1>2, <1>6, <1>7

LEMMA AnalysisInit == Init => AnalysisInv
  <1> SUFFICES ASSUME Init
               PROVE  AnalysisInv
    OBVIOUS
  <1>1. /\ files \in Repositories /\ pc = "detect" /\ modules = << >> /\ current = 0 /\ batch = NoBatch
        /\ rows = << >> /\ points = << >> /\ edges = {} /\ parsed = << >> /\ cross = {}
    BY DEF Init
  <1>2. batch.toRead = << >> /\ batch.symbols = << >> /\ batch.edges = {}
    BY <1>1 DEF NoBatch
  <1>3. BatchInv
    <2>1. batch = [toRead |-> batch.toRead, symbols |-> batch.symbols, edges |-> batch.edges]
      BY <1>1 DEF NoBatch
    <2>2. IsSequence(batch.symbols) /\ Len(batch.symbols) = 0
      BY <1>2 DEF IsSequence
    <2> QED
      BY <1>2, <2>1, <2>2 DEF BatchInv
  <1>4. AttemptInv /\ ReadInv
    BY <1>1, <1>2 DEF AttemptInv, ReadInv
  <1>5. StoreInv
    BY <1>1, <1>2 DEF StoreInv, ToSet
  <1> QED
    BY <1>3, <1>4, <1>5 DEF AnalysisInv

LEMMA DetectKeeps == AnalysisInv /\ Detect => AnalysisInv'
  <1> SUFFICES ASSUME AnalysisInv, Detect
               PROVE  AnalysisInv'
    OBVIOUS
  <1>1. /\ pc = "detect" /\ modules' = DetectModules(files) /\ Enter(1, modules')
        /\ files' = files /\ rows' = rows /\ points' = points /\ edges' = edges
        /\ parsed' = parsed /\ cross' = cross
    BY DEF Detect
  <1>2. /\ files \in Repositories /\ parsed = << >> /\ rows = << >> /\ points = << >> /\ edges = {} /\ cross = {}
    BY <1>1 DEF AnalysisInv, AttemptInv
  <1>3. modules' \in Seq(AModule) /\ Len(modules') \in Nat \ {0} /\ Apart(modules')
    BY <1>1, ModulesAre
  <1>4. /\ ReadInv' /\ BatchInv' /\ BatchIds' = {} /\ current' = 1
        /\ pc' = "read" /\ 1 \in 1 .. Len(modules')
    <2>1. 1 \in Nat \ {0} /\ 1 =< Len(modules') + 1 /\ 1 # Len(modules') + 1
      BY <1>3
    <2>2. parsed \in Seq(Seq(STRING)) /\ \A i \in 1 .. Len(parsed) : FALSE
      BY <1>2
    <2>3. /\ ReadInv' /\ BatchInv' /\ BatchIds' = {} /\ current' = 1
          /\ \/ pc' = "read" /\ 1 \in 1 .. Len(modules')
             \/ pc' = "cross" /\ 1 = Len(modules') + 1 /\ batch' = NoBatch
      BY <1>1, <1>2, <1>3, <2>1, <2>2, EnterKeeps
    <2> QED
      BY <2>1, <2>3
  <1>5. AttemptInv'
    BY <1>1, <1>2, <1>4 DEF AttemptInv
  <1>6. StoreInv'
    <2>1. ToSet(parsed) = {}
      BY <1>2 DEF ToSet
    <2> QED
      BY <1>1, <1>2, <1>4, <2>1 DEF StoreInv
  <1> QED
    BY <1>4, <1>5, <1>6 DEF AnalysisInv

LEMMA IsSequenceOf ==
    ASSUME NEW S, NEW s \in Seq(S)
    PROVE  IsSequence(s)
  BY DEF IsSequence

LEMMA HeadAndTail ==
    ASSUME NEW S, NEW s \in Seq(S), s # << >>
    PROVE  /\ Len(s) \in Nat /\ 1 \in 1 .. Len(s) /\ Head(s) = s[1] /\ Head(s) \in S
           /\ Tail(s) \in Seq(S) /\ Len(Tail(s)) = Len(s) - 1
           /\ \A i \in 1 .. Len(Tail(s)) : \E m \in 1 .. Len(s) : m = i + 1 /\ Tail(s)[i] = s[m]
  OBVIOUS

LEMMA AppendIs ==
    ASSUME NEW S, NEW s \in Seq(S), NEW x \in S
    PROVE  /\ Append(s, x) \in Seq(S) /\ Len(Append(s, x)) = Len(s) + 1 /\ Len(s) \in Nat
           /\ \A i \in 1 .. Len(Append(s, x)) : \/ i \in 1 .. Len(s) /\ Append(s, x)[i] = s[i]
                                                \/ i = Len(s) + 1 /\ Append(s, x)[i] = x
  OBVIOUS

LEMMA ConcatIs ==
    ASSUME NEW s, NEW t, IsSequence(s), IsSequence(t)
    PROVE  /\ IsSequence(s \o t) /\ Len(s \o t) = Len(s) + Len(t)
           /\ \A i \in 1 .. Len(s) : (s \o t)[i] = s[i]
           /\ \A i \in 1 .. Len(t) : (s \o t)[Len(s) + i] = t[i]
           /\ \A i \in 1 .. Len(s \o t) : \/ i \in 1 .. Len(s) /\ (s \o t)[i] = s[i]
                                          \/ \E j \in 1 .. Len(t) : (s \o t)[i] = t[j]
  <1> DEFINE S == {s[i] : i \in 1 .. Len(s)} \cup {t[i] : i \in 1 .. Len(t)}
  <1>1. s \in Seq(S) /\ t \in Seq(S) /\ Len(s) \in Nat /\ Len(t) \in Nat
    <2>1. s \in [1 .. Len(s) -> S] /\ t \in [1 .. Len(t) -> S]
      BY DEF IsSequence
    <2> QED
      BY <2>1 DEF IsSequence
  <1> HIDE DEF S
  <1>2. s \o t \in Seq(S) /\ Len(s \o t) = Len(s) + Len(t)
        /\ \A i \in 1 .. Len(s) + Len(t) : (s \o t)[i] = IF i =< Len(s) THEN s[i] ELSE t[i - Len(s)]
    BY <1>1
  <1>3. IsSequence(s \o t)
    BY <1>2, IsSequenceOf
  <1>4. ASSUME NEW a \in Nat, NEW b \in Nat
        PROVE  /\ \A i \in 1 .. a : i \in 1 .. a + b /\ i =< a
               /\ \A i \in 1 .. b : a + i \in 1 .. a + b /\ ~ (a + i =< a) /\ a + i - a = i
               /\ \A i \in 1 .. a + b : i \in 1 .. a \/ (~ (i =< a) /\ i - a \in 1 .. b)
    <2>1. \A i \in 1 .. a : i \in 1 .. a + b /\ i =< a
      OBVIOUS
    <2>2. \A i \in 1 .. b : a + i \in 1 .. a + b /\ ~ (a + i =< a)
      OBVIOUS
    <2>3. \A i \in 1 .. b : a + i - a = i
      OBVIOUS
    <2>4. \A i \in 1 .. a + b : i \in 1 .. a \/ (~ (i =< a) /\ i - a \in 1 .. b)
      OBVIOUS
    <2> QED
      BY <2>1, <2>2, <2>3, <2>4
  <1>5. \A i \in 1 .. Len(s) : (s \o t)[i] = s[i]
    BY <1>1, <1>2, <1>4
  <1>6. ASSUME NEW i \in 1 .. Len(t)
        PROVE  (s \o t)[Len(s) + i] = t[i]
    <2>1. PICK m : m = Len(s) + i
      OBVIOUS
    <2>2. m \in 1 .. Len(s) + Len(t) /\ ~ (m =< Len(s)) /\ m - Len(s) = i
      BY <1>1, <1>4, <2>1
    <2> QED
      BY <1>2, <2>1, <2>2
  <1>7. ASSUME NEW i \in 1 .. Len(s \o t)
        PROVE  \/ i \in 1 .. Len(s) /\ (s \o t)[i] = s[i]
               \/ \E j \in 1 .. Len(t) : (s \o t)[i] = t[j]
    BY <1>1, <1>2, <1>4, <1>5
  <1> QED
    BY <1>2, <1>3, <1>5, <1>6, <1>7

LEMMA ReadFileKeeps == AnalysisInv /\ ReadFile => AnalysisInv'
  <1> SUFFICES ASSUME AnalysisInv, ReadFile
               PROVE  AnalysisInv'
    OBVIOUS
  <1> DEFINE f == Head(batch.toRead)
             found == Extract(PathOf(f), f.tree, Language[f.suffix])
             here == modules[current].name
             symbol(s) == [id |-> s.id, row |-> [path |-> PathOf(f), lines |-> s.lines, module |-> here]]
             more == [i \in DOMAIN found.symbols |-> symbol(found.symbols[i])]
  <1>1. /\ pc = "read" /\ batch.toRead # << >>
        /\ files' = files /\ modules' = modules /\ pc' = pc /\ current' = current /\ rows' = rows
        /\ points' = points /\ edges' = edges /\ cross' = cross
        /\ \/ f.fails /\ batch' = [batch EXCEPT !.toRead = Tail(@)] /\ parsed' = parsed
           \/ /\ ~ f.fails
              /\ batch' = [toRead |-> Tail(batch.toRead), symbols |-> batch.symbols \o more,
                           edges |-> batch.edges \cup found.edges]
              /\ parsed' = Append(parsed, PathOf(f))
    BY DEF ReadFile
  <1>2. files \in Repositories /\ current \in 1 .. Len(modules) /\ cross = {}
    BY <1>1 DEF AnalysisInv, AttemptInv
  <1>3. modules \in Seq(AModule) /\ Len(modules) \in Nat \ {0} /\ Apart(modules)
    BY <1>1, ModulesOfRun DEF AnalysisInv
  <1>4. /\ batch.toRead \in Seq(ToSet(files)) /\ parsed \in Seq(Seq(STRING))
        /\ batch = [toRead |-> batch.toRead, symbols |-> batch.symbols, edges |-> batch.edges]
        /\ IsSequence(batch.symbols)
    BY DEF AnalysisInv, ReadInv, BatchInv
  <1>5. /\ f \in ToSet(files) /\ f = batch.toRead[1] /\ 1 \in 1 .. Len(batch.toRead)
        /\ Tail(batch.toRead) \in Seq(ToSet(files)) /\ Len(Tail(batch.toRead)) = Len(batch.toRead) - 1
        /\ \A i \in 1 .. Len(Tail(batch.toRead)) : \E m \in 1 .. Len(batch.toRead) :
              m = i + 1 /\ Tail(batch.toRead)[i] = batch.toRead[m]
    BY <1>1, <1>4, HeadAndTail
  <1>6. PathOf(f) \in Seq(STRING) /\ IsTree(f.tree) /\ IsPrefix(modules[current].path, f.dir)
    <2>1. f \in File /\ IsTree(f.tree)
      BY <1>2, <1>5, RepositoriesAre
    <2>2. IsPrefix(modules[current].path, f.dir)
      BY <1>5 DEF AnalysisInv, ReadInv
    <2> QED
      BY <2>1, <2>2, FilesAre
  <1>7. /\ Len(found.symbols) \in Nat /\ DOMAIN found.symbols = 1 .. Len(found.symbols)
        /\ \A i \in 1 .. Len(found.symbols) : SymbolIn(PathOf(f), f.tree, found.symbols[i])
        /\ \A e \in found.edges : EdgeIn(PathOf(f), f.tree, e)
    BY <1>6, ExtractIs
  <1>8. IsSequence(more) /\ Len(more) = Len(found.symbols)
        /\ \A i \in 1 .. Len(found.symbols) : more[i] = symbol(found.symbols[i])
    <2> HIDE DEF symbol, found
    <2> QED
      BY <1>7 DEF IsSequence
  <1>9. SymbolsOf(f) = {found.symbols[i] : i \in 1 .. Len(found.symbols)}
    BY <1>7 DEF SymbolsOf, ToSet
  <1> HIDE DEF found, more, f
  <1>10. batch'.toRead = Tail(batch.toRead)
    BY <1>1, <1>4
  <1>11. \A id, row : Stated(id, row)' <=> Stated(id, row)
    BY <1>1, SameStated
  <1>12. AttemptInv'
    BY <1>1 DEF AnalysisInv, AttemptInv
  <1>13. /\ batch'.toRead \in Seq(ToSet(files))
         /\ \A i \in 1 .. Len(batch'.toRead) : \E m \in 1 .. Len(batch.toRead) :
               m = i + 1 /\ batch'.toRead[i] = batch.toRead[m]
    BY <1>5, <1>10
  <1>14. /\ \A i \in 1 .. Len(batch'.toRead) : IsPrefix(modules[current].path, batch'.toRead[i].dir)
         /\ \A i, j \in 1 .. Len(batch'.toRead) : PathOf(batch'.toRead[i]) = PathOf(batch'.toRead[j]) => i = j
         /\ \A i \in 1 .. Len(batch'.toRead) : PathOf(batch'.toRead[i]) # PathOf(f)
         /\ \A i \in 1 .. Len(batch'.toRead), j \in 1 .. Len(parsed) : PathOf(batch'.toRead[i]) # parsed[j]
    <2>1. /\ \A i \in 1 .. Len(batch.toRead) : IsPrefix(modules[current].path, batch.toRead[i].dir)
          /\ \A i, j \in 1 .. Len(batch.toRead) : PathOf(batch.toRead[i]) = PathOf(batch.toRead[j]) => i = j
          /\ \A i \in 1 .. Len(batch.toRead), j \in 1 .. Len(parsed) : PathOf(batch.toRead[i]) # parsed[j]
      BY DEF AnalysisInv, ReadInv
    <2>2. \A i, j \in 1 .. Len(batch'.toRead) : i + 1 = j + 1 => i = j
      OBVIOUS
    <2>3. ASSUME NEW i \in 1 .. Len(batch'.toRead), NEW j \in 1 .. Len(batch'.toRead),
                 PathOf(batch'.toRead[i]) = PathOf(batch'.toRead[j])
          PROVE  i = j
      <3>1. PICK m \in 1 .. Len(batch.toRead) : m = i + 1 /\ batch'.toRead[i] = batch.toRead[m]
        BY <1>13
      <3>2. PICK n \in 1 .. Len(batch.toRead) : n = j + 1 /\ batch'.toRead[j] = batch.toRead[n]
        BY <1>13
      <3>3. m = n
        BY <2>1, <2>3, <3>1, <3>2
      <3> QED
        BY <2>2, <3>1, <3>2, <3>3
    <2>4. ASSUME NEW i \in 1 .. Len(batch'.toRead)
          PROVE  /\ IsPrefix(modules[current].path, batch'.toRead[i].dir)
                 /\ PathOf(batch'.toRead[i]) # PathOf(f)
                 /\ \A j \in 1 .. Len(parsed) : PathOf(batch'.toRead[i]) # parsed[j]
      <3>1. PICK m \in 1 .. Len(batch.toRead) : m = i + 1 /\ batch'.toRead[i] = batch.toRead[m]
        BY <1>13
      <3>2. m # 1
        BY <3>1
      <3> QED
        BY <1>5, <2>1, <3>1, <3>2
    <2> QED
      BY <2>3, <2>4
  <1>15. CASE f.fails
    <2>1. parsed' = parsed /\ batch'.symbols = batch.symbols /\ batch'.edges = batch.edges
          /\ batch' = [toRead |-> batch'.toRead, symbols |-> batch'.symbols, edges |-> batch'.edges]
      BY <1>1, <1>4, <1>15
    <2>2. ReadInv'
      BY <1>1, <1>13, <1>14, <2>1 DEF AnalysisInv, ReadInv
    <2>3. BatchInv'
      BY <1>1, <1>11, <2>1 DEF AnalysisInv, BatchInv
    <2>4. StoreInv'
      <3>1. BatchIds' = BatchIds
        BY <2>1 DEF BatchIds
      <3> QED
        BY <1>1, <1>11, <2>1, <3>1 DEF AnalysisInv, StoreInv
    <2> QED
      BY <1>12, <2>2, <2>3, <2>4 DEF AnalysisInv
  <1>16. CASE ~ f.fails
    <2>1. /\ parsed' = Append(parsed, PathOf(f))
          /\ batch'.symbols = batch.symbols \o more /\ batch'.edges = batch.edges \cup found.edges
          /\ batch' = [toRead |-> batch'.toRead, symbols |-> batch'.symbols, edges |-> batch'.edges]
      BY <1>1, <1>16
    <2>2. /\ parsed' \in Seq(Seq(STRING)) /\ Len(parsed') = Len(parsed) + 1 /\ Len(parsed) \in Nat
          /\ \A i \in 1 .. Len(parsed') :
                \/ i \in 1 .. Len(parsed) /\ parsed'[i] = parsed[i]
                \/ i = Len(parsed) + 1 /\ parsed'[i] = PathOf(f)
      <3> DEFINE x == PathOf(f)
                 s == parsed
      <3>1. parsed' = Append(s, x) /\ s \in Seq(Seq(STRING)) /\ x \in Seq(STRING)
        BY <1>4, <1>6, <2>1
      <3> HIDE DEF s, x
      <3>2. /\ Append(s, x) \in Seq(Seq(STRING)) /\ Len(Append(s, x)) = Len(s) + 1 /\ Len(s) \in Nat
            /\ \A i \in 1 .. Len(Append(s, x)) : \/ i \in 1 .. Len(s) /\ Append(s, x)[i] = s[i]
                                                 \/ i = Len(s) + 1 /\ Append(s, x)[i] = x
        BY <3>1, AppendIs
      <3> QED
        BY <3>1, <3>2 DEF s, x
    <2>3. \A j \in 1 .. Len(parsed) : parsed[j] # PathOf(f)
      BY <1>5 DEF AnalysisInv, ReadInv
    <2>4. ReadInv'
      <3>1. \A i \in 1 .. Len(parsed') : \E g \in ToSet(files) : \E k \in 1 .. Len(modules) :
               k =< current /\ parsed'[i] = PathOf(g) /\ IsPrefix(modules[k].path, g.dir)
        <4> SUFFICES ASSUME NEW i \in 1 .. Len(parsed')
                     PROVE  \E g \in ToSet(files) : \E k \in 1 .. Len(modules) :
                               k =< current /\ parsed'[i] = PathOf(g) /\ IsPrefix(modules[k].path, g.dir)
          OBVIOUS
        <4>1. CASE i \in 1 .. Len(parsed) /\ parsed'[i] = parsed[i]
          BY <4>1 DEF AnalysisInv, ReadInv
        <4>2. CASE parsed'[i] = PathOf(f)
          <5>1. current =< current
            BY <1>2
          <5> QED
            BY <1>2, <1>5, <1>6, <4>2, <5>1
        <4> QED
          BY <2>2, <4>1, <4>2
      <3>2. \A i, j \in 1 .. Len(parsed') : parsed'[i] = parsed'[j] => i = j
        <4>1. \A i, j \in 1 .. Len(parsed) : parsed[i] = parsed[j] => i = j
          BY DEF AnalysisInv, ReadInv
        <4> QED
          BY <2>2, <2>3, <4>1
      <3>3. \A i \in 1 .. Len(batch'.toRead), j \in 1 .. Len(parsed') : PathOf(batch'.toRead[i]) # parsed'[j]
        BY <1>14, <2>2
      <3> QED
        BY <1>1, <1>13, <1>14, <2>2, <3>1, <3>2, <3>3 DEF ReadInv
    <2>5. /\ IsSequence(batch'.symbols)
          /\ \A i \in 1 .. Len(batch.symbols) : Len(batch'.symbols) \in Nat /\ i \in 1 .. Len(batch'.symbols)
                                                /\ batch'.symbols[i] = batch.symbols[i]
          /\ \A i \in 1 .. Len(more) : \E j \in 1 .. Len(batch'.symbols) : batch'.symbols[j] = more[i]
          /\ \A i \in 1 .. Len(batch'.symbols) :
                \/ i \in 1 .. Len(batch.symbols) /\ batch'.symbols[i] = batch.symbols[i]
                \/ \E j \in 1 .. Len(more) : batch'.symbols[i] = more[j]
      <3> DEFINE s == batch.symbols
                 u == s \o more
      <3>1. /\ IsSequence(u) /\ Len(u) = Len(s) + Len(more)
            /\ \A i \in 1 .. Len(s) : u[i] = s[i]
            /\ \A i \in 1 .. Len(more) : u[Len(s) + i] = more[i]
            /\ \A i \in 1 .. Len(u) : (i \in 1 .. Len(s) /\ u[i] = s[i]) \/ \E j \in 1 .. Len(more) : u[i] = more[j]
        <4>1. IsSequence(s) /\ IsSequence(more)
          BY <1>4, <1>8
        <4> HIDE DEF s
        <4> QED
          BY <4>1, ConcatIs
      <3>2. batch'.symbols = u /\ Len(s) \in Nat /\ Len(more) \in Nat
        BY <1>4, <1>8, <2>1 DEF IsSequence
      <3> HIDE DEF s, u
      <3>3. \A i \in 1 .. Len(s) : i \in 1 .. Len(u)
        BY <3>1, <3>2
      <3>4. \A i \in 1 .. Len(more) : Len(s) + i \in 1 .. Len(u)
        BY <3>1, <3>2
      <3>5. \A i \in 1 .. Len(more) : \E j \in 1 .. Len(u) : u[j] = more[i]
        BY <3>1, <3>4
      <3> QED
        BY <3>1, <3>2, <3>3, <3>5 DEF s, IsSequence
    <2>6. \A j \in 1 .. Len(more) : Stated(more[j].id, more[j].row)
      <3> SUFFICES ASSUME NEW j \in 1 .. Len(more)
                   PROVE  Stated(more[j].id, more[j].row)
        OBVIOUS
      <3>1. more[j] = symbol(found.symbols[j]) /\ found.symbols[j] \in SymbolsOf(f)
            /\ found.symbols[j] = [id |-> found.symbols[j].id, lines |-> found.symbols[j].lines]
        BY <1>7, <1>8, <1>9 DEF SymbolIn
      <3>2. /\ more[j].id = found.symbols[j].id
            /\ more[j].row = [path |-> PathOf(f), lines |-> found.symbols[j].lines, module |-> here]
        BY <3>1
      <3>3. [id |-> more[j].id, lines |-> more[j].row.lines] \in SymbolsOf(f)
        BY <3>1, <3>2
      <3>4. more[j].row.path = PathOf(f) /\ more[j].row.module = modules[current].name
        BY <3>2
      <3> QED
        BY <1>2, <1>5, <1>6, <3>3, <3>4 DEF Stated
    <2>7. BatchInv'
      <3>1. \A i \in 1 .. Len(batch'.symbols) : Stated(batch'.symbols[i].id, batch'.symbols[i].row)
        <4>1. \A i \in 1 .. Len(batch.symbols) : Stated(batch.symbols[i].id, batch.symbols[i].row)
          BY DEF AnalysisInv, BatchInv
        <4> QED
          BY <2>5, <2>6, <4>1
      <3>2. \A e \in batch'.edges : \E g \in ToSet(files) : EdgeIn(PathOf(g), g.tree, e)
        <4>1. \A e \in batch.edges : \E g \in ToSet(files) : EdgeIn(PathOf(g), g.tree, e)
          BY DEF AnalysisInv, BatchInv
        <4> QED
          BY <1>5, <1>7, <2>1, <4>1
      <3> QED
        BY <1>1, <1>11, <2>1, <2>5, <3>1, <3>2 DEF BatchInv
    <2>8. StoreInv'
      <3>1. BatchIds \subseteq BatchIds' /\ \A i \in 1 .. Len(more) : more[i].id \in BatchIds'
        <4>1. \A i \in 1 .. Len(batch.symbols) : batch.symbols[i].id \in BatchIds'
          BY <2>5 DEF BatchIds
        <4>2. \A i \in 1 .. Len(more) : more[i].id \in BatchIds'
          <5> SUFFICES ASSUME NEW i \in 1 .. Len(more)
                       PROVE  more[i].id \in BatchIds'
            OBVIOUS
          <5>1. PICK j \in 1 .. Len(batch'.symbols) : batch'.symbols[j] = more[i]
            BY <2>5
          <5> QED
            BY <5>1 DEF BatchIds
        <4>3. ASSUME NEW id \in BatchIds
              PROVE  id \in BatchIds'
          <5>1. PICK i \in 1 .. Len(batch.symbols) : id = batch.symbols[i].id
            BY DEF BatchIds
          <5> QED
            BY <4>1, <5>1
        <4>4. BatchIds \subseteq BatchIds'
          BY <4>3
        <4> QED
          BY <4>2, <4>4
      <3>2. \A s \in SymbolsOf(f) : s.id \in BatchIds'
        <4>1. ASSUME NEW i \in 1 .. Len(more)
              PROVE  more[i].id = found.symbols[i].id
          <5>1. more[i] = symbol(found.symbols[i])
            BY <1>8
          <5> QED
            BY <5>1
        <4> QED
          BY <1>8, <1>9, <3>1, <4>1
      <3>3. ASSUME NEW g \in ToSet(files), PathOf(g) \in ToSet(parsed')
            PROVE  \A s \in SymbolsOf(g) : s.id \in DOMAIN rows \cup BatchIds'
        <4>1. PathOf(g) \in ToSet(parsed) \/ PathOf(g) = PathOf(f)
          <5>1. DOMAIN parsed' = 1 .. Len(parsed') /\ DOMAIN parsed = 1 .. Len(parsed)
            BY <1>4, <2>2
          <5> QED
            BY <2>2, <3>3, <5>1 DEF ToSet
        <4>2. CASE PathOf(g) \in ToSet(parsed)
          BY <3>1, <4>2 DEF AnalysisInv, StoreInv
        <4>3. CASE PathOf(g) = PathOf(f)
          <5>1. g = f
            BY <1>2, <1>5, <4>3, RepositoriesAre
          <5> QED
            BY <3>2, <5>1
        <4> QED
          BY <4>1, <4>2, <4>3
      <3>4. \A g \in ToSet(files) : SymbolsOf(g)' = SymbolsOf(g)
        BY DEF SymbolsOf
      <3> QED
        BY <1>1, <1>11, <3>3 DEF AnalysisInv, StoreInv
    <2> QED
      BY <1>12, <2>4, <2>7, <2>8 DEF AnalysisInv
  <1> QED
    BY <1>15, <1>16

\* A step that leaves the batch alone.
LEMMA BatchKept ==
    ASSUME AnalysisInv, UNCHANGED <<files, modules, batch, parsed, current>>
    PROVE  /\ ReadInv' /\ BatchInv' /\ BatchIds' = BatchIds
           /\ \A id, row : Stated(id, row)' <=> Stated(id, row)
  <1>1. \A id, row : Stated(id, row)' <=> Stated(id, row)
    BY SameStated
  <1>2. ReadInv'
    BY DEF AnalysisInv, ReadInv
  <1>3. BatchInv'
    BY <1>1 DEF AnalysisInv, BatchInv
  <1> QED
    BY <1>1, <1>2, <1>3 DEF BatchIds

\* The rows of the batch are stated by the files it was read from.
LEMMA UpsertIs ==
    ASSUME BatchInv, NEW table, \A id \in DOMAIN table : Stated(id, table[id])
    PROVE  LET new == Upserted(LastOf(batch.symbols), table)
           IN  /\ DOMAIN new = BatchIds \cup DOMAIN table
               /\ \A id \in DOMAIN new : Stated(id, new[id])
  <1> DEFINE last == LastOf(batch.symbols)
             new == Upserted(last, table)
  <1>1. Len(batch.symbols) \in Nat /\ DOMAIN batch.symbols = 1 .. Len(batch.symbols)
    BY DEF BatchInv, IsSequence
  <1>2. /\ DOMAIN last = BatchIds
        /\ \A id \in DOMAIN last : \E i \in 1 .. Len(batch.symbols) :
              batch.symbols[i].id = id /\ last[id] = batch.symbols[i].row
    BY <1>1, LastOfIs DEF BatchIds
  <1> HIDE DEF last
  <1>3. /\ DOMAIN new = DOMAIN last \cup DOMAIN table
        /\ \A id \in DOMAIN last : new[id] = last[id]
        /\ \A id \in DOMAIN table \ DOMAIN last : new[id] = table[id]
    BY DEF new, Upserted
  <1> HIDE DEF new
  <1>4. \A id \in DOMAIN last : Stated(id, last[id])
    <2> SUFFICES ASSUME NEW id \in DOMAIN last
                 PROVE  Stated(id, last[id])
      OBVIOUS
    <2>1. PICK i \in 1 .. Len(batch.symbols) : batch.symbols[i].id = id /\ last[id] = batch.symbols[i].row
      BY <1>2
    <2>2. Stated(batch.symbols[i].id, batch.symbols[i].row)
      BY DEF BatchInv
    <2> QED
      BY <2>1, <2>2
  <1>5. \A id \in DOMAIN new : Stated(id, new[id])
    BY <1>3, <1>4
  <1> QED
    BY <1>2, <1>3, <1>5 DEF new, last

LEMMA AllReadKeeps == AnalysisInv /\ AllRead => AnalysisInv'
  <1> SUFFICES ASSUME AnalysisInv, AllRead
               PROVE  AnalysisInv'
    OBVIOUS
  <1>1. /\ pc = "read"
        /\ \/ pc' = "rows"
           \/ pc' = "edges" /\ batch.symbols = << >>
        /\ UNCHANGED <<files, modules, current, batch, rows, points, edges, parsed, cross>>
    BY DEF AllRead
  <1>2. /\ ReadInv' /\ BatchInv' /\ BatchIds' = BatchIds
        /\ \A id, row : Stated(id, row)' <=> Stated(id, row)
    BY <1>1, BatchKept
  <1>3. AttemptInv'
    BY <1>1 DEF AnalysisInv, AttemptInv
  <1>4. pc' = "edges" => BatchIds = {}
    BY <1>1 DEF BatchIds
  <1>5. StoreInv'
    <2>1. \A f \in ToSet(files) : SymbolsOf(f)' = SymbolsOf(f)
      BY DEF SymbolsOf
    <2> QED
      BY <1>1, <1>2, <1>4, <2>1 DEF AnalysisInv, StoreInv
  <1> QED
    BY <1>2, <1>3, <1>5 DEF AnalysisInv

LEMMA UpsertSymbolsKeeps == AnalysisInv /\ UpsertSymbolsBatch => AnalysisInv'
  <1> SUFFICES ASSUME AnalysisInv, UpsertSymbolsBatch
               PROVE  AnalysisInv'
    OBVIOUS
  <1> DEFINE new == Upserted(LastOf(batch.symbols), points)
  <1>1. /\ pc = "rows"
        /\ \/ pc' = "raised" /\ rows' = rows
           \/ pc' = "vectors" /\ rows' = Upserted(LastOf(batch.symbols), rows)
        /\ UNCHANGED <<files, modules, current, batch, points, edges, parsed, cross>>
    BY DEF UpsertSymbolsBatch
  <1>2. /\ ReadInv' /\ BatchInv' /\ BatchIds' = BatchIds
        /\ \A id, row : Stated(id, row)' <=> Stated(id, row)
    BY <1>1, BatchKept
  <1>3. AttemptInv'
    BY <1>1 DEF AnalysisInv, AttemptInv
  <1>4. rows = points /\ BatchInv /\ \A id \in DOMAIN points : Stated(id, points[id])
    BY <1>1 DEF AnalysisInv, StoreInv
  <1>5. DOMAIN new = BatchIds \cup DOMAIN points /\ \A id \in DOMAIN new : Stated(id, new[id])
    BY <1>4, UpsertIs
  <1>6. (pc' = "raised" /\ rows' = points) \/ (pc' = "vectors" /\ rows' = new)
    BY <1>1, <1>4
  <1>7. pc' = "vectors" => rows' = Upserted(LastOf(batch'.symbols), points')
    BY <1>1, <1>6
  <1> HIDE DEF new
  <1>8. StoreInv'
    <2>1. DOMAIN rows \subseteq DOMAIN rows' /\ \A id \in DOMAIN rows' : Stated(id, rows'[id])
      BY <1>4, <1>5, <1>6
    <2>2. pc' = "vectors" => BatchIds \subseteq DOMAIN rows'
      BY <1>5, <1>6
    <2>3. \A f \in ToSet(files) : SymbolsOf(f)' = SymbolsOf(f)
      BY DEF SymbolsOf
    <2>4. pc' # "vectors" => rows' = points
      BY <1>6
    <2> QED
      BY <1>1, <1>2, <1>4, <1>7, <2>1, <2>2, <2>3, <2>4 DEF AnalysisInv, StoreInv
  <1> QED
    BY <1>2, <1>3, <1>8 DEF AnalysisInv

LEMMA UpsertEmbeddingsKeeps == AnalysisInv /\ UpsertEmbeddings => AnalysisInv'
  <1> SUFFICES ASSUME AnalysisInv, UpsertEmbeddings
               PROVE  AnalysisInv'
    OBVIOUS
  <1>1. /\ pc = "vectors" /\ pc' = "edges" /\ points' = Upserted(LastOf(batch.symbols), points)
        /\ UNCHANGED <<files, modules, current, batch, rows, edges, parsed, cross>>
    BY DEF UpsertEmbeddings
  <1>2. /\ ReadInv' /\ BatchInv' /\ BatchIds' = BatchIds
        /\ \A id, row : Stated(id, row)' <=> Stated(id, row)
    BY <1>1, BatchKept
  <1>3. AttemptInv'
    BY <1>1 DEF AnalysisInv, AttemptInv
  <1>4. points' = rows /\ rows' = rows
    BY <1>1 DEF AnalysisInv, StoreInv
  <1>5. StoreInv'
    <2>1. \A f \in ToSet(files) : SymbolsOf(f)' = SymbolsOf(f)
      BY DEF SymbolsOf
    <2>2. files' = files /\ parsed' = parsed /\ edges' = edges /\ pc = "vectors" /\ pc' = "edges"
      BY <1>1
    <2> QED
      BY <1>2, <1>4, <2>1, <2>2 DEF AnalysisInv, StoreInv
  <1> QED
    BY <1>2, <1>3, <1>5 DEF AnalysisInv

LEMMA InsertEdgesKeeps == AnalysisInv /\ InsertEdges => AnalysisInv'
  <1> SUFFICES ASSUME AnalysisInv, InsertEdges
               PROVE  AnalysisInv'
    OBVIOUS
  <1>1. /\ pc = "edges" /\ edges' = edges \cup BuildGraph(batch.symbols, batch.edges)
        /\ Enter(current + 1, modules)
        /\ UNCHANGED <<files, modules, rows, points, parsed, cross>>
    BY DEF InsertEdges
  <1>2. files \in Repositories /\ current \in 1 .. Len(modules)
    BY <1>1 DEF AnalysisInv, AttemptInv
  <1>3. modules \in Seq(AModule) /\ Len(modules) \in Nat \ {0} /\ Apart(modules)
    BY <1>1, ModulesOfRun DEF AnalysisInv
  <1>4. /\ ReadInv' /\ BatchInv' /\ BatchIds' = {} /\ current' = current + 1
        /\ \/ pc' = "read" /\ current + 1 \in 1 .. Len(modules)
           \/ pc' = "cross" /\ current + 1 = Len(modules) + 1 /\ batch' = NoBatch
    <2> DEFINE n == current + 1
    <2>1. n \in Nat \ {0} /\ n =< Len(modules) + 1 /\ \A k \in 1 .. Len(modules) : k =< current => k < n
      BY <1>2, <1>3
    <2>2. /\ parsed \in Seq(Seq(STRING))
          /\ \A i, j \in 1 .. Len(parsed) : parsed[i] = parsed[j] => i = j
          /\ \A i \in 1 .. Len(parsed) : \E f \in ToSet(files) : \E k \in 1 .. Len(modules) :
                k =< current /\ parsed[i] = PathOf(f) /\ IsPrefix(modules[k].path, f.dir)
      BY DEF AnalysisInv, ReadInv
    <2>3. Enter(n, modules) /\ modules' = modules /\ UNCHANGED <<files, parsed>>
      BY <1>1
    <2> HIDE DEF n
    <2>4. \A i \in 1 .. Len(parsed) : \E f \in ToSet(files) : \E k \in 1 .. Len(modules) :
             k < n /\ parsed[i] = PathOf(f) /\ IsPrefix(modules[k].path, f.dir)
      BY <2>1, <2>2
    <2>5. /\ ReadInv' /\ BatchInv' /\ BatchIds' = {} /\ current' = n
          /\ \/ pc' = "read" /\ n \in 1 .. Len(modules')
             \/ pc' = "cross" /\ n = Len(modules') + 1 /\ batch' = NoBatch
      BY <1>2, <1>3, <2>1, <2>2, <2>3, <2>4, EnterKeeps
    <2> QED
      BY <2>3, <2>5 DEF n
  <1>5. AttemptInv'
    BY <1>1, <1>4 DEF AnalysisInv, AttemptInv
  <1>6. \A id, row : Stated(id, row)' <=> Stated(id, row)
    BY <1>1, SameStated
  <1>7. /\ BatchIds \subseteq DOMAIN rows /\ rows = points
        /\ \A e \in batch.edges : \E f \in ToSet(files) : EdgeIn(PathOf(f), f.tree, e)
    BY <1>1 DEF AnalysisInv, StoreInv, BatchInv
  <1>8. \A e \in BuildGraph(batch.symbols, batch.edges) :
           e[1] \in DOMAIN rows /\ e[2] \in DOMAIN rows /\ e \in batch.edges
    <2>1. DOMAIN batch.symbols = 1 .. Len(batch.symbols)
      BY DEF AnalysisInv, BatchInv, IsSequence
    <2> QED
      BY <1>7, <2>1 DEF BuildGraph, ValidateEdge, BatchIds
  <1>9. StoreInv'
    <2>1. \A f \in ToSet(files) : SymbolsOf(f)' = SymbolsOf(f)
      BY DEF SymbolsOf
    <2>2. \A e \in edges' : /\ e[1] \in DOMAIN rows /\ e[2] \in DOMAIN rows
                            /\ \E f \in ToSet(files) : EdgeIn(PathOf(f), f.tree, e)
      BY <1>1, <1>7, <1>8 DEF AnalysisInv, StoreInv
    <2>3. pc' \notin {"vectors", "edges"}
      BY <1>4
    <2>4. \A f \in ToSet(files) : PathOf(f) \in ToSet(parsed) => \A s \in SymbolsOf(f) : s.id \in DOMAIN rows
      BY <1>7 DEF AnalysisInv, StoreInv
    <2>5. files' = files /\ parsed' = parsed /\ rows' = rows /\ points' = points
      BY <1>1
    <2> QED
      BY <1>4, <1>6, <1>7, <2>1, <2>2, <2>3, <2>4, <2>5 DEF AnalysisInv, StoreInv
  <1> QED
    BY <1>4, <1>5, <1>9 DEF AnalysisInv

\* The id of a row begins with its path, the row's module is the one its path is
\* classified to.
LEMMA StatedIs ==
    ASSUME files \in Repositories, modules = DetectModules(files), NEW id, NEW row, Stated(id, row)
    PROVE  /\ \E f \in ToSet(files) :
                 /\ row.path = PathOf(f) /\ [id |-> id, lines |-> row.lines] \in SymbolsOf(f)
                 /\ \E n \in 1 .. Len(f.tree), type \in SymbolTypes : id = IdOf(row.path, f.tree[n].name, type)
           /\ id[1] = row.path
           /\ row.lines[1] \in Nat \ {0} /\ row.lines[1] =< row.lines[2]
           /\ row.module \in {m.name : m \in ToSet(modules)}
           /\ row.module = ClassifyFileToModule(row.path, modules)
  <1>1. PICK f \in ToSet(files) : \E k \in 1 .. Len(modules) :
           /\ IsPrefix(modules[k].path, f.dir)
           /\ row.path = PathOf(f) /\ row.module = modules[k].name
           /\ [id |-> id, lines |-> row.lines] \in SymbolsOf(f)
    BY DEF Stated
  <1>2. PICK k \in 1 .. Len(modules) :
           /\ IsPrefix(modules[k].path, f.dir)
           /\ row.path = PathOf(f) /\ row.module = modules[k].name
           /\ [id |-> id, lines |-> row.lines] \in SymbolsOf(f)
    BY <1>1
  <1>3. f \in File /\ IsTree(f.tree)
    BY RepositoriesAre
  <1>4. SymbolIn(PathOf(f), f.tree, [id |-> id, lines |-> row.lines])
    <2> DEFINE E == Extract(PathOf(f), f.tree, Language[f.suffix])
    <2>1. DOMAIN E.symbols = 1 .. Len(E.symbols) /\ \A i \in 1 .. Len(E.symbols) : SymbolIn(PathOf(f), f.tree, E.symbols[i])
      BY <1>3, ExtractIs
    <2>2. [id |-> id, lines |-> row.lines] \in ToSet(E.symbols)
      BY <1>2 DEF SymbolsOf
    <2> HIDE DEF E
    <2> QED
      BY <2>1, <2>2 DEF ToSet
  <1>5. /\ \E n \in 1 .. Len(f.tree), type \in SymbolTypes : id = IdOf(PathOf(f), f.tree[n].name, type)
        /\ row.lines[1] \in Nat \ {0} /\ row.lines[1] =< row.lines[2]
    BY <1>4 DEF SymbolIn
  <1>6. id[1] = PathOf(f)
    BY <1>5 DEF IdOf
  <1>7. modules \in Seq(AModule) /\ Apart(modules) /\ modules[k] \in AModule /\ modules[k] \in ToSet(modules)
    <2>1. modules \in Seq(AModule) /\ Apart(modules)
      BY ModulesAre
    <2> QED
      BY <2>1 DEF ToSet
  <1>8. IsPrefix(modules[k].path, PathOf(f))
    <2>1. modules[k].path \in Seq(STRING) /\ f.dir \in Seq(STRING) /\ PathOf(f) \in Seq(STRING)
          /\ Len(f.dir) \in Nat /\ Len(PathOf(f)) = Len(f.dir) + 1
          /\ \A i \in 1 .. Len(f.dir) : PathOf(f)[i] = f.dir[i]
      BY <1>3, <1>7, FilesAre DEF AModule
    <2>2. Len(modules[k].path) \in Nat /\ Len(modules[k].path) =< Len(f.dir)
          /\ \A i \in 1 .. Len(modules[k].path) : modules[k].path[i] = f.dir[i]
      BY <1>2, <2>1, PrefixIs
    <2>3. Len(modules[k].path) =< Len(PathOf(f))
          /\ \A i \in 1 .. Len(modules[k].path) : modules[k].path[i] = PathOf(f)[i]
      <3>1. \A i \in 1 .. Len(modules[k].path) : i \in 1 .. Len(f.dir)
        BY <2>1, <2>2
      <3>2. \A i \in 1 .. Len(modules[k].path) : modules[k].path[i] = PathOf(f)[i]
        BY <2>1, <2>2, <3>1
      <3> QED
        BY <2>1, <2>2, <3>2
    <2> QED
      BY <2>1, <2>3, PrefixIs
  <1>9. row.module = ClassifyFileToModule(row.path, modules)
    <2>1. PathOf(f) \in Seq(STRING)
      BY <1>3, FilesAre
    <2> QED
      BY <1>2, <1>7, <1>8, <2>1, ClassifyIs
  <1>10. row.module \in {m.name : m \in ToSet(modules)}
    BY <1>2, <1>7
  <1> QED
    BY <1>2, <1>5, <1>6, <1>9, <1>10

\* Both ends of a stored edge have rows of the file it was found in.
LEMMA EdgesStayInFiles ==
    ASSUME AttemptInv, StoreInv, pc # "detect", NEW e \in edges
    PROVE  \E f \in ToSet(files) :
              /\ EdgeIn(PathOf(f), f.tree, e)
              /\ e[1] \in DOMAIN rows /\ e[2] \in DOMAIN rows
              /\ rows[e[1]].path = PathOf(f) /\ rows[e[2]].path = PathOf(f)
  <1>1. e[1] \in DOMAIN rows /\ e[2] \in DOMAIN rows
    BY DEF StoreInv
  <1>2. PICK f \in ToSet(files) : EdgeIn(PathOf(f), f.tree, e)
    BY DEF StoreInv
  <1>3. e[1][1] = PathOf(f) /\ e[2][1] = PathOf(f)
    BY <1>2 DEF EdgeIn, IdOf
  <1>4. \A id \in DOMAIN rows : id[1] = rows[id].path
    BY StatedIs DEF AttemptInv, StoreInv
  <1> QED
    BY <1>1, <1>2, <1>3, <1>4

LEMMA CrossKeeps == AnalysisInv /\ DetectAndStoreCrossModuleDeps => AnalysisInv'
  <1> SUFFICES ASSUME AnalysisInv, DetectAndStoreCrossModuleDeps
               PROVE  AnalysisInv'
    OBVIOUS
  <1> DEFINE moduleOf == [id \in DOMAIN rows |-> ClassifyFileToModule(rows[id].path, modules)]
  <1>1. /\ pc = "cross" /\ pc' = "done" /\ cross' = DetectCrossModuleDependencies(moduleOf, edges)
        /\ UNCHANGED <<files, modules, current, batch, rows, points, edges, parsed>>
    BY DEF DetectAndStoreCrossModuleDeps
  <1>2. /\ ReadInv' /\ BatchInv' /\ BatchIds' = BatchIds
        /\ \A id, row : Stated(id, row)' <=> Stated(id, row)
    BY <1>1, BatchKept
  <1>3. cross' = {}
    <2> SUFFICES ASSUME NEW e \in edges
                 PROVE  moduleOf[e[1]] = moduleOf[e[2]]
      BY <1>1 DEF DetectCrossModuleDependencies
    <2>1. AttemptInv /\ StoreInv /\ pc # "detect"
      BY <1>1 DEF AnalysisInv
    <2>2. PICK f \in ToSet(files) : /\ e[1] \in DOMAIN rows /\ e[2] \in DOMAIN rows
                                   /\ rows[e[1]].path = PathOf(f) /\ rows[e[2]].path = PathOf(f)
      BY <2>1, EdgesStayInFiles
    <2> QED
      BY <2>2
  <1>4. AttemptInv'
    BY <1>1, <1>3 DEF AnalysisInv, AttemptInv
  <1>5. StoreInv'
    <2>1. \A f \in ToSet(files) : SymbolsOf(f)' = SymbolsOf(f)
      BY DEF SymbolsOf
    <2>2. StoreInv /\ pc \notin {"vectors", "edges"} /\ pc' \notin {"vectors", "edges"}
      BY <1>1 DEF AnalysisInv
    <2>3. files' = files /\ parsed' = parsed /\ rows' = rows /\ points' = points /\ edges' = edges
      BY <1>1
    <2> QED
      BY <1>2, <2>1, <2>2, <2>3 DEF StoreInv
  <1> QED
    BY <1>2, <1>4, <1>5 DEF AnalysisInv

LEMMA AnalysisStutters == AnalysisInv /\ UNCHANGED vars => AnalysisInv'
  <1> SUFFICES ASSUME AnalysisInv, UNCHANGED vars
               PROVE  AnalysisInv'
    OBVIOUS
  <1>1. UNCHANGED <<files, modules, pc, current, batch, rows, points, edges, parsed, cross>>
    BY DEF vars
  <1>2. /\ ReadInv' /\ BatchInv' /\ BatchIds' = BatchIds
        /\ \A id, row : Stated(id, row)' <=> Stated(id, row)
    BY <1>1, BatchKept
  <1>3. AttemptInv'
    BY <1>1 DEF AnalysisInv, AttemptInv
  <1>4. StoreInv'
    <2>1. \A f \in ToSet(files) : SymbolsOf(f)' = SymbolsOf(f)
      BY DEF SymbolsOf
    <2> QED
      BY <1>1, <1>2, <2>1 DEF AnalysisInv, StoreInv
  <1> QED
    BY <1>2, <1>3, <1>4 DEF AnalysisInv

\* The strengthened invariant of an attempt: what was read, stored and is still to be read.
THEOREM AnalysisInductive == Spec => []AnalysisInv
  <1>1. AnalysisInv /\ [Next]_vars => AnalysisInv'
    BY DetectKeeps, ReadFileKeeps, AllReadKeeps, UpsertSymbolsKeeps, UpsertEmbeddingsKeeps,
       InsertEdgesKeeps, CrossKeeps, AnalysisStutters DEF Next
  <1> QED
    BY <1>1, AnalysisInit, PTL DEF Spec

-----------------------------------------------------------------------------
(* What the runs check. *)

\* Whatever the files of a repository contain, the attempt counts no dependency between
\* modules: detect_and_store_cross_module_deps is given no edge that leaves its file.
THEOREM NoDependencyIsCounted == Spec => []NoCrossModuleEdges
  <1>1. AnalysisInv => NoCrossModuleEdges
    BY DEF AnalysisInv, AttemptInv, NoCrossModuleEdges
  <1> QED
    BY <1>1, AnalysisInductive, PTL

\* No file is indexed twice, and a row's module is the one its path is classified to.
THEOREM FilesHaveOneModule == Spec => []OneModulePerFile
  <1>1. ASSUME AnalysisInv
        PROVE  OneModulePerFile
    <2>1. IsInjective(parsed)
      <3>1. DOMAIN parsed = 1 .. Len(parsed) /\ \A i, j \in 1 .. Len(parsed) : parsed[i] = parsed[j] => i = j
        BY <1>1 DEF AnalysisInv, ReadInv
      <3> QED
        BY <3>1 DEF IsInjective
    <2>2. ASSUME NEW id \in DOMAIN rows
          PROVE  rows[id].module = ClassifyFileToModule(rows[id].path, modules)
      <3>1. files \in Repositories /\ Stated(id, rows[id])
        BY <1>1 DEF AnalysisInv, AttemptInv, StoreInv
      <3>2. modules = DetectModules(files)
        BY <1>1 DEF AnalysisInv, AttemptInv
      <3> QED
        BY <3>1, <3>2, StatedIs
    <2> QED
      BY <2>1, <2>2 DEF OneModulePerFile
  <1> QED
    BY <1>1, AnalysisInductive, PTL

\* When an attempt is over its rows and its vectors are the same, and they are exactly the
\* symbols of the files it read.
THEOREM StoresAgree == Spec => []RowsMatchVectors
  <1>1. ASSUME AnalysisInv
        PROVE  RowsMatchVectors
    <2> SUFFICES ASSUME pc = "done"
                 PROVE  RowsMatchVectors
      BY DEF RowsMatchVectors
    <2>1. files \in Repositories /\ modules = DetectModules(files) /\ rows = points /\ BatchIds = {}
      <3>1. batch.symbols = << >>
        BY <1>1 DEF AnalysisInv, AttemptInv, NoBatch
      <3>2. BatchIds = {}
        BY <3>1 DEF BatchIds
      <3> QED
        BY <1>1, <3>2 DEF AnalysisInv, AttemptInv, StoreInv
    <2>2. ASSUME NEW f \in ToSet(files), PathOf(f) \in ToSet(parsed)
          PROVE  LET symbols == Extract(PathOf(f), f.tree, Language[f.suffix]).symbols IN
                 /\ \A i \in DOMAIN symbols : symbols[i].id \in DOMAIN rows
                 /\ \A id \in DOMAIN rows : rows[id].path = PathOf(f) =>
                      \E i \in DOMAIN symbols : symbols[i] = [id |-> id, lines |-> rows[id].lines]
      <3> DEFINE symbols == Extract(PathOf(f), f.tree, Language[f.suffix]).symbols
      <3>1. SymbolsOf(f) = {symbols[i] : i \in DOMAIN symbols}
        BY DEF SymbolsOf, ToSet
      <3> HIDE DEF symbols
      <3>2. \A s \in SymbolsOf(f) : s.id \in DOMAIN rows
        BY <1>1, <2>1, <2>2 DEF AnalysisInv, StoreInv
      <3>3. ASSUME NEW id \in DOMAIN rows, rows[id].path = PathOf(f)
            PROVE  \E i \in DOMAIN symbols : symbols[i] = [id |-> id, lines |-> rows[id].lines]
        <4>1. Stated(id, rows[id])
          BY <1>1 DEF AnalysisInv, StoreInv
        <4>2. PICK g \in ToSet(files) :
                 rows[id].path = PathOf(g) /\ [id |-> id, lines |-> rows[id].lines] \in SymbolsOf(g)
          BY <2>1, <4>1, StatedIs
        <4>3. g = f
          BY <2>1, <3>3, <4>2, RepositoriesAre
        <4> QED
          BY <3>1, <4>2, <4>3
      <3>4. \A i \in DOMAIN symbols : symbols[i].id \in DOMAIN rows
        BY <3>1, <3>2
      <3> QED
        BY <3>3, <3>4 DEF symbols
    <2> QED
      BY <2>1, <2>2 DEF RowsMatchVectors
  <1> QED
    BY <1>1, AnalysisInductive, PTL

\* An edge that is stored leads from a row to a function of the same file which is called in
\* the lines of the caller.
THEOREM EdgesComeFromCalls == Spec => []EdgesAreCalls
  <1>1. ASSUME AnalysisInv
        PROVE  EdgesAreCalls
    <2> SUFFICES ASSUME NEW e \in edges
                 PROVE  \E f \in ToSet(files) :
                     /\ e[1] \in DOMAIN rows /\ e[2] \in DOMAIN rows
                     /\ rows[e[1]].path = PathOf(f) /\ rows[e[2]].path = PathOf(f) /\ e[2][3] = "function"
                     /\ \E n, c \in DOMAIN f.tree :
                          /\ f.tree[n].name = e[1][2] /\ f.tree[n].kind \in {"function", "method", "arrow"}
                          /\ f.tree[c].kind = "call" /\ f.tree[c].name = e[2][2]
                          /\ Lines(f.tree, n)[1] =< c /\ c =< Lines(f.tree, n)[2]
      BY DEF EdgesAreCalls
    <2>1. AttemptInv /\ StoreInv /\ pc # "detect"
      BY <1>1 DEF AnalysisInv, AttemptInv
    <2>2. PICK f \in ToSet(files) :
             /\ EdgeIn(PathOf(f), f.tree, e)
             /\ e[1] \in DOMAIN rows /\ e[2] \in DOMAIN rows
             /\ rows[e[1]].path = PathOf(f) /\ rows[e[2]].path = PathOf(f)
      BY <2>1, EdgesStayInFiles
    <2>3. DOMAIN f.tree = 1 .. Len(f.tree)
      BY <2>1, RepositoriesAre, TreeNodes DEF AttemptInv
    <2>4. PICK n, c \in 1 .. Len(f.tree), type \in {"function", "method"} :
             /\ e = <<IdOf(PathOf(f), f.tree[n].name, type), IdOf(PathOf(f), f.tree[c].name, "function")>>
             /\ f.tree[n].kind \in {"function", "method", "arrow"} /\ f.tree[c].kind = "call"
             /\ Lines(f.tree, n)[1] =< c /\ c =< Lines(f.tree, n)[2]
      BY <2>2 DEF EdgeIn
    <2>5. e[1][2] = f.tree[n].name /\ e[2][2] = f.tree[c].name /\ e[2][3] = "function"
      BY <2>4 DEF IdOf
    <2> QED
      BY <2>2, <2>3, <2>4, <2>5
  <1> QED
    BY <1>1, AnalysisInductive, PTL

\* The tables hold ids of the files, with lines and a module; what was parsed are files.
THEOREM AnalysisTypeCorrect == Spec => []TypeOK
  <1>1. ASSUME AnalysisInv
        PROVE  TypeOK
    <2>1. /\ files \in Repositories
          /\ pc \in {"detect", "read", "rows", "vectors", "edges", "cross", "done", "raised"}
          /\ cross \subseteq edges
      BY <1>1 DEF AnalysisInv, AttemptInv
    <2>2. pc # "detect" => modules # << >>
      BY <1>1, ModulesOfRun DEF AnalysisInv
    <2>3. current \in 0 .. Len(modules) + 1
      <3>1. CASE pc = "detect"
        BY <1>1, <3>1 DEF AnalysisInv, AttemptInv
      <3>2. CASE pc # "detect"
        <4>1. Len(modules) \in Nat
          BY <1>1, <3>2, ModulesOfRun DEF AnalysisInv
        <4>2. current \in 1 .. Len(modules) \/ current = Len(modules) + 1
          BY <1>1, <3>2 DEF AnalysisInv, AttemptInv
        <4> QED
          BY <4>1, <4>2
      <3> QED
        BY <3>1, <3>2
    <2>4. \A id \in DOMAIN rows : Stated(id, rows[id])
      BY <1>1 DEF AnalysisInv, StoreInv
    <2>5. \A id \in DOMAIN points : Stated(id, points[id])
      BY <1>1 DEF AnalysisInv, StoreInv
    <2>6. ASSUME NEW id, NEW row, Stated(id, row), pc # "detect"
          PROVE  /\ id \in Ids
                 /\ row.lines[1] \in Nat \ {0} /\ row.lines[1] =< row.lines[2]
                 /\ row.module \in {m.name : m \in ToSet(modules)}
      <3>1. modules = DetectModules(files)
        BY <1>1, <2>6 DEF AnalysisInv, AttemptInv
      <3>2. PICK f \in ToSet(files) :
               /\ row.path = PathOf(f) /\ [id |-> id, lines |-> row.lines] \in SymbolsOf(f)
               /\ \E n \in 1 .. Len(f.tree), type \in SymbolTypes : id = IdOf(row.path, f.tree[n].name, type)
        <4>1. files \in Repositories /\ Stated(id, row)
          BY <2>1, <2>6
        <4> QED
          BY <3>1, <4>1, StatedIs
      <3>3. DOMAIN f.tree = 1 .. Len(f.tree)
        BY <2>1, RepositoriesAre, TreeNodes
      <3>4. id \in Ids
        BY <3>2, <3>3 DEF Ids, SymbolTypes
      <3> QED
        BY <2>1, <2>6, <3>1, <3>4, StatedIs
    <2>7. IsTable(rows) /\ IsTable(points)
      <3>1. CASE pc = "detect"
        BY <1>1, <3>1 DEF AnalysisInv, AttemptInv, IsTable
      <3>2. CASE pc # "detect"
        BY <2>4, <2>5, <2>6, <3>2 DEF IsTable
      <3> QED
        BY <3>1, <3>2
    <2>8. edges \subseteq Ids \X Ids
      <3> SUFFICES ASSUME NEW e \in edges
                   PROVE  e \in Ids \X Ids
        OBVIOUS
      <3>1. e[1] \in Ids /\ e[2] \in Ids
        BY <1>1, <2>7 DEF AnalysisInv, StoreInv, IsTable
      <3>2. e = <<e[1], e[2]>>
        BY <1>1 DEF AnalysisInv, StoreInv, EdgeIn
      <3> QED
        BY <3>1, <3>2
    <2>9. ToSet(parsed) \subseteq {PathOf(f) : f \in ToSet(files)}
      <3>1. DOMAIN parsed = 1 .. Len(parsed)
        BY <1>1 DEF AnalysisInv, ReadInv
      <3>2. \A i \in 1 .. Len(parsed) : \E f \in ToSet(files) : parsed[i] = PathOf(f)
        BY <1>1 DEF AnalysisInv, ReadInv
      <3> QED
        BY <3>1, <3>2 DEF ToSet
    <2> QED
      BY <2>1, <2>2, <2>3, <2>7, <2>8, <2>9 DEF TypeOK
  <1> QED
    BY <1>1, AnalysisInductive, PTL
=============================================================================
