----------------------------- MODULE Retrieval -----------------------------
(***************************************************************************)
(* The retrieval algorithms: merging of vector hits, keyword scores, the   *)
(* breadth-first expansion over the code graph, and the ranking of files.  *)
(* Scores are in hundredths.  A set of matches is a function from symbols  *)
(* to what is known of each: every list the code builds has one entry per  *)
(* symbol.  Lists whose order comes from the database or from a Python set *)
(* are taken in any order.                                                 *)
(***************************************************************************)
EXTENDS Integers, FiniteSets, Sequences, SequencesExt

CONSTANTS
    Symbol,     \* symbol ids, those of edges that dangle included
    File,       \* file paths
    FileOf,     \* the file of each symbol: the id is a hash of it and the name
    TicketText, \* the words of the ticket, in order
    SearchWord, \* the words that are long enough and carry meaning
    Named,      \* the symbols whose name contains a word
    MaxKeywords,
    DaysOld     \* get_file_metadata: the age of each file, -1 if it is unknown

ASSUME RetrievalAssumption ==
    /\ IsFiniteSet(Symbol) /\ IsFiniteSet(File)
    /\ FileOf \in [Symbol -> File]
    /\ Named \in [SearchWord -> SUBSET Symbol]
    /\ Len(TicketText) \in Nat /\ MaxKeywords \in Nat
    /\ DaysOld \in [File -> Nat \cup {-1}]

NoMatches == [s \in {} |-> 0]
Greatest(S) == IF S = {} THEN 0 ELSE CHOOSE x \in S : \A y \in S : y =< x
Least(x, y) == IF x =< y THEN x ELSE y
-----------------------------------------------------------------------------
(* Vector and keyword search. *)

\* Fault: the bonus is added to the score without a cap.
MergeUncapped(hits) ==
    [s \in UNION {DOMAIN hits[q] : q \in DOMAIN hits} |->
        LET found == {q \in DOMAIN hits : s \in DOMAIN hits[q]} IN
        Greatest({hits[q][s] : q \in found}) + 5 * (Cardinality(found) - 1)]

\* hits is a sequence, per query, of the scores of the symbols Qdrant returned.
\* A symbol keeps its best score, with a bonus for each further query that found it.
MergeVectorResults(hits) ==
    [s \in UNION {DOMAIN hits[q] : q \in DOMAIN hits} |->
        LET found == {q \in DOMAIN hits : s \in DOMAIN hits[q]} IN
        Least(100, Greatest({hits[q][s] : q \in found}) + 5 * (Cardinality(found) - 1))]

\* The first MaxKeywords different search words of the text.
ExtractKeywords(text) ==
    LET Words(n) == {text[i] : i \in 1 .. n} \cap SearchWord IN
    {w \in Words(Len(text)) :
        \E i \in DOMAIN text : text[i] = w /\ Cardinality(Words(i - 1) \ {w}) < MaxKeywords}

ComputeKeywordScore(count) == IF count >= 3 THEN 100 ELSE 30 * count

\* named has, for each keyword that was looked up, the symbols whose rows were found.
SearchSymbolsByKeywords(named) ==
    [s \in UNION {named[w] : w \in DOMAIN named} |->
        ComputeKeywordScore(Cardinality({w \in DOMAIN named : s \in named[w]}))]
-----------------------------------------------------------------------------
(* Graph expansion. *)

\* get_edges_from and get_edges_to, at the ends the walk is interested in.
Callees(edges, s) == {e[2] : e \in {f \in edges : f[1] = s}}
Callers(edges, s) == {e[1] : e \in {f \in edges : f[2] = s}}
Neighbours(edges, s) == Callees(edges, s) \cup Callers(edges, s)

\* Fault: a neighbour that is already known gets its distance again.
DiscoverAgain(distances, neighbours, d) ==
    [n \in neighbours \cup DOMAIN distances |-> IF n \in neighbours THEN d ELSE distances[n]]

\* The answer to one query of the walk: the neighbours not seen before are d away.
Discover(distances, neighbours, d) ==
    [n \in neighbours \cup DOMAIN distances |->
        IF n \in DOMAIN distances THEN distances[n] ELSE d]

GraphDistanceScore(d) == CASE d = 0 -> 100 [] d = 1 -> 70 [] d = 2 -> 40 [] OTHER -> 10

\* The symbols reached that have a row when it is looked up.
ExpandSymbols(distances, rows) ==
    [s \in DOMAIN distances \cap rows |-> GraphDistanceScore(distances[s])]

\* A symbol found in two ways keeps the entry with the higher score; of two initial
\* entries the keyword's is the later one.
GraphExpansion(distances, rows, vector, keyword) ==
    LET seeds == DOMAIN vector \cup DOMAIN keyword
        graph == ExpandSymbols(distances, rows)
        initial == [s \in seeds |-> IF s \in DOMAIN keyword
                                    THEN [score |-> keyword[s], source |-> "keyword"]
                                    ELSE [score |-> vector[s], source |-> "vector"]]
    IN  [s \in seeds \cup DOMAIN graph |->
            IF s \in seeds /\ (s \notin DOMAIN graph \/ graph[s] =< initial[s].score)
            THEN initial[s]
            ELSE [score |-> graph[s], source |-> "graph"]]
-----------------------------------------------------------------------------
(* Ranking. *)

InFile(matches, f) == {s \in DOMAIN matches : FileOf[s] = f}

SemanticScore(vector, f) == Greatest({vector[s] : s \in InFile(vector, f)})
KeywordScore(keyword, f) == Greatest({keyword[s] : s \in InFile(keyword, f)})
GraphScore(graph, f) ==
    Greatest({graph[s].score : s \in {t \in InFile(graph, f) : graph[t].source = "graph"}})

\* A symbol counts once per list it is in.
SymbolCount(vector, keyword, graph, f) ==
    Cardinality(InFile(vector, f)) + Cardinality(InFile(keyword, f))
        + Cardinality(InFile(graph, f))

GitRecencyScore(days) ==
    CASE days \in 0 .. 7 -> 100 [] days \in 8 .. 30 -> 70 [] OTHER -> 30

DensityScore(count) == CASE count >= 3 -> 100 [] count = 2 -> 60 [] count = 1 -> 30 [] OTHER -> 0

FinalScore(vector, keyword, graph, f) ==
    55 * SemanticScore(vector, f) + 20 * GraphScore(graph, f) + 15 * KeywordScore(keyword, f)
        + 5 * GitRecencyScore(DaysOld[f]) + 5 * DensityScore(SymbolCount(vector, keyword, graph, f))

\* Fault: without graph matches there is nothing to rank.
CandidatesOfGraph(vector, keyword, graph) == {FileOf[s] : s \in DOMAIN graph}

Candidates(vector, keyword, graph) ==
    {FileOf[s] : s \in DOMAIN vector \cup DOMAIN keyword \cup DOMAIN graph}

\* The sort key: final score, then symbol count, then recency; equal keys in any order.
Before(vector, keyword, graph, f, g) ==
    LET F == <<FinalScore(vector, keyword, graph, f), SymbolCount(vector, keyword, graph, f),
               GitRecencyScore(DaysOld[f])>>
        G == <<FinalScore(vector, keyword, graph, g), SymbolCount(vector, keyword, graph, g),
               GitRecencyScore(DaysOld[g])>>
    IN  \E i \in 1 .. 3 : F[i] > G[i] /\ \A j \in 1 .. i - 1 : F[j] = G[j]

\* The lists of files rank_files may return.
RankFiles(vector, keyword, graph, fileLimit) ==
    LET files == Candidates(vector, keyword, graph) IN
    {SubSeq(q, 1, Least(fileLimit, Len(q))) : q \in
        {p \in SetToSeqs(files) :
            \A i, j \in DOMAIN p : i < j => ~ Before(vector, keyword, graph, p[j], p[i])}}
-----------------------------------------------------------------------------
(* The reference for the expansion: least distances, ball by ball. *)

LeastDistance(edges, seeds, maxDepth) ==
    LET ball[d \in 0 .. maxDepth] ==
            IF d = 0 THEN seeds
            ELSE ball[d - 1] \cup UNION {Neighbours(edges, s) : s \in ball[d - 1]}
    IN  [s \in ball[maxDepth] |->
            CHOOSE d \in 0 .. maxDepth : s \in ball[d] /\ \A e \in 0 .. d - 1 : s \notin ball[e]]
=============================================================================
