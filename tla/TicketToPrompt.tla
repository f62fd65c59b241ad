--------------------------- MODULE TicketToPrompt ---------------------------
(***************************************************************************)
(* One ticket on its way through the pipeline, from the POST handler to    *)
(* the prompt it stores, while an indexing job may be replacing the stores *)
(* the steps read.  The job deletes the edges, the rows and the points of  *)
(* the old commit and then writes those of the new one module by module;   *)
(* the pipeline reads with one query per embedding, per keyword and per    *)
(* symbol, and the job may write between any two of them.  The files the   *)
(* API reads are of whatever commit its own disk has.                      *)
(*                                                                         *)
(* The steps run one after the other.  Some collect their failure and go   *)
(* on with nothing, the others end the run.                                *)
(***************************************************************************)
EXTENDS Retrieval, PromptBudget

CONSTANTS
    Version,        \* commits: "old" and "new"
    Present,        \* the symbols of each version
    Span,           \* the first and last line of each symbol in each version
    Lines,          \* the lines of each file in each version, -1 if it is not there
    Modules,        \* the modules of the new commit: the batches of the points of each
    Similarity,     \* the score of each symbol for each query, a cosine
    MaxQueries, TopK, MaxDepth, FileLimit, TokenBudget,    \* PipelineConfig
    Inputs,         \* the tickets' lengths, call graphs and disks of the instance
    LlmReplies      \* how many queries the LLM may answer: 0 is its default, no answer

Calls == SUBSET {e \in Symbol \X Symbol : FileOf[e[1]] = FileOf[e[2]]}

ASSUME PipelineAssumption ==
    /\ Version = {"old", "new"}
    /\ Present \in [Version -> SUBSET Symbol]
    /\ Span \in [Version -> [Symbol -> Nat \X Nat]]
    /\ Lines \in [Version -> [File -> Nat \cup {-1}]]
    /\ \A v \in Version : \A s \in Present[v] :
          1 =< Span[v][s][1] /\ Span[v][s][1] =< Span[v][s][2] /\ Span[v][s][2] =< Lines[v][FileOf[s]]
    /\ Modules \in Seq(Seq(SUBSET Present["new"]))
    /\ \A q \in 1 .. MaxQueries : \A s \in Symbol : Similarity[q][s] \in -100 .. 100
    /\ MaxQueries \in Nat \ {0} /\ TopK \in Nat /\ MaxDepth \in Nat
    /\ FileLimit \in Nat /\ TokenBudget \in Nat /\ LlmReplies \subseteq Nat
    /\ Inputs \subseteq [ticket : Nat, edges : [Version -> Calls], disk : Version \cup {"none"}]

VARIABLES
    pc,             \* the step that runs next, in graph_expansion the query
    ticket,         \* the length of the ticket's text
    errors,         \* the steps whose failure was collected
    cachedQueries,  \* Redis: the queries of an earlier run of the same ticket, 0 if none
    queries,        \* expanded_queries: how many
    embedded,       \* query_embeddings: how many
    hits,           \* results_per_query: the scores Qdrant returned for each query so far
    named,          \* aggregated: the symbols found for each keyword so far
    vector, keyword, graph,     \* the matches of the three searches
    read,           \* the version of the row or payload in the matches of each search
    distances,      \* what the walk over the edges has reached
    pending,        \* queue: the symbols that wait for their queries
    current,        \* current_id: the symbol between its two queries
    ranked,         \* ranked_files
    context,        \* compressed_context
    prompt,         \* generated_prompt
    stored,         \* Redis: the prompt GET /prompt finds
    indexing,       \* the steps the indexing job has taken
    edges,          \* the graph of each version
    disk,           \* the version of the files the API can read, "none" if it has no clone
    seenEdges,      \* history: the edges there were at some query of the walk
    steadyEdges,    \* history: the edges there were at every query of the walk
    steadyRows      \* history: the symbols with a row at every look-up of the expansion

searches == <<hits, named, vector, keyword>>
walk == <<distances, pending, current, seenEdges, steadyEdges, steadyRows>>
found == <<searches, walk, graph, read>>
results == <<ranked, context, prompt, stored>>
given == <<ticket, edges, disk>>
stores == <<indexing, given>>
vars == <<pc, errors, cachedQueries, queries, embedded, found, results, stores>>
-----------------------------------------------------------------------------
(* The stores under the indexing job. *)

\* What index_module writes: the rows of a module in one transaction, its points in
\* batches, its edges in one transaction.
Writes ==
    FlattenSeq([m \in DOMAIN Modules |->
        LET symbols == UNION ToSet(Modules[m]) IN
        << [store |-> "rows", of |-> symbols] >>
            \o [b \in DOMAIN Modules[m] |-> [store |-> "points", of |-> Modules[m][b]]]
            \o << [store |-> "edges", of |-> symbols] >>])

\* The first three steps delete what the old commit left: edges, rows, points.
Deletions == << "edges", "rows", "points" >>
Deleted(store) == \E i \in 1 .. indexing : i =< 3 /\ Deletions[i] = store
Written(store, s) == \E i \in 1 .. indexing - 3 : Writes[i].store = store /\ s \in Writes[i].of

VersionIn(store, s) ==
    IF ~ Deleted(store) /\ s \in Present["old"] THEN "old"
    ELSE IF Written(store, s) /\ s \in Present["new"] THEN "new" ELSE "none"
StoredIn(store) == {s \in Symbol : VersionIn(store, s) # "none"}
StoredEdges == IF Deleted("edges") THEN {e \in edges["new"] : Written("edges", e[1])} ELSE edges["old"]

\* The worker's next deletion or insertion in one of the stores.
IndexStep ==
    /\ indexing < 3 + Len(Writes)
    /\ indexing' = indexing + 1
    /\ UNCHANGED <<pc, errors, cachedQueries, queries, embedded, found, results, given>>
-----------------------------------------------------------------------------
NoVersions == [s \in Symbol |-> "none"]
Versions == [Symbol -> Version \cup {"none"}]

TypeOK ==
    /\ pc \in {"intake", "jira_context", "expansion", "embedding", "vector_search",
               "keyword_search", "graph_expansion", "edges_from", "edges_to", "look_up",
               "ranking", "compression", "prompt", "answer", "completed", "failed"}
    /\ errors \subseteq {"embedding", "graph_expansion"}
    /\ cachedQueries \in 0 .. MaxQueries /\ queries \in 0 .. MaxQueries
    /\ embedded \in {0, queries}
    /\ Len(hits) =< embedded /\ DOMAIN named \subseteq ExtractKeywords(TicketText)
    /\ DOMAIN vector \subseteq Symbol /\ \A s \in DOMAIN vector : vector[s] \in -100 .. 100
    /\ DOMAIN keyword \subseteq Symbol /\ \A s \in DOMAIN keyword : keyword[s] \in {30, 60, 100}
    /\ DOMAIN graph \subseteq Symbol /\ \A s \in DOMAIN graph : graph[s].score \in -100 .. 100
    /\ read \in [vector : Versions, keyword : Versions, rows : Versions]
    /\ \A s \in DOMAIN distances : s \in Symbol /\ distances[s] \in 0 .. MaxDepth
    /\ pending \subseteq DOMAIN distances
    /\ pc = "edges_to" => current \in DOMAIN distances
    /\ Len(ranked) =< FileLimit /\ IsInjective(ranked)
    /\ indexing \in 0 .. 3 + Len(Writes)

Init ==
    /\ pc = "intake" /\ errors = {} /\ queries = 0 /\ embedded = 0
    /\ cachedQueries \in {0} \cup {AtMost(n, MaxQueries) : n \in LlmReplies}
    /\ hits = << >> /\ named = NoMatches
    /\ vector = NoMatches /\ keyword = NoMatches /\ graph = NoMatches
    /\ read = [vector |-> NoVersions, keyword |-> NoVersions, rows |-> NoVersions]
    /\ distances = NoMatches /\ pending = {} /\ current = "none"
    /\ seenEdges = {} /\ steadyEdges = {} /\ steadyRows = {}
    /\ ranked = << >> /\ context = << >> /\ prompt = << >> /\ stored = "none"
    /\ indexing = 0
    /\ \E i \in Inputs : ticket = i.ticket /\ edges = i.edges /\ disk = i.disk

Goto(step, next) == pc = step /\ pc' = next
\* An exception in a step that does not catch it: PipelineError, answered with 500.
Abort(step) == Goto(step, "failed")
\* The different lines of an answer, up to the limit.
ParseExpansionResponse(lines) == AtMost(lines, MaxQueries)
-----------------------------------------------------------------------------
(* The steps. *)

\* A title of blanks raises.
Intake ==
    /\ Goto("intake", "jira_context") \/ Abort("intake")
    /\ UNCHANGED <<errors, cachedQueries, queries, embedded, found, results, stores>>

\* The tickets it finds, or fails to find, are read by no later step.
JiraContext ==
    /\ Goto("jira_context", "expansion")
    /\ UNCHANGED <<errors, cachedQueries, queries, embedded, found, results, stores>>

\* Cache first, then the LLM; without an answer the ticket's text is the only query, and
\* only an answer is cached.
ExpandTicket ==
    /\ Goto("expansion", "embedding")
    /\ \/ /\ cachedQueries > 0
          /\ queries' = cachedQueries
          /\ UNCHANGED cachedQueries
       \/ /\ cachedQueries = 0
          /\ \E n \in LlmReplies :
               /\ queries' = AtLeast(1, ParseExpansionResponse(n))
               /\ cachedQueries' = ParseExpansionResponse(n)
    /\ UNCHANGED <<errors, embedded, found, results, stores>>

Embed ==
    /\ Goto("embedding", "vector_search")
    /\ \/ embedded' = queries /\ UNCHANGED errors
       \/ embedded' = 0 /\ errors' = errors \cup {"embedding"}
    /\ UNCHANGED <<cachedQueries, queries, found, ranked, context, prompt, stored, stores>>

\* Qdrant's answer to a query: the TopK nearest points.
Nearest(q, points, T) ==
    /\ Cardinality(T) = AtMost(TopK, Cardinality(points))
    /\ \A s \in T, t \in points \ T : Similarity[q][s] >= Similarity[q][t]

\* One query of search_single_query.  Of two hits of a symbol the payload of the better
\* one is kept, of equal ones the first.
SearchSingleQuery ==
    LET q == Len(hits) + 1
        better(s) == \A i \in DOMAIN hits : s \in DOMAIN hits[i] => Similarity[q][s] > hits[i][s]
    IN  /\ pc = "vector_search" /\ Len(hits) < embedded
        /\ \E T \in SUBSET StoredIn("points") :
             /\ Nearest(q, StoredIn("points"), T)
             /\ hits' = Append(hits, [s \in T |-> Similarity[q][s]])
             /\ read' = [read EXCEPT !.vector = [s \in Symbol |->
                            IF s \in T /\ better(s) THEN VersionIn("points", s) ELSE read.vector[s]]]
        /\ UNCHANGED <<pc, errors, cachedQueries, queries, embedded, named, vector, keyword,
                       walk, graph, results, stores>>

MergeVectorHits ==
    /\ Goto("vector_search", "keyword_search")
    /\ Len(hits) = embedded
    /\ vector' = MergeVectorResults(hits)
    /\ UNCHANGED <<errors, cachedQueries, queries, embedded, hits, named, keyword, walk, graph,
                   read, results, stores>>

\* search_symbols_by_name for the next keyword; the first row found of a symbol is kept.
SearchKeyword ==
    LET left == ExtractKeywords(TicketText) \ DOMAIN named
        next(w) == \E i \in DOMAIN TicketText :
            TicketText[i] = w /\ \A j \in 1 .. i - 1 : TicketText[j] \notin left
        known == UNION {named[w] : w \in DOMAIN named}
    IN  /\ pc = "keyword_search"
        /\ \E w \in left :
             /\ next(w)
             /\ LET rows == StoredIn("rows") \cap Named[w] IN
                /\ named' = [v \in {w} \cup DOMAIN named |-> IF v = w THEN rows ELSE named[v]]
                /\ read' = [read EXCEPT !.keyword = [s \in Symbol |->
                               IF s \in rows \ known THEN VersionIn("rows", s) ELSE read.keyword[s]]]
        /\ UNCHANGED <<pc, errors, cachedQueries, queries, embedded, hits, vector, keyword, walk,
                       graph, results, stores>>

ScoreKeywords ==
    /\ Goto("keyword_search", "graph_expansion")
    /\ DOMAIN named = ExtractKeywords(TicketText)
    /\ keyword' = SearchSymbolsByKeywords(named)
    /\ UNCHANGED <<errors, cachedQueries, queries, embedded, hits, named, vector, walk, graph,
                   read, results, stores>>
-----------------------------------------------------------------------------
(* The walk over the edges, one query at a time. *)

Matched == DOMAIN vector \cup DOMAIN keyword

StartWalk ==
    /\ Goto("graph_expansion", "edges_from")
    /\ distances' = [s \in Matched |-> 0]
    /\ pending' = Matched
    /\ seenEdges' = {} /\ steadyEdges' = edges["old"] \cup edges["new"] /\ steadyRows' = Symbol
    /\ UNCHANGED <<errors, cachedQueries, queries, embedded, searches, current, graph, read,
                   results, stores>>

\* The queue is in order of distance; symbols at one distance come in any order.
Foremost == {s \in pending : \A t \in pending : distances[s] =< distances[t]}

\* An answer to a query about s puts the new neighbours into the queue.
Reach(s, neighbours, left) ==
    /\ distances' = Discover(distances, neighbours, distances[s] + 1)
    /\ pending' = left \cup (neighbours \ DOMAIN distances)
    /\ seenEdges' = seenEdges \cup StoredEdges
    /\ steadyEdges' = steadyEdges \cap StoredEdges

GetEdgesFrom ==
    /\ Goto("edges_from", "edges_to")
    /\ \E s \in Foremost :
         /\ distances[s] < MaxDepth
         /\ current' = s
         /\ Reach(s, Callees(StoredEdges, s), pending \ {s})
    /\ UNCHANGED <<errors, cachedQueries, queries, embedded, searches, graph, read, steadyRows,
                   results, stores>>

GetEdgesTo ==
    /\ Goto("edges_to", "edges_from")
    /\ Reach(current, Callers(StoredEdges, current), pending)
    /\ UNCHANGED <<errors, cachedQueries, queries, embedded, searches, current, graph, read,
                   steadyRows, results, stores>>

\* What is left in the queue is too far away to be asked about; the rows are next.
EndWalk ==
    /\ Goto("edges_from", "look_up")
    /\ \A s \in pending : distances[s] >= MaxDepth
    /\ pending' = DOMAIN distances
    /\ UNCHANGED <<errors, cachedQueries, queries, embedded, searches, distances, current, graph,
                   read, seenEdges, steadyEdges, steadyRows, results, stores>>

\* get_symbol, for each symbol in the order in which it was reached.
GetSymbol ==
    /\ pc = "look_up"
    /\ \E s \in Foremost :
         /\ pending' = pending \ {s}
         /\ read' = [read EXCEPT !.rows = [read.rows EXCEPT ![s] = VersionIn("rows", s)]]
    /\ steadyRows' = steadyRows \cap StoredIn("rows")
    /\ UNCHANGED <<pc, errors, cachedQueries, queries, embedded, searches, distances, current,
                   graph, seenEdges, steadyEdges, results, stores>>

ExpandGraph ==
    /\ Goto("look_up", "ranking")
    /\ pending = {}
    /\ graph' = GraphExpansion(distances, {s \in Symbol : read.rows[s] # "none"}, vector, keyword)
    /\ UNCHANGED <<errors, cachedQueries, queries, embedded, searches, walk, read, results, stores>>

\* Whichever query fails, the step's matches are lost.
GraphRaises ==
    /\ \/ Goto("edges_from", "ranking") /\ \E s \in pending : distances[s] < MaxDepth
       \/ Goto("edges_to", "ranking")
       \/ Goto("look_up", "ranking") /\ pending # {}
    /\ errors' = errors \cup {"graph_expansion"}
    /\ UNCHANGED <<cachedQueries, queries, embedded, found, results, stores>>

\* A failure to read a file's metadata only costs its recency.
Rank ==
    /\ Goto("ranking", "compression")
    /\ ranked' \in RankFiles(vector, keyword, graph, FileLimit)
    /\ UNCHANGED <<errors, cachedQueries, queries, embedded, found, context, prompt, stored,
                   stores>>

\* A query that a step sends outside of any handler may raise.
StepRaises ==
    /\ \/ Abort("vector_search") /\ Len(hits) < embedded
       \/ Abort("keyword_search") /\ DOMAIN named # ExtractKeywords(TicketText)
    /\ UNCHANGED <<errors, cachedQueries, queries, embedded, found, results, stores>>
-----------------------------------------------------------------------------
(* The prompt. *)

\* The snippet of a match, whose lines are those of the version it was read from.
Snippet(s, version) ==
    [symbol |-> s, file |-> FileOf[s], version |-> version,
     lines |-> SnippetLines(Span[version][s][1], Span[version][s][2], Lines[disk][FileOf[s]])]

InOrder(S, versions) ==
    LET q == SetToSeq(S) IN [i \in DOMAIN q |-> Snippet(q[i], versions[q[i]])]

\* The version of an entry of graph_matches: its own row's, or that of the match it kept.
GraphVersions ==
    [s \in DOMAIN graph |-> CASE graph[s].source = "graph" -> read.rows[s]
                              [] graph[s].source = "keyword" -> read.keyword[s]
                              [] OTHER -> read.vector[s]]

\* A file's symbols: vector matches, keyword matches, graph matches, with repetitions.
FileSnippets(f) ==
    InOrder(InFile(vector, f), read.vector) \o InOrder(InFile(keyword, f), read.keyword)
        \o InOrder(InFile(graph, f), GraphVersions)

\* Only files that can be read give snippets.
AllSnippets ==
    LET readable(f) == disk # "none" /\ Lines[disk][f] >= 0 IN
    FlattenSeq([i \in DOMAIN ranked |->
                   IF readable(ranked[i]) THEN FileSnippets(ranked[i]) ELSE << >>])

Compress ==
    /\ Goto("compression", "prompt")
    /\ context' = CompressContext(AllSnippets, TokenBudget)
    /\ UNCHANGED <<errors, cachedQueries, queries, embedded, found, ranked, prompt, stored,
                   stores>>

Generate ==
    /\ Goto("prompt", "answer")
    /\ prompt' = GeneratePrompt(ticket, AllSnippets, TokenBudget)
    /\ UNCHANGED <<errors, cachedQueries, queries, embedded, found, ranked, context, stored,
                   stores>>

\* process_ticket: the prompt is cached, unless Redis does not answer, and returned with
\* status "completed"; the collected errors are not.
AnswerTicket ==
    /\ Goto("answer", "completed")
    /\ stored' \in {"none", "prompt"}
    /\ UNCHANGED <<errors, cachedQueries, queries, embedded, found, ranked, context, prompt,
                   stores>>
-----------------------------------------------------------------------------
Next ==
    \/ Intake \/ JiraContext \/ ExpandTicket \/ Embed
    \/ SearchSingleQuery \/ MergeVectorHits \/ SearchKeyword \/ ScoreKeywords
    \/ StartWalk \/ GetEdgesFrom \/ GetEdgesTo \/ EndWalk \/ GetSymbol \/ ExpandGraph \/ GraphRaises
    \/ Rank \/ StepRaises \/ Compress \/ Generate \/ AnswerTicket
    \/ IndexStep

Spec == Init /\ [][Next]_vars
-----------------------------------------------------------------------------
(* Properties. *)

\* However the job deletes and writes edges and rows between the queries of the walk, the
\* expansion gives a symbol no better score than its least distance over all edges the walk
\* could see, and it misses no symbol and gives none a worse score than over the edges, and
\* with the rows, that were there all the time.  When nothing changed the two are the same.
DistancesInBounds ==
    LET nearest == LeastDistance(seenEdges, Matched, MaxDepth)
        farthest == LeastDistance(steadyEdges, Matched, MaxDepth)
    IN  pc = "ranking" /\ "graph_expansion" \notin errors =>
            /\ \A s \in DOMAIN graph : graph[s].source = "graph" =>
                  s \in DOMAIN nearest /\ graph[s].score =< GraphDistanceScore(nearest[s])
            /\ \A s \in DOMAIN farthest \cap steadyRows :
                  s \in DOMAIN graph /\ graph[s].score >= GraphDistanceScore(farthest[s])

\* A step that fails costs only its own evidence: the files of what any search found still
\* compete for the places, and none that is left out has a higher score than one that is in.
EvidenceReachesRanking ==
    LET evidence == {FileOf[s] : s \in DOMAIN vector \cup DOMAIN keyword \cup DOMAIN graph}
        chosen == ToSet(ranked)
    IN  pc \in {"compression", "prompt", "answer", "completed"} =>
            /\ Cardinality(chosen) = AtMost(FileLimit, Cardinality(evidence))
            /\ \A f \in chosen, g \in evidence \ chosen :
                  FinalScore(vector, keyword, graph, f) >= FinalScore(vector, keyword, graph, g)

\* The context keeps its margin, and the prompt's snippets are the first of the context's:
\* the second attempt of the generator only drops snippets from the end.
BudgetKept ==
    /\ 100 * TotalTokens(context) =< 95 * TokenBudget
    /\ pc \in {"answer", "completed"} => IsPrefix(prompt, context)

\* There is one second attempt only, so a prompt may be too long; but then its framing,
\* with the characters that rounding hides, takes at least 24% of the budget's characters.
OverBudgetOnlyByFraming ==
    pc \in {"answer", "completed"} /\ PromptTokens(ticket, prompt) > TokenBudget =>
        100 * (FramingChars(ticket, prompt) + 3 * Len(prompt)) > 96 * TokenBudget

\* A snippet whose match is of the version on the disk shows exactly the symbol's lines;
\* a stale one still shows lines the file has, and at least one unless the file is empty.
SnippetsFromTheFile ==
    \A i \in DOMAIN context :
        LET t == context[i] IN
        /\ t.version = disk => t.lines = Span[disk][t.symbol][1] .. Span[disk][t.symbol][2]
        /\ t.lines \subseteq 1 .. Lines[disk][t.file]
        /\ t.lines = {} => Lines[disk][t.file] = 0
=============================================================================
