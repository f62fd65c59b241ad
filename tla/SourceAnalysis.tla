--------------------------- MODULE SourceAnalysis ---------------------------
(***************************************************************************)
(* MonorepoIndexer.index_repository, from the files of a clone to the      *)
(* three stores: one attempt that meets no other.  RepositoryIndex models  *)
(* the attempts that meet; it takes a file for a fixed set of ids with     *)
(* edges among them, which this module derives from what files contain.    *)
(***************************************************************************)
EXTENDS Integers, FiniteSets, Sequences, SequencesExt, TLC, ModuleDetector, SymbolExtractor

CONSTANTS
    Repositories,   \* the repositories a clone may hold
    PageSize        \* page_size of execute_values

SyntaxNode == [kind : STRING, name : STRING, parent : Nat]
File == [dir : Seq(ToSet(Names)), base : STRING, suffix : STRING, tree : Seq(SyntaxNode), fails : BOOLEAN]

\* No two entries of a directory have one name, and in a tree a node follows its parent.
ASSUME AnalysisAssumption ==
    /\ PageSize \in Nat \ {0}
    /\ Names \in Seq(STRING) /\ IsInjective(Names)
    /\ \A repository \in Repositories :
        /\ repository \in Seq(File)
        /\ \A i, j \in DOMAIN repository : PathOf(repository[i]) = PathOf(repository[j]) => i = j
        /\ \A i \in DOMAIN repository : \A n \in DOMAIN repository[i].tree :
              repository[i].tree[n].parent < n

VARIABLES
    files,      \* the clone
    modules,    \* what detect_modules returned
    pc,         \* the next step of the attempt
    current,    \* the number of the module being indexed
    batch,      \* index_module: the files not read, the symbols and the raw edges
    rows,       \* symbols: path, lines and module of each id
    points,     \* Qdrant: the same, in the payload of each id
    edges,      \* graph_edges
    parsed,     \* the paths whose symbols were extracted, in the order they were
    cross       \* the edges counted as cross-module dependencies

vars == <<files, modules, pc, current, batch, rows, points, edges, parsed, cross>>

NoBatch == [toRead |-> << >>, symbols |-> << >>, edges |-> {}]

Init ==
    /\ files \in Repositories
    /\ modules = << >> /\ pc = "detect" /\ current = 0 /\ batch = NoBatch
    /\ rows = << >> /\ points = << >> /\ edges = {}
    /\ parsed = << >> /\ cross = {}

-----------------------------------------------------------------------------
\* The next module, or the count of dependencies after the last one.
Enter(n, found) ==
    /\ current' = n
    /\ IF n =< Len(found)
       THEN pc' = "read" /\ batch' = [NoBatch EXCEPT !.toRead = FilterFiles(files, found[n].path)]
       ELSE pc' = "cross" /\ batch' = NoBatch

Detect ==
    /\ pc = "detect"
    /\ modules' = DetectModules(files)
    /\ Enter(1, modules')
    /\ UNCHANGED <<files, rows, points, edges, parsed, cross>>

\* A file that cannot be read, or is nested too deeply, is left out.
ReadFile ==
    LET f == Head(batch.toRead)
        found == Extract(PathOf(f), f.tree, Language[f.suffix])
        here == modules[current].name
        symbol(s) == [id |-> s.id, row |-> [path |-> PathOf(f), lines |-> s.lines, module |-> here]]
    IN  /\ pc = "read" /\ batch.toRead # << >>
        /\ IF f.fails
           THEN batch' = [batch EXCEPT !.toRead = Tail(@)] /\ UNCHANGED parsed
           ELSE /\ batch' = [toRead |-> Tail(batch.toRead),
                             symbols |-> batch.symbols \o
                                 [i \in DOMAIN found.symbols |-> symbol(found.symbols[i])],
                             edges |-> batch.edges \cup found.edges]
                /\ parsed' = Append(parsed, PathOf(f))
        /\ UNCHANGED <<files, modules, pc, current, rows, points, edges, cross>>

AllRead ==
    /\ pc = "read" /\ batch.toRead = << >>
    /\ pc' = IF batch.symbols = << >> THEN "edges" ELSE "rows"
    /\ UNCHANGED <<files, modules, current, batch, rows, points, edges, parsed, cross>>

\* The rows of a sequence of symbols, the last of each id.
LastOf(symbols) ==
    [id \in {symbols[i].id : i \in DOMAIN symbols} |->
        symbols[Max({i \in DOMAIN symbols : symbols[i].id = id})].row]

\* A table into which rows were upserted: of two rows of an id the new one stays.
Upserted(new, table) ==
    [id \in DOMAIN new \cup DOMAIN table |-> IF id \in DOMAIN new THEN new[id] ELSE table[id]]

\* The statement of a page may not touch a row twice.
TwinsInPage(symbols) ==
    \E i, j \in DOMAIN symbols :
        /\ i < j /\ symbols[i].id = symbols[j].id
        /\ (i - 1) \div PageSize = (j - 1) \div PageSize

\* Fault: the conflict clause leaves a row that is there alone.
UpsertDoingNothing ==
    LET first(id) == CHOOSE i \in DOMAIN batch.symbols :
            batch.symbols[i].id = id /\ \A j \in 1 .. i - 1 : batch.symbols[j].id # id
    IN  /\ pc = "rows"
        /\ rows' = Upserted(rows, [id \in DOMAIN LastOf(batch.symbols) |-> batch.symbols[first(id)].row])
        /\ pc' = "vectors"
        /\ UNCHANGED <<files, modules, current, batch, points, edges, parsed, cross>>

\* Pages are statements of one transaction: when one is refused, no row of the module is
\* stored and the attempt raises.
UpsertSymbolsBatch ==
    /\ pc = "rows"
    /\ IF TwinsInPage(batch.symbols)
       THEN pc' = "raised" /\ UNCHANGED rows
       ELSE pc' = "vectors" /\ rows' = Upserted(LastOf(batch.symbols), rows)
    /\ UNCHANGED <<files, modules, current, batch, points, edges, parsed, cross>>

UpsertEmbeddings ==
    /\ pc = "vectors"
    /\ points' = Upserted(LastOf(batch.symbols), points)
    /\ pc' = "edges"
    /\ UNCHANGED <<files, modules, current, batch, rows, edges, parsed, cross>>

\* Fault: an edge is kept whatever it leads to.
ValidateFrom(edge, known) == edge[1] \in known

ValidateEdge(edge, known) == edge[1] \in known /\ edge[2] \in known

BuildGraph(symbols, raw) ==
    {e \in raw : ValidateEdge(e, {symbols[i].id : i \in DOMAIN symbols})}

InsertEdges ==
    /\ pc = "edges"
    /\ edges' = edges \cup BuildGraph(batch.symbols, batch.edges)
    /\ Enter(current + 1, modules)
    /\ UNCHANGED <<files, modules, rows, points, parsed, cross>>

\* The symbols of the repository are classified again, by their paths.
DetectAndStoreCrossModuleDeps ==
    /\ pc = "cross"
    /\ cross' = DetectCrossModuleDependencies(
                    [id \in DOMAIN rows |-> ClassifyFileToModule(rows[id].path, modules)], edges)
    /\ pc' = "done"
    /\ UNCHANGED <<files, modules, current, batch, rows, points, edges, parsed>>

Next ==
    \/ Detect \/ ReadFile \/ AllRead
    \/ UpsertSymbolsBatch \/ UpsertEmbeddings \/ InsertEdges
    \/ DetectAndStoreCrossModuleDeps

Spec == Init /\ [][Next]_vars

-----------------------------------------------------------------------------
Ids == UNION {{IdOf(PathOf(f), f.tree[n].name, type) : n \in DOMAIN f.tree,
                 type \in {"function", "method", "class", "interface", "type"}} : f \in ToSet(files)}

IsTable(t) ==
    /\ DOMAIN t \subseteq Ids
    /\ \A id \in DOMAIN t : /\ t[id].lines[1] \in Nat \ {0} /\ t[id].lines[1] =< t[id].lines[2]
                            /\ t[id].module \in {m.name : m \in ToSet(modules)}

TypeOK ==
    /\ pc \in {"detect", "read", "rows", "vectors", "edges", "cross", "done", "raised"}
    /\ pc # "detect" => modules # << >>
    /\ current \in 0 .. Len(modules) + 1
    /\ IsTable(rows) /\ IsTable(points)
    /\ edges \subseteq Ids \X Ids /\ cross \subseteq edges
    /\ ToSet(parsed) \subseteq {PathOf(f) : f \in ToSet(files)}

\* No file is indexed with two modules, and each row says the module that classifying its
\* path again finds: what index_module and classify_file_to_module think of a file agrees.
OneModulePerFile ==
    /\ IsInjective(parsed)
    /\ \A id \in DOMAIN rows : rows[id].module = ClassifyFileToModule(rows[id].path, modules)

\* When the attempt is over, every symbol has a row and a vector, and both are of the same
\* definition, one of those the file has for the id, in the same module.
RowsMatchVectors ==
    pc = "done" =>
        /\ rows = points
        /\ \A f \in ToSet(files) : PathOf(f) \in ToSet(parsed) =>
             LET symbols == Extract(PathOf(f), f.tree, Language[f.suffix]).symbols IN
             /\ \A i \in DOMAIN symbols : symbols[i].id \in DOMAIN rows
             /\ \A id \in DOMAIN rows : rows[id].path = PathOf(f) =>
                  \E i \in DOMAIN symbols : symbols[i] = [id |-> id, lines |-> rows[id].lines]

\* The edges lead from symbols to functions with rows of the same file, and in the lines
\* of some definition of the caller the callee is called.
EdgesAreCalls ==
    \A e \in edges : \E f \in ToSet(files) :
        /\ e[1] \in DOMAIN rows /\ e[2] \in DOMAIN rows
        /\ rows[e[1]].path = PathOf(f) /\ rows[e[2]].path = PathOf(f) /\ e[2][3] = "function"
        /\ \E n, c \in DOMAIN f.tree :
             /\ f.tree[n].name = e[1][2] /\ f.tree[n].kind \in {"function", "method", "arrow"}
             /\ f.tree[c].kind = "call" /\ f.tree[c].name = e[2][2]
             /\ Lines(f.tree, n)[1] =< c /\ c =< Lines(f.tree, n)[2]

-----------------------------------------------------------------------------
(* What docs, docstrings and tests say and the code does not do. *)

\* Each symbol found in a readable file is in the end stored.
EachSymbolStored ==
    pc \in {"done", "raised"} =>
        \A i \in DOMAIN batch.symbols : batch.symbols[i].id \in DOMAIN rows

\* The calls that lead to another module: a function's name is called in the lines of
\* a function or method, and the only symbol with that name is one of another module.
CallsAcross ==
    {e \in (DOMAIN rows) \X (DOMAIN rows) :
        /\ rows[e[1]].module # rows[e[2]].module
        /\ e[1][3] \in {"function", "method"} /\ e[2][3] = "function"
        /\ \A id \in DOMAIN rows : id[2] = e[2][2] => id = e[2]
        /\ \E f \in ToSet(files) :
             /\ rows[e[1]].path = PathOf(f)
             /\ \E c \in rows[e[1]].lines[1] .. rows[e[1]].lines[2] :
                  f.tree[c].kind = "call" /\ f.tree[c].name = e[2][2]}

\* "The graph should capture these relationships across modules": an attempt that is over
\* has counted the calls from one module to another.
CrossModuleCallsFound == pc = "done" => CallsAcross \subseteq cross

\* What the attempt does instead: it counts no dependency at all, however modules and files
\* call each other, for an edge never leaves the file it was found in.
NoCrossModuleEdges == cross = {}
=============================================================================
