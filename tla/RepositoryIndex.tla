-------------------------- MODULE RepositoryIndex --------------------------
(***************************************************************************)
(* The full-index job: the Celery task index_repository_full, the stores   *)
(* it rebuilds (Postgres symbols and graph_edges, Qdrant points, the clone *)
(* directory of the worker container) and the other writer of those        *)
(* stores, the delete_project handler.                                     *)
(*                                                                         *)
(* An attempt is one delivery of a task's message to one worker process.   *)
(* It is a sequence of separate transactions on separate stores, so every  *)
(* store access is an action; between two of them other attempts run, the  *)
(* process dies or the access raises.  The unit of data is a source file:  *)
(* "file f is in the symbols table" stands for the rows of f's symbols,    *)
(* which the code always writes and deletes together, and likewise for the *)
(* points and the call edges of f (an edge never leaves its file).         *)
(***************************************************************************)
EXTENDS Naturals

CONSTANTS
    Project,          \* project ids
    NoProject,        \* owner of a row or point that does not exist
    Repo,             \* project slugs, used as repository names
    Collection,       \* Qdrant code collections
    Module,           \* modules of a repository (detect_modules)
    File,             \* source files
    Version,          \* commits a repository goes through
    Task,             \* Celery task ids
    Worker,           \* worker processes (--concurrency)
    NoJob,            \* the job of an idle worker
    RepoOf,           \* the slug of a project; unique only within an organization
    CollectionOf,     \* get_collection_name of a project
    ModuleOf,         \* the module that holds a file
    Content,          \* the indexable files of a commit
    TaskProject,      \* the project_id argument of a task
    MaxRetries,       \* max_retries of the task decorator
    MaxRedeliveries   \* bound: messages the broker delivers again

ASSUME ConstantsAssumption ==
    /\ NoProject \notin Project
    /\ RepoOf \in [Project -> Repo]
    /\ CollectionOf \in [Project -> Collection]
    /\ ModuleOf \in [File -> Module]
    /\ Content \in [Version -> SUBSET File]
    /\ TaskProject \in [Task -> Project]
    /\ MaxRetries \in Nat
    /\ MaxRedeliveries \in Nat
    /\ Worker \cap {"none", "whole", "partial", "broken", "deleted", "kept"} = {}
    /\ NoJob \notin Task \X (0 .. MaxRetries)

Message == Task \X (0 .. MaxRetries)   \* a task id and its retries header
Id == Repo \X File                     \* symbol ids hash the repo and the file
Owner == Project \cup {NoProject}

\* Who last emptied a store for a project: nobody, an attempt that still runs or has
\* ended in one of three ways, or the delete_project handler, which may have failed to.
Cleaner == Worker \cup {"none", "whole", "partial", "broken", "deleted", "kept"}

Stages == {"idle", "load", "clone", "cloning", "delete_edges",
           "delete_symbols", "delete_points", "detect", "parse",
           "upsert_symbols", "upsert_points", "insert_edges"}

VARIABLES
    projects,    \* rows of the projects table
    symbols,     \* symbols table: the project_id of each row
    edges,       \* graph_edges table: copies of a file's edges per project
    points,      \* Qdrant: the project_id payload of each point
    head,        \* the remote's newest commit
    clone,       \* clone_base_dir/org/project in the worker's container
    cloned,      \* the commit that directory holds (when clone is not absent)
    queue,       \* messages the broker has to deliver
    requested,   \* tasks the API has enqueued
    redelivered, \* deliveries repeated so far (bounded)
    pc, job, todo, seen, unsent,  \* the worker processes
    deleting,    \* progress of the delete_project handler
    got,         \* history: files an attempt has parsed so far
    edgeCleaner, symbolCleaner, pointCleaner,
                 \* history: who last emptied the store for a project, and how it ended
    overlap      \* history: two writers have worked on the project at once

stores == <<projects, symbols, edges, points>>
disk == <<clone, cloned>>
broker == <<queue, requested, redelivered>>
local == <<todo, seen, unsent, got>>
cleaners == <<edgeCleaner, symbolCleaner, pointCleaner>>
history == <<cleaners, overlap>>
vars == <<stores, head, disk, broker, pc, job, local, deleting, history>>

IdOf(p, f) == <<RepoOf[p], f>>

\* Fault: a filter that matches nothing.
WithoutNothing(table, p) == table

\* A table or collection after the rows of p are deleted, and after the files F of p
\* are upserted: an id that exists is taken over, whoever owned it.
Without(table, p) == [i \in Id |-> IF table[i] = p THEN NoProject ELSE table[i]]
With(table, p, F) == [i \in Id |-> IF \E f \in F : i = IdOf(p, f) THEN p ELSE table[i]]

\* The project a busy worker indexes.
Target(w) == TaskProject[job[w][1]]

Busy(w) == pc[w] # "idle"

Writers(p) == {w \in Worker : Busy(w) /\ Target(w) = p}

StoreType ==
    /\ projects \subseteq Project
    /\ symbols \in [Id -> Owner]
    /\ edges \in [Project -> [File -> Nat]]
    /\ points \in [Collection -> [Id -> Owner]]

DiskType ==
    /\ head \in [Project -> Version]
    /\ clone \in [Project -> {"absent", "partial", "full"}]
    /\ cloned \in [Project -> Version]

BrokerType ==
    /\ queue \subseteq Message
    /\ requested \subseteq Task
    /\ redelivered \in 0 .. MaxRedeliveries

ProcessType ==
    /\ pc \in [Worker -> Stages]
    /\ job \in [Worker -> Message \cup {NoJob}]
    /\ \A w \in Worker : Busy(w) => job[w] \in Message

LocalType ==
    /\ todo \in [Worker -> SUBSET Module]
    /\ seen \in [Worker -> SUBSET File]
    /\ unsent \in [Worker -> SUBSET File]
    /\ got \in [Worker -> SUBSET File]

HistoryType ==
    /\ deleting \in [Project -> {"no", "rows"}]
    /\ edgeCleaner \in [Project -> Cleaner]
    /\ symbolCleaner \in [Project -> Cleaner]
    /\ pointCleaner \in [Project -> Cleaner]
    /\ overlap \in [Project -> BOOLEAN]

TypeOK == StoreType /\ DiskType /\ BrokerType /\ ProcessType /\ LocalType /\ HistoryType

Init ==
    /\ projects = Project
    /\ symbols = [i \in Id |-> NoProject]
    /\ edges = [p \in Project |-> [f \in File |-> 0]]
    /\ points = [c \in Collection |-> [i \in Id |-> NoProject]]
    /\ head \in [Project -> Version]
    /\ clone = [p \in Project |-> "absent"]
    /\ cloned = head
    /\ queue = {} /\ requested = {} /\ redelivered = 0
    /\ pc = [w \in Worker |-> "idle"]
    /\ job = [w \in Worker |-> NoJob]
    /\ todo = [w \in Worker |-> {}]
    /\ seen = [w \in Worker |-> {}]
    /\ unsent = [w \in Worker |-> {}]
    /\ got = [w \in Worker |-> {}]
    /\ deleting = [p \in Project |-> "no"]
    /\ edgeCleaner = [p \in Project |-> "none"]
    /\ symbolCleaner = [p \in Project |-> "none"]
    /\ pointCleaner = [p \in Project |-> "none"]
    /\ overlap = [p \in Project |-> FALSE]
-----------------------------------------------------------------------------
(* The API and the outside world. *)

\* POST /projects/{id}/index: nothing stops a second job for the same project.
RequestIndex(t) ==
    /\ t \notin requested
    /\ TaskProject[t] \in projects
    /\ requested' = requested \cup {t}
    /\ queue' = queue \cup {<<t, 0>>}
    /\ UNCHANGED <<stores, head, disk, redelivered, pc, job, local, deleting, history>>

\* Somebody pushes to the remote.
Push(p, v) ==
    /\ v # head[p]
    /\ head' = [head EXCEPT ![p] = v]
    /\ UNCHANGED <<stores, disk, broker, pc, job, local, deleting, history>>

\* DELETE /projects/{id}, first call: the vectors.  A failure is logged and swallowed.
DeletePoints(p) ==
    /\ deleting[p] = "no" /\ p \in projects
    /\ deleting' = [deleting EXCEPT ![p] = "rows"]
    /\ overlap' = [overlap EXCEPT ![p] = @ \/ Writers(p) # {}]
    /\ \/ /\ points' = [points EXCEPT ![CollectionOf[p]] = Without(@, p)]
          /\ pointCleaner' = [pointCleaner EXCEPT ![p] = "deleted"]
       \/ /\ pointCleaner' = [pointCleaner EXCEPT ![p] = "kept"]
          /\ UNCHANGED points
    /\ UNCHANGED <<projects, symbols, edges, head, disk, broker, pc, job, local,
                   edgeCleaner, symbolCleaner>>

\* Second call: one transaction deletes the Postgres data, or raises (for one, because
\* an attempt has just inserted rows that reference the project) and rolls back.
DeleteRows(p) ==
    /\ deleting[p] = "rows"
    /\ deleting' = [deleting EXCEPT ![p] = "no"]
    /\ \/ /\ edges' = [edges EXCEPT ![p] = [f \in File |-> 0]]
          /\ symbols' = Without(symbols, p)
          /\ projects' = projects \ {p}
          /\ edgeCleaner' = [edgeCleaner EXCEPT ![p] = "deleted"]
          /\ symbolCleaner' = [symbolCleaner EXCEPT ![p] = "deleted"]
       \/ UNCHANGED <<edges, symbols, projects, edgeCleaner, symbolCleaner>>
    /\ UNCHANGED <<points, head, disk, broker, pc, job, local, pointCleaner, overlap>>
-----------------------------------------------------------------------------
(* How an attempt starts and ends. *)

\* The stores that an attempt of W emptied last, once those attempts no longer run.
Settled(c, W, how) == [p \in Project |-> IF c[p] \in W THEN how ELSE c[p]]

Settle(W, how) ==
    /\ edgeCleaner' = Settled(edgeCleaner, W, how)
    /\ symbolCleaner' = Settled(symbolCleaner, W, how)
    /\ pointCleaner' = Settled(pointCleaner, W, how)

Take(w) ==
    /\ pc[w] = "idle"
    /\ \E m \in queue :
         /\ queue' = queue \ {m}
         /\ job' = [job EXCEPT ![w] = m]
         /\ LET p == TaskProject[m[1]] IN
            overlap' = [overlap EXCEPT ![p] = @ \/ Writers(p) # {} \/ deleting[p] # "no"]
    /\ pc' = [pc EXCEPT ![w] = "load"]
    /\ got' = [got EXCEPT ![w] = {}]
    /\ UNCHANGED <<stores, head, disk, requested, redelivered,
                   todo, seen, unsent, deleting, cleaners>>

\* What an attempt leaves behind in its own process: nothing.
Release(w) ==
    /\ pc' = [pc EXCEPT ![w] = "idle"]
    /\ job' = [job EXCEPT ![w] = NoJob]
    /\ todo' = [todo EXCEPT ![w] = {}]
    /\ seen' = [seen EXCEPT ![w] = {}]
    /\ unsent' = [unsent EXCEPT ![w] = {}]
    /\ got' = [got EXCEPT ![w] = {}]

\* Faults: one retry too many; a retry that is not counted.
RetryOnceMore(t, r) == IF r <= MaxRetries THEN {<<t, r + 1>>} ELSE {}
RetryUncounted(t, r) == {<<t, r>>}

\* self.retry publishes the message again, up to max_retries.
Retry(t, r) == IF r < MaxRetries THEN {<<t, r + 1>>} ELSE {}

\* Any call of the try block raises: publish the retry, or give up at max_retries.
\* A git clone that fails removes the directory it created.
Fail(w) ==
    /\ Busy(w)
    /\ queue' = queue \cup Retry(job[w][1], job[w][2])
    /\ clone' = [clone EXCEPT ![Target(w)] = IF pc[w] = "cloning" THEN "absent" ELSE @]
    /\ Settle({w}, "broken")
    /\ Release(w)
    /\ UNCHANGED <<stores, head, cloned, requested, redelivered, deleting, overlap>>

\* The process is killed.  The pool child's message is acknowledged and lost; the
\* message of a worker that dies whole was not acknowledged (task_acks_late) and
\* is delivered again.
Crash(w) ==
    /\ Busy(w)
    /\ \/ UNCHANGED <<queue, redelivered>>
       \/ /\ redelivered < MaxRedeliveries
          /\ redelivered' = redelivered + 1
          /\ queue' = queue \cup {job[w]}
    /\ Settle({w}, "broken")
    /\ Release(w)
    /\ UNCHANGED <<stores, head, disk, requested, deleting, overlap>>

\* The attempt outlives the broker's visibility timeout: its message is delivered
\* a second time while it still runs.
Redeliver(w) ==
    /\ Busy(w)
    /\ redelivered < MaxRedeliveries
    /\ redelivered' = redelivered + 1
    /\ queue' = queue \cup {job[w]}
    /\ UNCHANGED <<stores, head, disk, requested, pc, job, local, deleting, history>>

\* The worker container is recreated: every process dies, its disk is empty.
Recreate ==
    /\ redelivered < MaxRedeliveries
    /\ redelivered' = redelivered + 1
    /\ queue' = queue \cup {job[w] : w \in {v \in Worker : Busy(v)}}
    /\ clone' = [p \in Project |-> "absent"]
    /\ Settle(Worker, "broken")
    /\ pc' = [w \in Worker |-> "idle"]
    /\ job' = [w \in Worker |-> NoJob]
    /\ todo' = [w \in Worker |-> {}]
    /\ seen' = [w \in Worker |-> {}]
    /\ unsent' = [w \in Worker |-> {}]
    /\ got' = [w \in Worker |-> {}]
    /\ UNCHANGED <<stores, head, cloned, requested, deleting, overlap>>
-----------------------------------------------------------------------------
(* The attempt itself, one store access per action. *)

Step(w, from, to) ==
    /\ pc[w] = from
    /\ pc' = [pc EXCEPT ![w] = to]
    /\ UNCHANGED <<head, broker, job, deleting, overlap>>

\* get_project; a missing row raises ValueError, which is a Fail.
LoadProject(w) ==
    /\ Step(w, "load", "clone")
    /\ Target(w) \in projects
    /\ UNCHANGED <<stores, disk, local, cleaners>>

\* clone_repo: start a clone unless the target already has a .git directory ...
StartClone(w) ==
    /\ Step(w, "clone", "cloning")
    /\ clone[Target(w)] = "absent"
    /\ clone' = [clone EXCEPT ![Target(w)] = "partial"]
    /\ cloned' = [cloned EXCEPT ![Target(w)] = head[Target(w)]]
    /\ UNCHANGED <<stores, local, cleaners>>

FinishClone(w) ==
    /\ Step(w, "cloning", "delete_edges")
    /\ clone' = [clone EXCEPT ![Target(w)] = "full"]
    /\ UNCHANGED <<stores, cloned, local, cleaners>>

\* ... else open it as it is: nothing is fetched, and nothing tells a clone still
\* being written, or left by a killed process, from a finished one.
OpenClone(w) ==
    /\ Step(w, "clone", "delete_edges")
    /\ clone[Target(w)] # "absent"
    /\ UNCHANGED <<stores, disk, local, cleaners>>

\* Fault: the edges are looked for through symbols that are gone.
DeleteNoEdges(w) ==
    /\ Step(w, "delete_edges", "delete_symbols")
    /\ edgeCleaner' = [edgeCleaner EXCEPT ![Target(w)] = w]
    /\ UNCHANGED <<symbolCleaner, pointCleaner, stores, disk, local>>

\* delete_edges_by_repo finds the edges through the project's symbols rows.
DeleteEdges(w) ==
    /\ Step(w, "delete_edges", "delete_symbols")
    /\ LET p == Target(w) IN
       /\ edges' = [edges EXCEPT ![p] =
                      [f \in File |-> IF symbols[IdOf(p, f)] = p THEN 0 ELSE @[f]]]
       /\ edgeCleaner' = [edgeCleaner EXCEPT ![p] = w]
    /\ UNCHANGED <<symbolCleaner, pointCleaner, projects, symbols, points, disk, local>>

DeleteSymbols(w) ==
    /\ Step(w, "delete_symbols", "delete_points")
    /\ LET p == Target(w) IN
       /\ symbols' = Without(symbols, p)  \* p's rows all carry p's slug
       /\ symbolCleaner' = [symbolCleaner EXCEPT ![p] = w]
    /\ UNCHANGED <<edgeCleaner, pointCleaner, projects, edges, points, disk, local>>

\* delete_by_project
DeleteOldPoints(w) ==
    /\ Step(w, "delete_points", "detect")
    /\ LET p == Target(w) IN
       /\ points' = [points EXCEPT ![CollectionOf[p]] = Without(@, p)]
       /\ pointCleaner' = [pointCleaner EXCEPT ![p] = w]
    /\ UNCHANGED <<edgeCleaner, symbolCleaner, projects, symbols, edges, disk, local>>

\* The files of p a reader of the clone directory can meet.
Tree(p) == IF clone[p] = "absent" THEN {} ELSE Content[cloned[p]]

\* detect_modules on the tree; an unfinished tree may lack any of them.
DetectModules(w) ==
    /\ Step(w, "detect", "parse")
    /\ \E found \in SUBSET {ModuleOf[f] : f \in Tree(Target(w))} :
         /\ clone[Target(w)] = "full" =>
              found = {ModuleOf[f] : f \in Tree(Target(w))}
         /\ todo' = [todo EXCEPT ![w] = found]
    /\ UNCHANGED <<stores, disk, seen, unsent, got, cleaners>>

\* index_module reads and parses the files of a module; a file that raises, or
\* that is not in the tree yet, is left out, and a module with no symbols writes
\* nothing.
ParseModule(w) ==
    \E m \in todo[w] : \E parsed \in SUBSET Tree(Target(w)) :
        /\ \A f \in parsed : ModuleOf[f] = m
        /\ Step(w, "parse", IF parsed = {} THEN "parse" ELSE "upsert_symbols")
        /\ todo' = [todo EXCEPT ![w] = @ \ {m}]
        /\ seen' = [seen EXCEPT ![w] = parsed]
        /\ unsent' = [unsent EXCEPT ![w] = parsed]
        /\ got' = [got EXCEPT ![w] = @ \cup parsed]
        /\ UNCHANGED <<stores, disk, cleaners>>

\* Fault: no foreign key.
UpsertUnchecked(w) ==
    /\ Step(w, "upsert_symbols", "upsert_points")
    /\ symbols' = With(symbols, Target(w), seen[w])
    /\ UNCHANGED <<projects, edges, points, disk, local, cleaners>>

\* upsert_symbols_batch: one transaction; the conflict clause takes over the row of
\* an id that exists, and the foreign key needs the project.
UpsertSymbols(w) ==
    /\ Step(w, "upsert_symbols", "upsert_points")
    /\ LET p == Target(w) IN
       /\ p \in projects
       /\ symbols' = With(symbols, p, seen[w])
    /\ UNCHANGED <<projects, edges, points, disk, local, cleaners>>

\* Fault: the loop over the batches ends after the first.
UpsertFirstBatch(w) ==
    \E batch \in (SUBSET unsent[w]) \ {{}} :
        /\ Step(w, "upsert_points", "insert_edges")
        /\ LET p == Target(w) IN
           points' = [points EXCEPT ![CollectionOf[p]] = With(@, p, batch)]
        /\ unsent' = [unsent EXCEPT ![w] = {}]
        /\ UNCHANGED <<projects, symbols, edges, disk, todo, seen, got, cleaners>>

\* upsert_embeddings: one request per batch.
UpsertPoints(w) ==
    \E batch \in (SUBSET unsent[w]) \ {{}} :
        /\ Step(w, "upsert_points",
                IF batch = unsent[w] THEN "insert_edges" ELSE "upsert_points")
        /\ LET p == Target(w) IN
           points' = [points EXCEPT ![CollectionOf[p]] = With(@, p, batch)]
        /\ unsent' = [unsent EXCEPT ![w] = @ \ batch]
        /\ UNCHANGED <<projects, symbols, edges, disk, todo, seen, got, cleaners>>

\* Fault: the edges of a module replace those of the modules before it.
InsertReplacing(w) ==
    /\ Step(w, "insert_edges", "parse")
    /\ LET p == Target(w) IN
       /\ p \in projects
       /\ edges' = [edges EXCEPT ![p] = [f \in File |-> IF f \in seen[w] THEN 1 ELSE 0]]
    /\ seen' = [seen EXCEPT ![w] = {}]
    /\ UNCHANGED <<projects, symbols, points, disk, todo, unsent, got, cleaners>>

\* insert_edges: one transaction, no uniqueness.
InsertEdges(w) ==
    /\ Step(w, "insert_edges", "parse")
    /\ LET p == Target(w) IN
       /\ p \in projects
       /\ edges' = [edges EXCEPT ![p] =
                      [f \in File |-> IF f \in seen[w] THEN @[f] + 1 ELSE @[f]]]
    /\ seen' = [seen EXCEPT ![w] = {}]
    /\ UNCHANGED <<projects, symbols, points, disk, todo, unsent, got, cleaners>>

\* The last module is done: the summary is written and the message acknowledged.
Finish(w) ==
    /\ pc[w] = "parse" /\ todo[w] = {}
    /\ Settle({w}, IF \E v \in Version : got[w] = Content[v] THEN "whole" ELSE "partial")
    /\ Release(w)
    /\ UNCHANGED <<stores, head, disk, broker, deleting, overlap>>

Attempt(w) ==
    \/ LoadProject(w) \/ StartClone(w) \/ FinishClone(w) \/ OpenClone(w)
    \/ DeleteEdges(w) \/ DeleteSymbols(w) \/ DeleteOldPoints(w)
    \/ DetectModules(w) \/ ParseModule(w)
    \/ UpsertSymbols(w) \/ UpsertPoints(w) \/ InsertEdges(w) \/ Finish(w)

Next ==
    \/ \E t \in Task : RequestIndex(t)
    \/ \E p \in Project, v \in Version : Push(p, v)
    \/ \E p \in Project : DeletePoints(p) \/ DeleteRows(p)
    \/ \E w \in Worker : Take(w) \/ Attempt(w) \/ Fail(w) \/ Crash(w) \/ Redeliver(w)
    \/ Recreate

Spec == Init /\ [][Next]_vars

\* The worker processes run, and a request that started finishes.  Nothing obliges
\* anyone to enqueue, push, delete or crash.
Fairness ==
    /\ \A w \in Worker : WF_vars(Take(w)) /\ WF_vars(Attempt(w) \/ Fail(w))
    /\ \A p \in Project : WF_vars(DeleteRows(p))

FairSpec == Spec /\ Fairness
-----------------------------------------------------------------------------
(* What the job promises. *)

\* No other organization has a project with the same slug.
UniqueRepo(p) == \A q \in Project \ {p} : RepoOf[q] # RepoOf[p]

RowsOf(p) == {f \in File : symbols[IdOf(p, f)] = p}
EdgesOf(p) == {f \in File : edges[p][f] > 0}
PointsOf(p) == {f \in File : points[CollectionOf[p]][IdOf(p, f)] = p}

\* Whatever else runs, when the attempt that emptied a store last has succeeded on
\* every file of a commit, the store holds at least that commit: no other attempt,
\* redelivery, crash or retry has taken a file away since.
CompleteIndex ==
    \A p \in Project : UniqueRepo(p) =>
        /\ symbolCleaner[p] = "whole" => \E v \in Version : Content[v] \subseteq RowsOf(p)
        /\ pointCleaner[p] = "whole" => \E v \in Version : Content[v] \subseteq PointsOf(p)
        /\ edgeCleaner[p] = "whole" => \E v \in Version : Content[v] \subseteq EdgesOf(p)

\* If moreover no two writers ever met on the project, the three stores agree: they
\* hold one commit, each edge once, and nothing of an earlier or failed attempt.
ExactIndex ==
    \A p \in Project :
        UniqueRepo(p) /\ ~overlap[p] /\ ({edgeCleaner[p], symbolCleaner[p], pointCleaner[p]} = {"whole"}) =>
            \E v \in Version :
                /\ RowsOf(p) = Content[v]
                /\ PointsOf(p) = Content[v]
                /\ edges[p] = [f \in File |-> IF f \in Content[v] THEN 1 ELSE 0]

\* Edges are deleted before the symbols they are found through, so in no state an
\* interrupted or retried attempt leaves is there an edge without its symbols or an
\* edge stored twice.
NoDanglingEdges ==
    \A p \in Project : UniqueRepo(p) /\ ~overlap[p] =>
        \A f \in File : edges[p][f] <= 1 /\ (edges[p][f] = 1 => f \in RowsOf(p))

\* The Postgres rows of a deleted project never come back, although the attempts that
\* were indexing it go on.
RowsNeedProject ==
    \A p \in Project \ projects :
        /\ \A i \in Id : symbols[i] # p
        /\ \A f \in File : edges[p][f] = 0

\* A delete that reached the vector store and met no attempt leaves no vectors, and no
\* job that was queued before it brings them back.
CleanDelete ==
    \A p \in Project \ projects :
        ~overlap[p] /\ pointCleaner[p] # "kept" =>
            \A c \in Collection : \A i \in Id : points[c][i] # p

\* The data of a project with a slug of its own changes only while one of its own
\* attempts runs or it is being deleted, shared collection or not.
IsolatedProjects ==
    [][\A p \in Project : UniqueRepo(p) /\ Writers(p) = {} /\ deleting[p] = "no" =>
          \/ deleting'[p] # "no"
          \/ /\ RowsOf(p)' = RowsOf(p)
             /\ edges'[p] = edges[p]
             /\ PointsOf(p)' = PointsOf(p)]_vars

\* A job does not stay in the system for ever: retries run out.
Pending(t) ==
    \/ \E m \in queue : m[1] = t
    \/ \E w \in Worker : Busy(w) /\ job[w][1] = t
JobsSettle == \A t \in Task : Pending(t) ~> ~Pending(t)
-----------------------------------------------------------------------------
(* The inductive invariant behind CompleteIndex. *)

\* What a process holds at each stage: it has parsed nothing before it reaches the
\* modules, and between two modules it owes the stores nothing.
Ledger ==
    \A w \in Worker :
        /\ pc[w] \notin {"parse", "upsert_symbols", "upsert_points", "insert_edges"} => got[w] = {}
        /\ pc[w] \notin {"upsert_symbols", "upsert_points", "insert_edges"} => seen[w] = {}
        /\ pc[w] \notin {"upsert_symbols", "upsert_points"} => unsent[w] = {}
        /\ pc[w] = "upsert_symbols" => unsent[w] = seen[w]

\* The files whose symbols w has committed.
Committed(w) == got[w] \ (IF pc[w] = "upsert_symbols" THEN seen[w] ELSE {})

\* The stages up to an attempt's deletion of each store.
BeforeEdges == {"idle", "load", "clone", "cloning", "delete_edges"}
BeforeRows == BeforeEdges \cup {"delete_symbols"}
BeforePoints == BeforeRows \cup {"delete_points"}

\* The attempt that emptied a store last still runs and is past the deletion, and the
\* store holds what it has written since, whatever the other attempts have done.
RowsLedger ==
    \A p \in Project, w \in Worker : symbolCleaner[p] = w =>
        /\ pc[w] \notin BeforeRows /\ Target(w) = p
        /\ UniqueRepo(p) => Committed(w) \subseteq RowsOf(p)

PointsLedger ==
    \A p \in Project, w \in Worker : pointCleaner[p] = w =>
        /\ pc[w] \notin BeforePoints /\ Target(w) = p
        /\ UniqueRepo(p) => got[w] \ unsent[w] \subseteq PointsOf(p)

EdgesLedger ==
    \A p \in Project, w \in Worker : edgeCleaner[p] = w =>
        /\ pc[w] \notin BeforeEdges /\ Target(w) = p
        /\ UniqueRepo(p) => got[w] \ seen[w] \subseteq EdgesOf(p)

\* The inductive invariant: the four ledgers and the promise itself.
IndexInv == Ledger /\ RowsLedger /\ PointsLedger /\ EdgesLedger /\ CompleteIndex
-----------------------------------------------------------------------------
(* What comments and docstrings of the repository say, and the code does not do: TLC finds *)
(* a counterexample to each, in the instances the README names; no theorem rests on them.   *)

\* storage/schema.sql: the code indexing tables are "scoped to org + project".  A row
\* of one project is never handed to another one.
RowsKeepTheirProject ==
    [][\A i \in Id : symbols[i] # NoProject => symbols'[i] \in {symbols[i], NoProject}]_vars

\* clone_repo: "open it if already cloned".  A clone that is opened is complete.
OpensFinishedClones ==
    [][\A w \in Worker : OpenClone(w) => clone[Target(w)] = "full"]_vars

\* delete_project: "Delete a project and all associated data".  Once the handler and
\* every attempt are done with a deleted project, nothing of it is left.
DeleteLeavesNothing ==
    \A p \in Project \ projects : Writers(p) = {} =>
        \A c \in Collection : \A i \in Id : points[c][i] # p

=============================================================================
