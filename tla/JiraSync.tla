------------------------------ MODULE JiraSync ------------------------------
(***************************************************************************)
(* The Celery task sync_jira_tickets: it asks Jira for the tickets of a    *)
(* project, commits a row for each, embeds their texts and upserts the     *)
(* vectors.  Tickets are edited meanwhile, several syncs of the project    *)
(* may run at once, workers die, and the project may be deleted.           *)
(*                                                                         *)
(* A row or a vector is the version of the ticket it was made from, 0 if   *)
(* there is none.  The counts of a result are kept as the sets counted.    *)
(***************************************************************************)
EXTENDS Integers, FiniteSets, Sequences, SequencesExt

CONSTANTS
    Job,            \* the syncs that may be triggered
    Ticket,
    Labelled,       \* the tickets whose labels are a list, an empty one included
    Versions,       \* bound: how many versions each ticket has
    Doc,            \* the nodes of the description of each ticket in each version
    PageSize,       \* maxResults of the one search request
    BatchSize,      \* _UPSERT_BATCH_SIZE
    Processes,      \* bound: pool processes of the worker
    MaxRetries,     \* max_retries of the task
    MaxCrashes      \* bound: deaths of a worker or of one of its processes

ASSUME SyncAssumption ==
    /\ IsFiniteSet(Job) /\ IsFiniteSet(Ticket) /\ Labelled \subseteq Ticket
    /\ Versions \in [Ticket -> Nat \ {0}] /\ PageSize \in Nat \ {0} /\ BatchSize \in Nat \ {0}
    /\ Processes \in Nat \ {0} /\ MaxRetries \in Nat /\ MaxCrashes \in Nat
    /\ \A t \in Ticket : Doc[t] \in [1 .. Versions[t] -> Seq({"criteria", "text", "blank"})]

VARIABLES
    jira,       \* the version of each ticket
    recent,     \* the tickets, the last one updated first
    job,        \* the attempt, or the end, of each sync
    trigger,    \* the POST handlers: what each still has to write
    status,     \* Redis: the key of each sync
    rows,       \* jira_tickets
    points,     \* Qdrant: the version of the vector of each field
    project,    \* "present", "deleting" or "deleted"
    crashes,
    purged,     \* history: the vectors have been deleted
    alone       \* history: the syncs whose attempt met no other

stores == <<rows, points>>
outside == <<jira, recent, project, crashes, purged>>
vars == <<jira, recent, job, trigger, status, rows, points, project, crashes, purged, alone>>

Field == {"title", "description", "acceptance_criteria"}
Running == {"project", "clients", "fetch", "rows", "embed", "finish", "raised"}
Ended == {"succeeded", "failed", "lost"}
Active == {j \in Job : job[j].pc \in Running}

Text == [ticket : Ticket, field : Field, version : Nat]
Fresh(pc, retries) ==
    [pc |-> pc, retries |-> retries, page |-> << >>, stored |-> 0, texts |-> << >>, sent |-> 0,
     synced |-> {}, errors |-> FALSE, loaded |-> FALSE]
Completed(synced, embedded) == [state |-> "completed", synced |-> synced, embedded |-> embedded]
Plain(state) == [state |-> state, synced |-> {}, embedded |-> {}]

TypeOK ==
    /\ jira \in [Ticket -> Nat] /\ \A t \in Ticket : jira[t] \in 1 .. Versions[t]
    /\ recent \in SetToSeqs(Ticket)
    /\ \A j \in Job :
          /\ job[j].pc \in {"idle", "queued"} \cup Running \cup Ended
          /\ job[j].retries \in 0 .. MaxRetries
          /\ Len(job[j].page) =< PageSize /\ job[j].stored \in 0 .. Len(job[j].page)
          /\ job[j].sent \in 0 .. Len(job[j].texts) /\ ToSet(job[j].texts) \subseteq Text
          /\ trigger[j] \in {"none", "writing", "answered"}
          /\ status[j].state \in {"none", "in_progress", "failed", "completed"}
    /\ rows \in [Ticket -> Nat] /\ \A t \in Ticket : rows[t] =< jira[t]
    /\ points \in [Ticket \X Field -> Nat] /\ \A p \in DOMAIN points : points[p] =< jira[p[1]]
    /\ project \in {"present", "deleting", "deleted"}
    /\ crashes \in 0 .. MaxCrashes

Init ==
    /\ jira = [t \in Ticket |-> 1] /\ recent \in SetToSeqs(Ticket)
    /\ job = [j \in Job |-> Fresh("idle", 0)]
    /\ trigger = [j \in Job |-> "none"] /\ status = [j \in Job |-> Plain("none")]
    /\ rows = [t \in Ticket |-> 0] /\ points = [p \in Ticket \X Field |-> 0]
    /\ project = "present" /\ crashes = 0 /\ purged = FALSE /\ alone = {}

Becomes(j, attempt) == job' = [job EXCEPT ![j] = attempt]
Step(j, from, to) == job[j].pc = from /\ Becomes(j, [job[j] EXCEPT !.pc = to])

\* RedisCache.set logs a failure and returns: a write may be lost.
SetStatus(j, value) == status' \in {status, [status EXCEPT ![j] = value]}
-----------------------------------------------------------------------------
(* The environment. *)

\* Somebody edits a ticket in Jira.
Edit(t) ==
    /\ jira[t] < Versions[t]
    /\ jira' = [jira EXCEPT ![t] = @ + 1]
    /\ \E k \in DOMAIN recent :
          /\ recent[k] = t
          /\ recent' = [i \in DOMAIN recent |-> IF i = 1 THEN t
                                                ELSE IF i =< k THEN recent[i - 1] ELSE recent[i]]
    /\ UNCHANGED <<job, trigger, status, stores, project, crashes, purged, alone>>

\* POST: the task is enqueued, its first status written after that.
Trigger(j) ==
    /\ project # "deleted"
    /\ Step(j, "idle", "queued")
    /\ trigger' = [trigger EXCEPT ![j] = "writing"]
    /\ UNCHANGED <<outside, status, stores, alone>>

AnswerTrigger(j) ==
    /\ trigger[j] = "writing"
    /\ trigger' = [trigger EXCEPT ![j] = "answered"]
    /\ SetStatus(j, Plain("in_progress"))
    /\ UNCHANGED <<outside, job, stores, alone>>

\* delete_project: the vectors first, a failure is logged; then the rows, in one
\* transaction that is rolled back when a ticket is inserted under it.
DeleteVectors ==
    /\ project = "present"
    /\ project' = "deleting"
    /\ \/ points' = [p \in DOMAIN points |-> 0] /\ purged' = TRUE
       \/ UNCHANGED <<points, purged>>
    /\ UNCHANGED <<jira, recent, job, trigger, status, rows, crashes, alone>>

DeleteRows ==
    /\ project = "deleting"
    /\ \/ project' = "deleted" /\ rows' = [t \in Ticket |-> 0]
       \/ project' = "present" /\ UNCHANGED rows
    /\ UNCHANGED <<jira, recent, job, trigger, status, points, crashes, purged, alone>>

\* A worker dies: its message is delivered again.  Only a process of its pool dies: the
\* message is acknowledged and the job is lost.
Crash(j) ==
    /\ job[j].pc \in Running
    /\ crashes < MaxCrashes
    /\ crashes' = crashes + 1
    /\ \E pc \in {"queued", "lost"} : Becomes(j, Fresh(pc, job[j].retries))
    /\ alone' = alone \ {j}
    /\ UNCHANGED <<jira, recent, trigger, status, stores, project, purged>>
-----------------------------------------------------------------------------
(* The task. *)

Take(j) ==
    /\ Cardinality(Active) < Processes
    /\ Step(j, "queued", "project")
    /\ alone' = IF Active = {} THEN {j} ELSE {}
    /\ UNCHANGED <<outside, trigger, status, stores>>

\* Without a row of the project, or without a database, the attempt fails and cannot tell.
LoadProject(j) ==
    /\ job[j].pc = "project"
    /\ \/ project # "deleted" /\ Becomes(j, [job[j] EXCEPT !.pc = "clients", !.loaded = TRUE])
       \/ Becomes(j, [job[j] EXCEPT !.pc = "raised"])
    /\ UNCHANGED <<outside, trigger, status, stores, alone>>

\* Missing or undecipherable credentials, or no Qdrant.
BuildClients(j) ==
    /\ Step(j, "clients", "fetch") \/ Step(j, "clients", "raised")
    /\ UNCHANGED <<outside, trigger, status, stores, alone>>

\* One request, never a second page.  Any failure in it is an error of the result, and the
\* sync ends with nothing done.
Fetch(j) ==
    /\ job[j].pc = "fetch"
    /\ \/ LET length == IF PageSize < Len(recent) THEN PageSize ELSE Len(recent) IN
          Becomes(j, [job[j] EXCEPT
              !.pc = "rows", !.page = [i \in 1 .. length |-> <<recent[i], jira[recent[i]]>>]])
       \/ Becomes(j, [job[j] EXCEPT !.pc = "finish", !.errors = TRUE])
    /\ UNCHANGED <<outside, trigger, status, stores, alone>>

\* What comes before the first heading of the acceptance criteria, and what comes after.
ParseDescription(doc) ==
    LET headings == {i \in DOMAIN doc : doc[i] = "criteria"}
        first == IF headings = {} THEN Len(doc) + 1
                 ELSE CHOOSE i \in headings : \A k \in headings : i =< k
        SaysSomething(nodes) == \E i \in DOMAIN nodes : nodes[i] # "blank"
    IN  [description |-> SaysSomething(SubSeq(doc, 1, first - 1)),
         acceptance_criteria |-> SaysSomething(SubSeq(doc, first + 1, Len(doc)))]

\* The fields with a text, in the order they are embedded.
TextsOf(t, v) ==
    LET parts == ParseDescription(Doc[t][v])
        text(f) == [ticket |-> t, field |-> f, version |-> v]
        IfAny(f) == IF parts[f] THEN <<text(f)>> ELSE << >>
    IN  <<text("title")>> \o IfAny("description") \o IfAny("acceptance_criteria")

\* Fault: a row that is there is left alone.
InsertTicketOnce(t, v) ==
    /\ t \notin Labelled /\ project # "deleted"
    /\ rows' = [rows EXCEPT ![t] = IF @ = 0 THEN v ELSE @]

\* The column of the labels is an array of texts, the value a JSON document: PostgreSQL
\* accepts only the null.  The row needs its project.
UpsertJiraTicket(t, v) ==
    /\ t \notin Labelled /\ project # "deleted"
    /\ rows' = [rows EXCEPT ![t] = v]

\* Fault: the texts are collected before the row is stored.
StoreTicketLate(j) ==
    /\ job[j].pc = "rows" /\ job[j].stored < Len(job[j].page)
    /\ LET t == job[j].page[job[j].stored + 1][1]
           v == job[j].page[job[j].stored + 1][2]
       IN  \/ /\ UpsertJiraTicket(t, v)
              /\ Becomes(j, [job[j] EXCEPT
                     !.stored = @ + 1, !.texts = @ \o TextsOf(t, v), !.synced = @ \cup {t}])
           \/ /\ Becomes(j, [job[j] EXCEPT
                     !.stored = @ + 1, !.texts = @ \o TextsOf(t, v), !.errors = TRUE])
              /\ UNCHANGED rows
    /\ UNCHANGED <<outside, trigger, status, points, alone>>

\* The next ticket of the page: its row and then its texts, or an error.
StoreTicket(j) ==
    /\ job[j].pc = "rows" /\ job[j].stored < Len(job[j].page)
    /\ LET t == job[j].page[job[j].stored + 1][1]
           v == job[j].page[job[j].stored + 1][2]
       IN  \/ /\ UpsertJiraTicket(t, v)
              /\ Becomes(j, [job[j] EXCEPT
                     !.stored = @ + 1, !.texts = @ \o TextsOf(t, v), !.synced = @ \cup {t}])
           \/ /\ Becomes(j, [job[j] EXCEPT !.stored = @ + 1, !.errors = TRUE])
              /\ UNCHANGED rows
    /\ UNCHANGED <<outside, trigger, status, points, alone>>

\* The embeddings of all texts come from one call; without texts there is none.
Embed(j) ==
    /\ job[j].pc = "rows" /\ job[j].stored = Len(job[j].page)
    /\ \/ job[j].texts = << >> /\ Becomes(j, [job[j] EXCEPT !.pc = "finish"])
       \/ job[j].texts # << >> /\ Becomes(j, [job[j] EXCEPT !.pc = "embed"])
       \/ job[j].texts # << >> /\ Becomes(j, [job[j] EXCEPT !.pc = "finish", !.errors = TRUE])
    /\ UNCHANGED <<outside, trigger, status, stores, alone>>

\* One batch of vectors: a failure is an error of the result, and the batches before stay.
UpsertBatch(j) ==
    /\ job[j].pc = "embed" /\ job[j].sent < Len(job[j].texts)
    /\ \/ LET last == IF job[j].sent + BatchSize < Len(job[j].texts)
                      THEN job[j].sent + BatchSize ELSE Len(job[j].texts)
              batch == {job[j].texts[i] : i \in job[j].sent + 1 .. last}
              Of(p) == {x \in batch : <<x.ticket, x.field>> = p}
          IN  /\ points' = [p \in DOMAIN points |->
                               IF Of(p) = {} THEN points[p] ELSE (CHOOSE x \in Of(p) : TRUE).version]
              /\ Becomes(j, [job[j] EXCEPT
                     !.sent = last, !.pc = IF last = Len(job[j].texts) THEN "finish" ELSE @])
       \/ /\ Becomes(j, [job[j] EXCEPT !.pc = "finish", !.errors = TRUE])
          /\ UNCHANGED points
    /\ UNCHANGED <<outside, trigger, status, rows, alone>>

\* Fault: the vectors are counted when they are made, not when they are stored.
EmbeddedEarly(j) == {<<x.ticket, x.field>> : x \in ToSet(job[j].texts)}

\* embeddings_created: all of the texts or none.
Embedded(j) ==
    IF job[j].sent = Len(job[j].texts)
    THEN {<<x.ticket, x.field>> : x \in ToSet(job[j].texts)} ELSE {}

\* Fault: a sync with errors is given up at once.
FinishFailing(j) ==
    /\ job[j].pc = "finish"
    /\ Becomes(j, Fresh(IF job[j].errors THEN "failed" ELSE "succeeded", job[j].retries))
    /\ SetStatus(j, Completed(job[j].synced, Embedded(j)))
    /\ alone' = alone \ {j}
    /\ UNCHANGED <<outside, trigger, stores>>

\* The result is "completed", with or without errors.
Finish(j) ==
    /\ job[j].pc = "finish"
    /\ Becomes(j, Fresh("succeeded", job[j].retries))
    /\ SetStatus(j, Completed(job[j].synced, Embedded(j)))
    /\ alone' = alone \ {j}
    /\ UNCHANGED <<outside, trigger, stores>>

\* Fault: the limit of the retries is not looked at.
RaisedAlways(j) ==
    /\ job[j].pc = "raised"
    /\ Becomes(j, Fresh("queued", job[j].retries + 1))
    /\ IF job[j].loaded THEN SetStatus(j, Plain("failed")) ELSE UNCHANGED status
    /\ alone' = alone \ {j}
    /\ UNCHANGED <<outside, trigger, stores>>

\* "failed" is written, if the organization is known, and then the task is retried.
Raised(j) ==
    /\ job[j].pc = "raised"
    /\ IF job[j].retries < MaxRetries
       THEN Becomes(j, Fresh("queued", job[j].retries + 1))
       ELSE Becomes(j, Fresh("failed", job[j].retries))
    /\ IF job[j].loaded THEN SetStatus(j, Plain("failed")) ELSE UNCHANGED status
    /\ alone' = alone \ {j}
    /\ UNCHANGED <<outside, trigger, stores>>

Work(j) ==
    \/ LoadProject(j) \/ BuildClients(j) \/ Fetch(j) \/ StoreTicket(j) \/ Embed(j)
    \/ UpsertBatch(j) \/ Finish(j) \/ Raised(j)

Next ==
    \/ \E t \in Ticket : Edit(t)
    \/ \E j \in Job : Trigger(j) \/ AnswerTrigger(j) \/ Take(j) \/ Work(j) \/ Crash(j)
    \/ DeleteVectors \/ DeleteRows

Spec == Init /\ [][Next]_vars
-----------------------------------------------------------------------------
(* Properties. *)

\* Semantic search leads to tickets that exist: whatever syncs overlap, fail or die, a
\* ticket has a vector only if it has a row, until its project is deleted.
VectorsHaveRows ==
    project # "deleted" => \A p \in DOMAIN points : points[p] # 0 => rows[p[1]] # 0

\* The counts of a completed sync are of rows and vectors that are there, whatever failed in
\* between and whatever other syncs did since, unless the project's vectors were deleted.
ReportedIsStored ==
    ~ purged /\ project = "present" => \A j \in Job :
        /\ \A t \in status[j].synced : rows[t] # 0
        /\ \A p \in status[j].embedded : points[p] # 0

\* A sync that met no other leaves what it read from Jira, over whatever earlier syncs, also
\* dead ones, had left: the row of each ticket it counts and, if the embedding succeeded,
\* the vector of each of its texts.
AloneMirrorsJira ==
    \A j \in alone :
        job[j].pc = "finish" /\ ~ purged /\ project = "present" =>
            \A i \in DOMAIN job[j].page :
                LET t == job[j].page[i][1]
                    v == job[j].page[i][2]
                IN  t \in job[j].synced =>
                        /\ rows[t] = v
                        /\ Embedded(j) # {} => \A x \in ToSet(TextsOf(t, v)) : points[<<t, x.field>>] = v

Phase == [j \in Job |-> IF job[j].pc \in Running THEN "running" ELSE job[j].pc]
Attempts == [j \in Job |-> job[j].retries]
Lifecycle == INSTANCE JobLifecycle WITH phase <- Phase, retries <- Attempts

\* However its steps fail, a sync keeps the promise of a background job: counted retries
\* and an end that is decided once.
KeepsLifecycle == Lifecycle!Spec
=============================================================================
