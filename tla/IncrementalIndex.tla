-------------------------- MODULE IncrementalIndex --------------------------
(***************************************************************************)
(* GitHub webhooks and the Celery task index_repository_incremental: the   *)
(* handler enqueues a task for each push to the default branch and each    *)
(* merged pull request; the task opens a clone kept from earlier tasks,    *)
(* diffs the two commits of the event, and hands the changed files to      *)
(* CommitAnalyzer.process_changes.                                         *)
(***************************************************************************)
EXTENDS Integers, FiniteSets

CONSTANTS
    Event,          \* the webhook deliveries that may arrive
    Process,        \* the pool processes of the worker
    File,           \* paths
    Tree,           \* Tree[c][f]: what file f holds in commit c of the default branch, c = 1, 2...
    Absent,         \* the value of Tree of a path without a file
    Links,          \* the values of Tree that are symbolic links
    Indexable,      \* the paths should_index_file accepts
    Empty,          \* the values of Tree without a symbol to extract
    HasCollection,  \* Settings has the attribute qdrant_collection_name
    MaxRetries,     \* max_retries of the task
    MaxFaults       \* bound: deaths of a pool process and failed clones

Commit == DOMAIN Tree
None == 0
Partial == -1

VARIABLES
    head,       \* the last commit of the default branch
    task,       \* the task of each delivery
    run,        \* the task each process runs, and where it stands
    clone,      \* clone_base_dir/<repo>: None, Partial or the last commit it holds
    faults

vars == <<head, task, run, clone, faults>>

NotSent == [state |-> "not sent", before |-> None, after |-> None, retries |-> 0,
            processed |-> {}, errors |-> {}]
Idle == [pc |-> "idle", event |-> None, changes |-> {}]

Init ==
    /\ head = 1
    /\ task = [e \in Event |-> NotSent]
    /\ run = [p \in Process |-> Idle]
    /\ clone = None
    /\ faults = 0

-----------------------------------------------------------------------------
(* The events, and the handler.                                            *)

Push ==
    /\ head + 1 \in Commit
    /\ head' = head + 1
    /\ UNCHANGED <<task, run, clone, faults>>

\* A push to the default branch carries the head before it, none when it creates the
\* branch; a merged pull request the commit its base was at when it was last updated.
Enqueued(payload) ==
    \/ payload.type = "push" /\ payload.branch = "default"
    \/ payload.type = "pull_request" /\ payload.merged

Payload ==
    [type : {"push"}, branch : {"default", "other"}, merged : {FALSE},
     before : Commit \cup {None}, after : Commit]
    \cup [type : {"pull_request"}, branch : {"default"}, merged : BOOLEAN,
          before : Commit, after : Commit]

Deliver(e, payload) ==
    /\ task[e] = NotSent
    /\ payload.after =< head
    /\ payload.before = None \/ payload.before < payload.after
    /\ task' = [task EXCEPT ![e] =
         IF Enqueued(payload)
         THEN [@ EXCEPT !.state = "queued", !.before = payload.before, !.after = payload.after]
         ELSE [@ EXCEPT !.state = "ignored"]]
    /\ UNCHANGED <<head, run, clone, faults>>

-----------------------------------------------------------------------------
(* The task.                                                               *)

Goto(p, pc) == run' = [run EXCEPT ![p].pc = pc]

Take(p, e) ==
    /\ run[p] = Idle /\ task[e].state = "queued"
    /\ task' = [task EXCEPT ![e].state = "running"]
    /\ run' = [run EXCEPT ![p] = [pc |-> "clone", event |-> e, changes |-> {}]]
    /\ UNCHANGED <<head, clone, faults>>

\* An existing clone is opened as it is, even while another task still fetches it.
OpenClone(p) ==
    /\ run[p].pc = "clone" /\ clone # None
    /\ Goto(p, "diff")
    /\ UNCHANGED <<head, task, clone, faults>>

StartClone(p) ==
    /\ run[p].pc = "clone" /\ clone = None
    /\ clone' = Partial
    /\ Goto(p, "cloning")
    /\ UNCHANGED <<head, task, faults>>

FinishClone(p) ==
    /\ run[p].pc = "cloning"
    /\ clone' = head
    /\ Goto(p, "diff")
    /\ UNCHANGED <<head, task, faults>>

\* The task retries, and fails when no retry is left.
Fail(p) ==
    LET e == run[p].event IN
    /\ task' = [task EXCEPT
         ![e].state = IF task[e].retries < MaxRetries THEN "queued" ELSE "failed",
         ![e].retries = IF @ < MaxRetries THEN @ + 1 ELSE @]
    /\ run' = [run EXCEPT ![p] = Idle]

\* A clone that fails removes what it fetched.
FailClone(p) ==
    /\ run[p].pc = "cloning" /\ faults < MaxFaults
    /\ faults' = faults + 1
    /\ clone' = None
    /\ Fail(p)
    /\ UNCHANGED head

Change(f, type) == [file |-> f, type |-> type]

\* git diff --name-status: a type change has a status of its own, and a file whose
\* contents move to another path is one line with both.
Diff(b, a) ==
    LET was(f) == Tree[b][f]
        is(f) == Tree[a][f]
        moved(f, g) == /\ was(f) # Absent /\ is(f) = Absent
                       /\ was(g) = Absent /\ is(g) = was(f)
        line(status, f, g) == [status |-> status, file |-> f, to |-> g]
    IN  {line("R", f, g) : <<f, g>> \in {m \in File \X File : moved(m[1], m[2])}}
        \cup {line(IF (was(f) \in Links) # (is(f) \in Links) THEN "T" ELSE "M", f, f) :
                f \in {x \in File : Absent \notin {was(x), is(x)} /\ was(x) # is(x)}}
        \cup {line("D", f, f) : f \in {x \in File :
                was(x) # Absent /\ is(x) = Absent /\ \A g \in File : ~ moved(x, g)}}
        \cup {line("A", g, g) : g \in {x \in File :
                was(x) = Absent /\ is(x) # Absent /\ \A f \in File : ~ moved(f, x)}}

ParseDiffStatus(lines) ==
    UNION {CASE l.status = "R" -> {Change(l.file, "deleted"), Change(l.to, "added")}
             [] l.status = "A" -> {Change(l.file, "added")}
             [] l.status = "M" -> {Change(l.file, "modified")}
             [] l.status = "D" -> {Change(l.file, "deleted")}
             [] OTHER -> {} : l \in lines}

\* Diffing a commit the clone does not have raises.
DetectChanges(p) ==
    LET t == task[run[p].event] IN
    /\ run[p].pc = "diff"
    /\ \/ /\ clone = Partial \/ t.before = None \/ t.after > clone
          /\ Fail(p)
       \/ /\ clone \in Commit /\ t.before # None /\ t.after =< clone
          /\ run' = [run EXCEPT ![p].pc = "stores",
                                ![p].changes = ParseDiffStatus(Diff(t.before, t.after))]
          /\ UNCHANGED task
    /\ UNCHANGED <<head, clone, faults>>

Complete(p, processed, errors) ==
    /\ task' = [task EXCEPT ![run[p].event].state = "completed",
                            ![run[p].event].processed = processed,
                            ![run[p].event].errors = errors]
    /\ run' = [run EXCEPT ![p] = Idle]

\* Without changes the task is done; with changes it opens the collection that the
\* settings name.
OpenStores(p) ==
    /\ run[p].pc = "stores"
    /\ IF run[p].changes = {} THEN Complete(p, {}, {})
       ELSE IF ~ HasCollection THEN Fail(p)
       ELSE Goto(p, "process") /\ UNCHANGED task
    /\ UNCHANGED <<head, clone, faults>>

\* An added file is read from the working tree of the clone.  Each call that would
\* change a store lacks the organization and the project, so it raises, and the error
\* is kept with the path: only files without symbols are processed.
Raises(change) ==
    \/ change.type \in {"modified", "deleted"}
    \/ Tree[clone][change.file] \notin Empty

ProcessChanges(p) ==
    LET indexed == {c \in run[p].changes : c.file \in Indexable}
        failing == {c \in indexed : Raises(c)}
    IN  /\ run[p].pc = "process"
        /\ Complete(p, {c.file : c \in indexed \ failing}, {c.file : c \in failing})
        /\ UNCHANGED <<head, clone, faults>>

\* A pool process dies; its task, not yet acknowledged, is delivered again.
Crash(p) ==
    /\ run[p] # Idle /\ faults < MaxFaults
    /\ faults' = faults + 1
    /\ task' = [task EXCEPT ![run[p].event].state = "queued"]
    /\ run' = [run EXCEPT ![p] = Idle]
    /\ UNCHANGED <<head, clone>>

Work(p) ==
    \/ \E e \in Event : Take(p, e)
    \/ OpenClone(p) \/ StartClone(p) \/ FinishClone(p)
    \/ DetectChanges(p) \/ OpenStores(p) \/ ProcessChanges(p)

Next ==
    \/ Push
    \/ \E e \in Event, payload \in Payload : Deliver(e, payload)
    \/ \E p \in Process : Work(p) \/ FailClone(p) \/ Crash(p)

\* The worker keeps taking tasks and finishing their steps; nothing is assumed of
\* Git, GitHub and the faults.
Spec == Init /\ [][Next]_vars /\ \A p \in Process : WF_vars(Work(p))

-----------------------------------------------------------------------------
TypeOK ==
    /\ head \in Commit /\ faults \in 0 .. MaxFaults
    /\ clone \in {None, Partial} \cup Commit
    /\ task \in [Event -> [state : {"not sent", "ignored", "queued", "running", "completed", "failed"},
                           before : Commit \cup {None}, after : Commit \cup {None},
                           retries : 0 .. MaxRetries,
                           processed : SUBSET File, errors : SUBSET File]]
    /\ \A p \in Process : run[p].pc \in {"idle", "clone", "cloning", "diff", "stores", "process"}

\* The indexable files of an event that it added or changed.
Wanted(t) == {f \in Indexable : Tree[t.after][f] \notin Links \cup Empty \cup {Absent}
                                /\ Tree[t.before][f] # Tree[t.after][f]}

\* Each push and each merge that the handler accepts, with its commits in the repository,
\* is in the end handled by a task that has put the changed files into the index.
AcceptedIsIndexed ==
    \A e \in Event :
        (task[e].state = "queued" /\ task[e].before # None)
            ~> (task[e].state = "completed" /\ Wanted(task[e]) \subseteq task[e].processed)
=============================================================================
