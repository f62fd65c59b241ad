----------------------------- MODULE JobStatus -----------------------------
(***************************************************************************)
(* The status of an indexing job on its way from the worker to the screen: *)
(* the POST handler that enqueues the job and writes a first status, the   *)
(* attempts that write their progress into one Redis key per job, the GET  *)
(* handler that reads it and one visit of the project page that polls it.  *)
(*                                                                         *)
(* The work of an attempt is abstract here (RepositoryIndex has it): what  *)
(* remains is the order of its status writes, the publication of the retry *)
(* and the acknowledgement of its message, which are separate steps.       *)
(***************************************************************************)
EXTENDS Naturals

CONSTANTS
    Job,              \* Celery task ids
    NoJob,            \* no job: an idle worker, a page before its first job
    Worker,           \* worker processes
    Request,          \* polls that may be in flight at once
    MaxRetries,       \* max_retries of the task decorator
    MaxRedeliveries,  \* bound: messages the broker delivers again
    Faults            \* the losses that may happen in this instance

ASSUME JobStatusAssumption ==
    /\ NoJob \notin Job \cup (Job \X (0 .. MaxRetries))
    /\ MaxRetries \in Nat
    /\ MaxRedeliveries \in Nat
    /\ Faults \subseteq {"outage", "forget", "crash"}

Message == Job \X (0 .. MaxRetries)
Status == {"in_progress", "cloning", "parsing", "building_graph", "retrying",
           "completed", "failed"}
Ended == {"completed", "failed"}

VARIABLES
    api,          \* progress of the POST handler of each job
    queue,        \* messages the broker has to deliver
    redelivered,  \* deliveries repeated so far (bounded)
    pc, job,      \* the worker processes
    key,          \* Redis: org:indexing:job
    open,         \* the page is mounted
    jobId, shown, \* the page's state: its job and the status it displays
    timers,       \* the jobs that have a running interval
    ref,          \* pollingRef: the job of the interval the page can clear
    requests,     \* the GET in each slot: its job and the answer it carries
    late          \* history: jobs that were over when the API wrote its status

broker == <<queue, redelivered>>
worker == <<pc, job>>
page == <<open, jobId, shown, timers, ref>>
vars == <<api, broker, worker, key, page, requests, late>>

Free == [job |-> NoJob, answer |-> "none"]
Poll == [job : Job, answer : Status \cup {"sent", "unknown"}]

JobType ==
    /\ api \in [Job -> {"idle", "requested", "enqueued", "answered", "done", "refused"}]
    /\ key \in [Job -> Status \cup {"none"}]
    /\ late \subseteq Job

BrokerType ==
    /\ queue \subseteq Message
    /\ redelivered \in 0 .. MaxRedeliveries

\* A worker about to publish a retry has one left.
WorkerType ==
    /\ pc \in [Worker -> {"idle", "start", "cloning", "parsing", "building_graph",
                          "retrying", "ending"}]
    /\ job \in [Worker -> Message \cup {NoJob}]
    /\ \A w \in Worker :
         /\ pc[w] # "idle" => job[w] \in Message
         /\ pc[w] = "retrying" => job[w][2] < MaxRetries

PageType ==
    /\ open \in BOOLEAN
    /\ jobId \in Job \cup {NoJob}
    /\ shown \in Status \cup {"none", "unknown"}
    /\ timers \subseteq Job
    /\ ref \in Job \cup {NoJob}

RequestType == requests \in [Request -> Poll \cup {Free}]

TypeOK == JobType /\ BrokerType /\ WorkerType /\ PageType /\ RequestType

Init ==
    /\ api = [j \in Job |-> "idle"]
    /\ queue = {} /\ redelivered = 0
    /\ pc = [w \in Worker |-> "idle"]
    /\ job = [w \in Worker |-> NoJob]
    /\ key = [j \in Job |-> "none"]
    /\ open = TRUE /\ jobId = NoJob /\ shown = "none"
    /\ timers = {} /\ ref = NoJob
    /\ requests = [r \in Request |-> Free]
    /\ late = {}

\* Somebody still has to run, or is running, an attempt of j.
Working(w) == pc[w] \notin {"idle", "ending"}
Live(j) ==
    \/ \E m \in queue : m[1] = j
    \/ \E w \in Worker : Working(w) /\ job[w][1] = j

\* cache.set: the new status, unless Redis does not answer, which is only logged.
Write(j, status) ==
    \/ key' = [key EXCEPT ![j] = status]
    \/ "outage" \in Faults /\ UNCHANGED key
-----------------------------------------------------------------------------
(* The POST handler: enqueue first, then write, then answer. *)

Enqueue(j) ==
    /\ api[j] = "requested"
    /\ api' = [api EXCEPT ![j] = "enqueued"]
    /\ queue' = queue \cup {<<j, 0>>}
    /\ UNCHANGED <<redelivered, worker, key, page, requests, late>>

WriteInProgress(j) ==
    /\ api[j] = "enqueued"
    /\ api' = [api EXCEPT ![j] = "answered"]
    /\ Write(j, "in_progress")
    /\ late' = IF Live(j) THEN late ELSE late \cup {j}
    /\ UNCHANGED <<broker, worker, page, requests>>

\* The page gets an error instead: the broker refuses the job, or the API dies or its
\* answer is lost when the job is enqueued already.  The toast changes nothing else.
Refuse(j) ==
    /\ \/ api[j] = "requested" /\ api' = [api EXCEPT ![j] = "refused"]
       \/ api[j] \in {"enqueued", "answered"} /\ api' = [api EXCEPT ![j] = "done"]
    /\ UNCHANGED <<broker, worker, key, page, requests, late>>

\* A key disappears: its time to live is over, or the deletion of another project of
\* the organization sweeps org:indexing:*.
Forget(j) ==
    /\ "forget" \in Faults
    /\ key[j] # "none"
    /\ key' = [key EXCEPT ![j] = "none"]
    /\ UNCHANGED <<api, broker, worker, page, requests, late>>
-----------------------------------------------------------------------------
(* The worker processes. *)

Take(w) ==
    /\ pc[w] = "idle"
    /\ \E m \in queue :
         /\ queue' = queue \ {m}
         /\ job' = [job EXCEPT ![w] = m]
    /\ pc' = [pc EXCEPT ![w] = "start"]
    /\ UNCHANGED <<api, redelivered, key, page, requests, late>>

\* _update_progress at the end of one phase, and the next phase.
Report(w, from, status, to) ==
    /\ pc[w] = from
    /\ pc' = [pc EXCEPT ![w] = to]
    /\ Write(job[w][1], status)
    /\ UNCHANGED <<api, broker, job, page, requests, late>>

ReportCloning(w) == Report(w, "start", "cloning", "cloning")
ReportParsing(w) == Report(w, "cloning", "parsing", "parsing")
ReportFile(w) == Report(w, "parsing", "parsing", "parsing")
ReportGraph(w) == Report(w, "parsing", "building_graph", "building_graph")
ReportCompleted(w) == Report(w, "building_graph", "completed", "ending")

\* Faults: every failure is reported as the last; none is.
AlwaysFailed(r) == "failed"
NeverFailed(r) == "retrying"

\* What a failed attempt with r retries behind it reports.
FailureStatus(r) == IF r < MaxRetries THEN "retrying" ELSE "failed"

\* A call of the try block raises; after the graph there is none left.  The last attempt
\* gives up; before it the status is written and the retry published after it.
Raise(w) ==
    LET r == job[w][2] IN
    \E from \in {"start", "cloning", "parsing"} :
        Report(w, from, FailureStatus(r), IF r < MaxRetries THEN "retrying" ELSE "ending")

\* Fault: the last attempt is retried too.
PublishAlways(w) ==
    /\ pc[w] \in {"retrying", "ending"}
    /\ pc' = [pc EXCEPT ![w] = "ending"]
    /\ queue' = queue \cup {<<job[w][1], job[w][2] + 1>>}
    /\ UNCHANGED <<api, redelivered, job, key, page, requests, late>>

\* self.retry; without the broker it raises, and the attempt ends all the same.
Publish(w) ==
    /\ pc[w] = "retrying"
    /\ pc' = [pc EXCEPT ![w] = "ending"]
    /\ \/ queue' = queue \cup {<<job[w][1], job[w][2] + 1>>}
       \/ "outage" \in Faults /\ UNCHANGED queue
    /\ UNCHANGED <<api, redelivered, job, key, page, requests, late>>

\* The message is acknowledged when the task has returned or raised.
Acknowledge(w) ==
    /\ pc[w] = "ending"
    /\ pc' = [pc EXCEPT ![w] = "idle"]
    /\ job' = [job EXCEPT ![w] = NoJob]
    /\ UNCHANGED <<api, broker, key, page, requests, late>>

\* The worker dies whole: its message was not acknowledged and is delivered again.
Die(w) ==
    /\ pc[w] # "idle"
    /\ redelivered < MaxRedeliveries
    /\ redelivered' = redelivered + 1
    /\ queue' = queue \cup {job[w]}
    /\ pc' = [pc EXCEPT ![w] = "idle"]
    /\ job' = [job EXCEPT ![w] = NoJob]
    /\ UNCHANGED <<api, key, page, requests, late>>

\* A child of the pool is killed: its message is acknowledged and lost.
Vanish(w) ==
    /\ "crash" \in Faults
    /\ pc[w] # "idle"
    /\ pc' = [pc EXCEPT ![w] = "idle"]
    /\ job' = [job EXCEPT ![w] = NoJob]
    /\ UNCHANGED <<api, broker, key, page, requests, late>>

\* The visibility timeout: a second delivery while the first still runs.
Redeliver(w) ==
    /\ pc[w] # "idle"
    /\ redelivered < MaxRedeliveries
    /\ redelivered' = redelivered + 1
    /\ queue' = queue \cup {job[w]}
    /\ UNCHANGED <<api, worker, key, page, requests, late>>
-----------------------------------------------------------------------------
(* One visit of the project page. *)

\* The button is disabled only once a job id is known and until its end is shown: two
\* clicks before the first answer are two jobs.
Press(j) ==
    /\ open
    /\ jobId = NoJob \/ shown \in Ended
    /\ api[j] = "idle"
    /\ api' = [api EXCEPT ![j] = "requested"]
    /\ UNCHANGED <<broker, worker, key, page, requests, late>>

\* Fault: the old interval is forgotten.
StartAnother(j) ==
    /\ timers' = timers \cup {j}
    /\ ref' = j

\* startPolling clears the interval of pollingRef and sets a new one.
StartPolling(j) ==
    /\ timers' = (timers \ {ref}) \cup {j}
    /\ ref' = j

StopPolling ==
    /\ timers' = timers \ {ref}
    /\ ref' = NoJob

\* handleIndex after its await: the states of an unmounted page do not change, but
\* the interval is set all the same.
Answer(j) ==
    /\ api[j] = "answered"
    /\ api' = [api EXCEPT ![j] = "done"]
    /\ IF open THEN jobId' = j /\ shown' = "cloning" ELSE UNCHANGED <<jobId, shown>>
    /\ StartPolling(j)
    /\ UNCHANGED <<broker, worker, key, open, requests, late>>

\* The interval fires: a GET goes out, whether or not the last one has come back.
Tick(j, r) ==
    /\ j \in timers
    /\ requests[r] = Free
    /\ requests' = [requests EXCEPT ![r] = [job |-> j, answer |-> "sent"]]
    /\ UNCHANGED <<api, broker, worker, key, page, late>>

\* get_index_status reads the key; no key and no Redis look the same.
Serve(r) ==
    /\ requests[r] # Free /\ requests[r].answer = "sent"
    /\ LET status == key[requests[r].job] IN
       \/ status # "none" /\ requests' = [requests EXCEPT ![r].answer = status]
       \/ /\ status = "none" \/ "outage" \in Faults
          /\ requests' = [requests EXCEPT ![r].answer = "unknown"]
    /\ UNCHANGED <<api, broker, worker, key, page, late>>

\* Fault: only success ends the polling.
StopsOnSuccess(status) == status = "completed"

Stops(status) == status = "completed" \/ status = "failed"

\* The answer arrives, in any order: it is shown whatever job it is about, and the end
\* of any job stops the interval of pollingRef.
Receive(r) ==
    /\ requests[r] # Free /\ requests[r].answer # "sent"
    /\ requests' = [requests EXCEPT ![r] = Free]
    /\ shown' = IF open THEN requests[r].answer ELSE shown
    /\ IF Stops(requests[r].answer) THEN StopPolling ELSE UNCHANGED <<timers, ref>>
    /\ UNCHANGED <<api, broker, worker, key, open, jobId, late>>

\* A failed GET is ignored.
Miss(r) ==
    /\ "outage" \in Faults
    /\ requests[r] # Free
    /\ requests' = [requests EXCEPT ![r] = Free]
    /\ UNCHANGED <<api, broker, worker, key, page, late>>

\* Unmount: the interval of pollingRef is cleared.
Leave ==
    /\ open
    /\ open' = FALSE
    /\ StopPolling
    /\ UNCHANGED <<api, broker, worker, key, jobId, shown, requests, late>>
-----------------------------------------------------------------------------
Post(j) == Enqueue(j) \/ WriteInProgress(j) \/ Refuse(j) \/ Answer(j)

Attempt(w) ==
    \/ ReportCloning(w) \/ ReportParsing(w) \/ ReportGraph(w) \/ ReportCompleted(w)
    \/ Raise(w) \/ Publish(w) \/ Acknowledge(w)

Next ==
    \/ \E j \in Job : Press(j) \/ Post(j) \/ Forget(j)
    \/ \E w \in Worker :
         Take(w) \/ Attempt(w) \/ ReportFile(w) \/ Die(w) \/ Vanish(w) \/ Redeliver(w)
    \/ \E r \in Request : Serve(r) \/ Receive(r) \/ Miss(r) \/ (\E j \in Job : Tick(j, r))
    \/ Leave

Spec == Init /\ [][Next]_vars

\* Handlers, processes, the interval and its requests go on; the files of a repository
\* are finitely many, so reporting them ends.  Nobody has to press, leave or fail.
Fairness ==
    /\ \A j \in Job : WF_vars(Post(j))
    /\ \A w \in Worker : WF_vars(Take(w)) /\ WF_vars(Attempt(w))
    /\ \A r \in Request :
         /\ WF_vars(Serve(r)) /\ WF_vars(Receive(r))
         /\ WF_vars(\E j \in Job : Tick(j, r))

FairSpec == Spec /\ Fairness
-----------------------------------------------------------------------------
(* What the status promises. *)

\* However many retries and repeated deliveries interleave their writes, the key of a
\* job nobody works on any more tells how it ended, provided that nothing is lost and
\* that the API's own write did not come after the end.
StatusSettles ==
    Faults = {} =>
        \A j \in Job \ late :
            api[j] \in {"enqueued", "answered", "done"} /\ ~Live(j) => key[j] \in Ended

\* "failed" is the last word: unless a message was delivered twice, a job the key
\* calls failed has no attempt left to run, whatever was lost on the way.
FailedIsFinal ==
    redelivered = 0 => \A j \in Job : key[j] = "failed" => ~Live(j)

\* However clicks, answers and unmounting interleave, at most one interval runs and
\* the page still holds its handle, so that it can be cleared.
OneTimer == timers \ {ref} = {}

\* Polling ends: an attempt or the last retry reaches the page, or else the API's
\* write has hidden it.
PollingEnds ==
    \A j \in Job : j \in timers ~> (j \notin timers \/ j \in late)
-----------------------------------------------------------------------------
(* What comments and docstrings of the repository say, and the code does not do: TLC finds *)
(* a counterexample to each; no theorem rests on them.                                      *)

\* get_index_status: "Return indexing job status."  A job that is over is not
\* reported as being in progress.
SettledStatusShown ==
    \A j \in Job : api[j] \in {"answered", "done"} /\ key[j] = "in_progress" => Live(j)

\* "Clean up interval on unmount": no interval outlives the page.
NoTimerAfterUnmount == ~open => timers = {}

\* 'shows "Indexing completed" status when status is completed', a test of the page: one
\* that no longer polls shows an end.  But polls overlap, and an older "parsing" that
\* arrives after the end stays on display.  Nor need the end be that of the page's job: the
\* late end of one job stops the interval of the next.
StoppedShowsEnd == open /\ jobId # NoJob /\ timers = {} => shown \in Ended
=============================================================================
