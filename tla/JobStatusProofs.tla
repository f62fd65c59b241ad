-------------------------- MODULE JobStatusProofs --------------------------
(* Theorems about JobStatus, for every value of its constants. *)
EXTENDS JobStatus, TLAPS

USE DEF broker, worker, page

\* Nothing changes what a conjunct of the type invariant is about.
LEMMA Unchanged ==
    /\ JobType /\ UNCHANGED <<api, key, late>> => JobType'
    /\ BrokerType /\ UNCHANGED broker => BrokerType'
    /\ WorkerType /\ UNCHANGED worker => WorkerType'
    /\ PageType /\ UNCHANGED page => PageType'
    /\ RequestType /\ UNCHANGED requests => RequestType'
  BY DEF JobType, BrokerType, WorkerType, PageType, RequestType

\* The message of a worker that is not idle.
LEMMA BusyMessage ==
    ASSUME WorkerType, NEW w \in Worker, pc[w] # "idle"
    PROVE  /\ job[w] \in Message
           /\ job[w][1] \in Job /\ job[w][2] \in 0 .. MaxRetries
           /\ job[w] = <<job[w][1], job[w][2]>>
  BY DEF WorkerType, Message

\* A worker that becomes idle, and one that reports a status.
LEMMA IdleType ==
    ASSUME WorkerType, NEW w \in Worker, pc' = [pc EXCEPT ![w] = "idle"],
           job' = [job EXCEPT ![w] = NoJob]
    PROVE  WorkerType'
  BY JobStatusAssumption DEF WorkerType, JobStatusAssumption, Message

LEMMA ReportType ==
    ASSUME TypeOK, NEW w \in Worker, NEW from, from # "idle", NEW status \in Status,
           NEW to \in {"cloning", "parsing", "building_graph", "retrying", "ending"},
           to = "retrying" => job[w][2] < MaxRetries,
           Report(w, from, status, to)
    PROVE  TypeOK'
  <1>1. job[w][1] \in Job
    BY BusyMessage DEF Report, TypeOK
  <1>2. JobType'
    BY <1>1 DEF Report, Write, TypeOK, JobType
  <1>3. WorkerType'
    BY DEF Report, TypeOK, WorkerType
  <1> QED
    BY <1>2, <1>3, Unchanged DEF Report, TypeOK

\* The message of a worker comes back to the queue.
LEMMA RequeueType ==
    ASSUME BrokerType, WorkerType, NEW w \in Worker, pc[w] # "idle",
           redelivered < MaxRedeliveries, redelivered' = redelivered + 1,
           queue' = queue \cup {job[w]}
    PROVE  BrokerType'
  BY BusyMessage, JobStatusAssumption DEF BrokerType, JobStatusAssumption

\* Setting and clearing the interval keep the page well typed.
LEMMA PollingType ==
    ASSUME PageType, open' \in BOOLEAN, jobId' \in Job \cup {NoJob},
           shown' \in Status \cup {"none", "unknown"},
           StopPolling \/ (\E j \in Job : StartPolling(j)) \/ UNCHANGED <<timers, ref>>
    PROVE  PageType'
  BY DEF PageType, StopPolling, StartPolling
-----------------------------------------------------------------------------
\* The type invariant: among others, a failed attempt publishes a retry only while one
\* is left.
THEOREM JobTypeCorrect == Spec => []TypeOK
<1>1. Init => TypeOK
  <2> SUFFICES ASSUME Init PROVE TypeOK
    OBVIOUS
  <2>1. JobType /\ WorkerType
    BY DEF Init, JobType, WorkerType
  <2>2. BrokerType
    BY JobStatusAssumption DEF Init, BrokerType, JobStatusAssumption
  <2>3. PageType /\ RequestType
    BY DEF Init, PageType, RequestType
  <2> QED
    BY <2>1, <2>2, <2>3 DEF TypeOK
<1>2. TypeOK /\ [Next]_vars => TypeOK'
  <2> SUFFICES ASSUME TypeOK, [Next]_vars PROVE TypeOK'
    OBVIOUS
  <2> USE DEF TypeOK
  <2>1. ASSUME NEW j \in Job, Press(j) PROVE TypeOK'
    <3>1. JobType'
      BY <2>1 DEF Press, JobType
    <3> QED BY <2>1, <3>1, Unchanged DEF Press
  <2>2. ASSUME NEW j \in Job, Enqueue(j) PROVE TypeOK'
    <3>1. JobType'
      BY <2>2 DEF Enqueue, JobType
    <3>2. BrokerType'
      BY <2>2, JobStatusAssumption DEF Enqueue, BrokerType, Message, JobStatusAssumption
    <3> QED BY <2>2, <3>1, <3>2, Unchanged DEF Enqueue
  <2>3. ASSUME NEW j \in Job, WriteInProgress(j) PROVE TypeOK'
    <3>1. JobType'
      BY <2>3 DEF WriteInProgress, Write, JobType, Status
    <3> QED BY <2>3, <3>1, Unchanged DEF WriteInProgress
  <2>4. ASSUME NEW j \in Job, Refuse(j) PROVE TypeOK'
    <3>1. JobType'
      BY <2>4 DEF Refuse, JobType
    <3> QED BY <2>4, <3>1, Unchanged DEF Refuse
  <2>5. ASSUME NEW j \in Job, Forget(j) PROVE TypeOK'
    <3>1. JobType'
      BY <2>5 DEF Forget, JobType
    <3> QED BY <2>5, <3>1, Unchanged DEF Forget
  <2>6. ASSUME NEW j \in Job, Answer(j) PROVE TypeOK'
    <3>1. JobType'
      BY <2>6 DEF Answer, JobType
    <3>2. PageType'
      BY <2>6, PollingType DEF Answer, PageType, Status
    <3> QED BY <2>6, <3>1, <3>2, Unchanged DEF Answer
  <2>7. ASSUME NEW w \in Worker, Take(w) PROVE TypeOK'
    <3>1. BrokerType'
      BY <2>7 DEF Take, BrokerType
    <3>2. WorkerType'
      BY <2>7 DEF Take, WorkerType, BrokerType
    <3> QED BY <2>7, <3>1, <3>2, Unchanged DEF Take
  <2>8. ASSUME NEW w \in Worker,
               ReportCloning(w) \/ ReportParsing(w) \/ ReportFile(w) \/ ReportGraph(w)
                 \/ ReportCompleted(w)
        PROVE  TypeOK'
    BY <2>8, ReportType DEF ReportCloning, ReportParsing, ReportFile, ReportGraph,
       ReportCompleted, Status
  <2>9. ASSUME NEW w \in Worker, Raise(w) PROVE TypeOK'
    BY <2>9, ReportType DEF Raise, FailureStatus, Status
  <2>10. ASSUME NEW w \in Worker, Publish(w) PROVE TypeOK'
    <3>1. <<job[w][1], job[w][2] + 1>> \in Message
      BY <2>10, BusyMessage, JobStatusAssumption DEF Publish, WorkerType, Message,
         JobStatusAssumption
    <3>2. BrokerType'
      BY <2>10, <3>1 DEF Publish, BrokerType
    <3>3. WorkerType'
      BY <2>10 DEF Publish, WorkerType
    <3> QED BY <2>10, <3>2, <3>3, Unchanged DEF Publish
  <2>11. ASSUME NEW w \in Worker, Acknowledge(w) \/ Vanish(w) PROVE TypeOK'
    BY <2>11, IdleType, Unchanged DEF Acknowledge, Vanish
  <2>12. ASSUME NEW w \in Worker, Die(w) PROVE TypeOK'
    BY <2>12, IdleType, RequeueType, Unchanged DEF Die
  <2>13. ASSUME NEW w \in Worker, Redeliver(w) PROVE TypeOK'
    BY <2>13, RequeueType, Unchanged DEF Redeliver
  <2>14. ASSUME NEW r \in Request, Serve(r) PROVE TypeOK'
    <3>1. requests[r] \in Poll
      BY <2>14 DEF Serve, RequestType
    <3>2. key[requests[r].job] \in Status \cup {"none"}
      BY <3>1 DEF Poll, JobType
    <3>3. \A answer \in Status \cup {"unknown"} : [requests[r] EXCEPT !.answer = answer] \in Poll
      BY <3>1 DEF Poll
    <3>4. RequestType'
      BY <2>14, <3>2, <3>3 DEF Serve, RequestType
    <3> QED BY <2>14, <3>4, Unchanged DEF Serve
  <2>15. ASSUME NEW r \in Request, Receive(r) PROVE TypeOK'
    <3>1. requests[r] \in Poll
      BY <2>15 DEF Receive, RequestType
    <3>2. requests[r].answer \in Status \cup {"none", "unknown"}
      BY <2>15, <3>1 DEF Receive, Poll
    <3>3. PageType'
      BY <2>15, <3>2, PollingType DEF Receive, PageType
    <3>4. RequestType'
      BY <2>15 DEF Receive, RequestType
    <3> QED BY <2>15, <3>3, <3>4, Unchanged DEF Receive
  <2>16. ASSUME NEW r \in Request, Miss(r) PROVE TypeOK'
    <3>1. RequestType'
      BY <2>16 DEF Miss, RequestType
    <3> QED BY <2>16, <3>1, Unchanged DEF Miss
  <2>17. ASSUME NEW r \in Request, NEW j \in Job, Tick(j, r) PROVE TypeOK'
    <3>1. RequestType'
      BY <2>17 DEF Tick, RequestType, Poll
    <3> QED BY <2>17, <3>1, Unchanged DEF Tick
  <2>18. CASE Leave
    <3>1. PageType'
      BY <2>18, PollingType DEF Leave, PageType
    <3> QED BY <2>18, <3>1, Unchanged DEF Leave
  <2>19. CASE UNCHANGED vars
    BY <2>19, Unchanged DEF vars
  <2> QED
    BY <2>1, <2>2, <2>3, <2>4, <2>5, <2>6, <2>7, <2>8, <2>9, <2>10, <2>11, <2>12, <2>13,
       <2>14, <2>15, <2>16, <2>17, <2>18, <2>19 DEF Next, Post, Attempt
<1> QED
  BY <1>1, <1>2, PTL DEF Spec
-----------------------------------------------------------------------------
(* StatusSettles is inductive once the types are known: every write of an unfinished *)
(* status is followed by work for the same job.                                      *)

\* The promise for one job.
Settles(j) ==
    j \notin late /\ api[j] \in {"enqueued", "answered", "done"} /\ ~Live(j) => key[j] \in Ended

\* Work for a job goes on when neither its messages nor its working processes leave.
LEMMA LiveStays ==
    ASSUME NEW j \in Job, Live(j), queue \subseteq queue',
           \A w \in Worker : Working(w) /\ job[w][1] = j => Working(w)' /\ job'[w] = job[w]
    PROVE  Live(j)'
  BY DEF Live

\* A write for one job, followed by work for it or the end of it, settles no other job.
LEMMA ReportSettles ==
    ASSUME TypeOK, Faults = {}, \A i \in Job : Settles(i), NEW w \in Worker, NEW from,
           from \notin {"idle", "ending"}, NEW status, NEW to, Report(w, from, status, to),
           (to # "ending" /\ to # "idle") \/ status \in Ended
    PROVE  \A i \in Job : Settles(i)'
  <1> SUFFICES ASSUME NEW i \in Job PROVE Settles(i)'
    OBVIOUS
  <1>1. /\ pc[w] = from /\ pc' = [pc EXCEPT ![w] = to]
        /\ key' = [key EXCEPT ![job[w][1]] = status]
        /\ UNCHANGED <<api, queue, job, late>>
    BY DEF Report, Write
  <1>2. Working(w) /\ job[w][1] \in Job
    BY <1>1, BusyMessage DEF Working, TypeOK
  <1>3. CASE i = job[w][1] /\ to # "ending" /\ to # "idle"
    <2>1. Working(w)' /\ job'[w][1] = i
      BY <1>1, <1>3 DEF Working, TypeOK, WorkerType
    <2> QED BY <2>1 DEF Settles, Live
  <1>4. CASE i = job[w][1] /\ status \in Ended
    BY <1>1, <1>2, <1>4 DEF Settles, TypeOK, JobType
  <1>5. CASE i # job[w][1]
    <2>1. key'[i] = key[i]
      BY <1>1, <1>5 DEF TypeOK, JobType
    <2>2. Live(i) => Live(i)'
      BY <1>1, <1>5, LiveStays DEF Working, TypeOK, WorkerType
    <2> QED BY <1>1, <2>1, <2>2 DEF Settles
  <1> QED
    BY <1>3, <1>4, <1>5

\* A step that neither writes the key nor ends work for a job keeps every promise.
LEMMA QuietSettles ==
    ASSUME \A i \in Job : Settles(i), UNCHANGED <<api, key, late>>,
           \A i \in Job : Live(i) => Live(i)'
    PROVE  \A i \in Job : Settles(i)'
  BY DEF Settles

\* However retries, repeated deliveries and crashes with redelivery interleave their
\* writes, a job nobody works on any more reads as ended, if the API did not write last.
THEOREM StatusIsFinal == Spec => []StatusSettles
<1> DEFINE Promise == Faults = {} => \A i \in Job : Settles(i)
<1>1. Init => Promise
  BY DEF Init, Settles
<1>2. TypeOK /\ Promise /\ [Next]_vars => Promise'
  <2> SUFFICES ASSUME TypeOK, Faults = {}, \A i \in Job : Settles(i), [Next]_vars
               PROVE  \A i \in Job : Settles(i)'
    OBVIOUS
  <2>1. ASSUME NEW j \in Job, Press(j) PROVE \A i \in Job : Settles(i)'
    BY <2>1 DEF Press, Settles, Live, Working, TypeOK, JobType
  <2>2. ASSUME NEW j \in Job, Enqueue(j) PROVE \A i \in Job : Settles(i)'
    <3>1. <<j, 0>> \in queue' /\ <<j, 0>>[1] = j
      BY <2>2 DEF Enqueue
    <3>2. Live(j)'
      BY <3>1 DEF Live
    <3>3. \A i \in Job : Live(i) => Live(i)'
      BY <2>2, LiveStays DEF Enqueue, Working
    <3> QED BY <2>2, <3>2, <3>3 DEF Enqueue, Settles, TypeOK, JobType
  <2>3. ASSUME NEW j \in Job, WriteInProgress(j) PROVE \A i \in Job : Settles(i)'
    <3>1. \A i \in Job : Live(i) <=> Live(i)'
      BY <2>3 DEF WriteInProgress, Live, Working
    <3> QED BY <2>3, <3>1 DEF WriteInProgress, Write, Settles, TypeOK, JobType
  <2>4. ASSUME NEW j \in Job, Refuse(j) \/ Answer(j) PROVE \A i \in Job : Settles(i)'
    <3>1. \A i \in Job : Live(i) <=> Live(i)'
      BY <2>4 DEF Refuse, Answer, Live, Working
    <3> QED BY <2>4, <3>1 DEF Refuse, Answer, Settles, TypeOK, JobType
  <2>5. ASSUME NEW j \in Job, Forget(j) PROVE FALSE
    BY <2>5 DEF Forget
  <2>6. ASSUME NEW w \in Worker, Take(w) PROVE \A i \in Job : Settles(i)'
    <3>1. PICK m \in queue : queue' = queue \ {m} /\ job' = [job EXCEPT ![w] = m]
      BY <2>6 DEF Take
    <3>2. Working(w)' /\ job'[w] = m
      BY <2>6, <3>1 DEF Take, Working, TypeOK, WorkerType
    <3>3. ~Working(w) /\ \A v \in Worker \ {w} : (Working(v) <=> Working(v)') /\ job'[v] = job[v]
      BY <2>6, <3>1 DEF Take, Working, TypeOK, WorkerType
    <3>4. \A i \in Job : Live(i) => Live(i)'
      BY <3>1, <3>2, <3>3 DEF Live
    <3> QED BY <2>6, <3>4, QuietSettles DEF Take
  <2>7. ASSUME NEW w \in Worker,
               ReportCloning(w) \/ ReportParsing(w) \/ ReportFile(w) \/ ReportGraph(w)
                 \/ ReportCompleted(w)
        PROVE  \A i \in Job : Settles(i)'
    BY <2>7, ReportSettles DEF ReportCloning, ReportParsing, ReportFile, ReportGraph,
       ReportCompleted, Ended
  <2>8. ASSUME NEW w \in Worker, Raise(w) PROVE \A i \in Job : Settles(i)'
    BY <2>8, ReportSettles DEF Raise, FailureStatus, Ended
  <2>9. ASSUME NEW w \in Worker, Publish(w) PROVE \A i \in Job : Settles(i)'
    <3>1. PICK j \in Job : \E m : /\ j = job[w][1] /\ m = <<j, job[w][2] + 1>>
                                  /\ queue' = queue \cup {m}
      BY <2>9, BusyMessage DEF Publish, TypeOK
    <3>2. Live(j)'
      BY <3>1 DEF Live
    <3>3. \A i \in Job : i # j /\ Live(i) => Live(i)'
      BY <2>9, <3>1, LiveStays DEF Publish, Working, TypeOK, WorkerType
    <3>4. \A i \in Job : Live(i) => Live(i)'
      BY <3>2, <3>3
    <3> QED BY <2>9, <3>4, QuietSettles DEF Publish
  <2>10. ASSUME NEW w \in Worker, Acknowledge(w) PROVE \A i \in Job : Settles(i)'
    <3>1. \A i \in Job : Live(i) => Live(i)'
      BY <2>10, LiveStays DEF Acknowledge, Working, TypeOK, WorkerType
    <3> QED BY <2>10, <3>1, QuietSettles DEF Acknowledge
  <2>11. ASSUME NEW w \in Worker, Die(w) PROVE \A i \in Job : Settles(i)'
    <3>1. PICK m \in Message : m = job[w] /\ queue' = queue \cup {m}
      BY <2>11, BusyMessage DEF Die, TypeOK
    <3>2. Live(m[1])'
      BY <3>1 DEF Live
    <3>3. \A i \in Job : i # m[1] /\ Live(i) => Live(i)'
      BY <2>11, <3>1, LiveStays DEF Die, Working, TypeOK, WorkerType
    <3>4. \A i \in Job : Live(i) => Live(i)'
      BY <3>2, <3>3
    <3> QED BY <2>11, <3>4, QuietSettles DEF Die
  <2>12. ASSUME NEW w \in Worker, Vanish(w) PROVE FALSE
    BY <2>12 DEF Vanish
  <2>13. ASSUME NEW w \in Worker, Redeliver(w) PROVE \A i \in Job : Settles(i)'
    <3>1. \A i \in Job : Live(i) => Live(i)'
      BY <2>13, LiveStays DEF Redeliver, Working
    <3> QED BY <2>13, <3>1, QuietSettles DEF Redeliver
  <2>14. ASSUME UNCHANGED <<api, broker, worker, key, late>> PROVE \A i \in Job : Settles(i)'
    <3>1. \A i \in Job : Live(i) => Live(i)'
      BY <2>14 DEF Live, Working
    <3> QED BY <2>14, <3>1, QuietSettles
  <2>15. ASSUME NEW r \in Request,
                Serve(r) \/ Receive(r) \/ Miss(r) \/ (\E j \in Job : Tick(j, r))
         PROVE  \A i \in Job : Settles(i)'
    BY <2>14, <2>15 DEF Serve, Receive, Miss, Tick
  <2>16. CASE Leave \/ UNCHANGED vars
    BY <2>14, <2>16 DEF Leave, vars
  <2> QED
    BY <2>1, <2>2, <2>3, <2>4, <2>5, <2>6, <2>7, <2>8, <2>9, <2>10, <2>11, <2>12, <2>13,
       <2>15, <2>16 DEF Next, Post, Attempt
<1>3. Promise => StatusSettles
  BY DEF StatusSettles, Settles
<1> QED
  BY <1>1, <1>2, <1>3, JobTypeCorrect, PTL DEF Spec
-----------------------------------------------------------------------------
(* FailedIsFinal is about a job that is delivered once.  Then an attempt is alone: its   *)
(* message, the process that works on it and the message of its retry follow each other. *)

\* The attempts of a job that are waiting or running are one at most.
OneMessage == \A m, n \in queue : m[1] = n[1] => m = n
OneProcess ==
    \A v, w \in Worker : Working(v) /\ Working(w) /\ job[v][1] = job[w][1] => v = w
OneOfBoth == \A m \in queue, w \in Worker : Working(w) => job[w][1] # m[1]
Alone == OneMessage /\ OneProcess /\ OneOfBoth

\* Before the API enqueues a job there is nothing of it.
Unborn == \A j \in Job : api[j] \in {"idle", "requested"} => key[j] = "none" /\ ~Live(j)

FailedOver == \A j \in Job : key[j] = "failed" => ~Live(j)

FinalInv == redelivered = 0 => Alone /\ Unborn /\ FailedOver

\* A step that neither enqueues nor takes a message, after which no process works that did
\* not work on the same job before, brings no job back.
LEMMA NothingBorn ==
    ASSUME queue' \subseteq queue,
           \A w \in Worker : Working(w)' => Working(w) /\ job'[w] = job[w]
    PROVE  /\ \A j \in Job : Live(j)' => Live(j)
           /\ Alone => Alone'
  BY DEF Live, Alone, OneMessage, OneProcess, OneOfBoth

\* Such a step keeps the invariant if it writes no "failed" and a key only for a job that
\* has been enqueued.
LEMMA QuietFinal ==
    ASSUME Alone, Unborn, FailedOver, queue' \subseteq queue,
           \A w \in Worker : Working(w)' => Working(w) /\ job'[w] = job[w],
           \A j \in Job : key'[j] = "failed" => key[j] = "failed" \/ ~ Live(j)',
           \A j \in Job : api'[j] \in {"idle", "requested"} =>
               api[j] \in {"idle", "requested"} /\ key'[j] \in {key[j], "none"}
    PROVE  Alone' /\ Unborn' /\ FailedOver'
  <1>1. (\A j \in Job : Live(j)' => Live(j)) /\ Alone'
    BY NothingBorn
  <1>2. Unborn'
    BY <1>1 DEF Unborn
  <1>3. FailedOver'
    BY <1>1 DEF FailedOver
  <1> QED
    BY <1>1, <1>2, <1>3

\* The attempt that reports is the only one of its job, which therefore has been enqueued.
LEMMA ReportFinal ==
    ASSUME TypeOK, Alone, Unborn, FailedOver, NEW w \in Worker, NEW from,
           from \notin {"idle", "ending"}, NEW status, NEW to, to # "idle",
           status = "failed" => to = "ending", Report(w, from, status, to)
    PROVE  Alone' /\ Unborn' /\ FailedOver'
  <1> DEFINE j == job[w][1]
  <1>1. /\ pc[w] = from /\ pc' = [pc EXCEPT ![w] = to] /\ UNCHANGED <<api, queue, job>>
        /\ key' = [key EXCEPT ![j] = status] \/ UNCHANGED key
    BY DEF Report, Write
  <1>2. Working(w) /\ j \in Job /\ Live(j)
    BY <1>1, BusyMessage DEF Working, TypeOK, Live
  <1>3. \A v \in Worker : Working(v)' => Working(v) /\ job'[v] = job[v]
    BY <1>1, <1>2 DEF Working, TypeOK, WorkerType
  <1>4. ASSUME status = "failed" PROVE ~ Live(j)'
    <2>1. \A m \in queue' : m[1] # j
      BY <1>1, <1>2 DEF Alone, OneOfBoth
    <2>2. ASSUME NEW v \in Worker, Working(v)' PROVE job'[v][1] # j
      <3>1. v # w
        BY <1>1, <1>4, <2>2 DEF Working, TypeOK, WorkerType
      <3> QED
        BY <1>1, <1>2, <1>3, <2>2, <3>1 DEF Alone, OneProcess
    <2> QED
      BY <1>1, <2>1, <2>2 DEF Live
  <1>5. \A i \in Job : key'[i] = "failed" => key[i] = "failed" \/ ~ Live(i)'
    BY <1>1, <1>2, <1>4 DEF TypeOK, JobType
  <1>6. \A i \in Job : api'[i] \in {"idle", "requested"} =>
           api[i] \in {"idle", "requested"} /\ key'[i] \in {key[i], "none"}
    BY <1>1, <1>2 DEF TypeOK, JobType, Unborn
  <1> QED
    BY <1>1, <1>3, <1>5, <1>6, QuietFinal

\* No attempt follows a "failed" status of a job that is delivered once, whatever is lost.
THEOREM FailureIsFinal == Spec => []FailedIsFinal
<1>1. Init => FinalInv
  BY DEF Init, FinalInv, Alone, OneMessage, OneProcess, OneOfBoth, Unborn, FailedOver, Live, Working
<1>2. TypeOK /\ FinalInv /\ [Next]_vars => FinalInv'
  <2> SUFFICES ASSUME TypeOK, FinalInv, [Next]_vars, redelivered' = 0
               PROVE  Alone' /\ Unborn' /\ FailedOver'
    BY DEF FinalInv
  <2>1. redelivered \in Nat /\ (redelivered' = redelivered \/ redelivered' = redelivered + 1)
    <3>1. redelivered \in Nat
      BY JobStatusAssumption DEF TypeOK, BrokerType
    <3>2. ASSUME NEW w \in Worker, Take(w) \/ Attempt(w) \/ ReportFile(w) \/ Vanish(w)
          PROVE  redelivered' = redelivered
      BY <3>2 DEF Take, Attempt, ReportFile, Vanish, ReportCloning, ReportParsing, ReportGraph,
         ReportCompleted, Raise, Publish, Acknowledge, Report
    <3>3. ASSUME NEW j \in Job, Press(j) \/ Post(j) \/ Forget(j) PROVE redelivered' = redelivered
      BY <3>3 DEF Press, Post, Enqueue, WriteInProgress, Refuse, Answer, Forget
    <3>4. ASSUME NEW r \in Request,
                 Serve(r) \/ Receive(r) \/ Miss(r) \/ (\E j \in Job : Tick(j, r))
          PROVE  redelivered' = redelivered
      BY <3>4 DEF Serve, Receive, Miss, Tick
    <3> QED
      BY <3>1, <3>2, <3>3, <3>4 DEF Next, Die, Redeliver, Leave, vars
  <2>2. Alone /\ Unborn /\ FailedOver
    BY <2>1 DEF FinalInv
  <2>3. \A w \in Worker : ~ Die(w) /\ ~ Redeliver(w)
    BY <2>1 DEF Die, Redeliver
  <2>4. ASSUME NEW j \in Job, Press(j) \/ Refuse(j) \/ Forget(j) \/ Answer(j)
        PROVE  Alone' /\ Unborn' /\ FailedOver'
    BY <2>2, <2>4, QuietFinal
    DEF Press, Refuse, Forget, Answer, Working, TypeOK, JobType
  <2>5. ASSUME NEW j \in Job, Enqueue(j) PROVE Alone' /\ Unborn' /\ FailedOver'
    <3>1. /\ key[j] = "none" /\ ~ Live(j)
          /\ queue' = queue \cup {<<j, 0>>} /\ UNCHANGED <<pc, job, key>>
          /\ \A i \in Job : i # j => api'[i] = api[i]
          /\ api'[j] = "enqueued"
      BY <2>2, <2>5 DEF Enqueue, Unborn, TypeOK, JobType
    <3>2. Alone'
      BY <2>2, <3>1 DEF Alone, OneMessage, OneProcess, OneOfBoth, Live, Working
    <3>3. \A i \in Job : i # j /\ Live(i)' => Live(i)
      BY <3>1 DEF Live, Working
    <3> QED
      BY <2>2, <3>1, <3>2, <3>3 DEF Unborn, FailedOver
  <2>6. ASSUME NEW j \in Job, WriteInProgress(j) PROVE Alone' /\ Unborn' /\ FailedOver'
    BY <2>2, <2>6, QuietFinal DEF WriteInProgress, Write, Working, TypeOK, JobType
  <2>7. ASSUME NEW w \in Worker, Take(w) PROVE Alone' /\ Unborn' /\ FailedOver'
    <3>1. PICK m \in queue : queue' = queue \ {m} /\ job' = [job EXCEPT ![w] = m]
      BY <2>7 DEF Take
    <3>2. job'[w] = m /\ \A v \in Worker \ {w} : (Working(v) <=> Working(v)') /\ job'[v] = job[v]
      BY <2>7, <3>1 DEF Take, Working, TypeOK, WorkerType
    <3>3. \A i \in Job : Live(i)' => Live(i)
      BY <3>1, <3>2 DEF Live
    <3>4. Alone'
      BY <2>2, <3>1, <3>2 DEF Alone, OneMessage, OneProcess, OneOfBoth
    <3> QED
      BY <2>2, <2>7, <3>3, <3>4 DEF Take, Unborn, FailedOver
  <2>8. ASSUME NEW w \in Worker,
               ReportCloning(w) \/ ReportParsing(w) \/ ReportFile(w) \/ ReportGraph(w)
                 \/ ReportCompleted(w)
        PROVE  Alone' /\ Unborn' /\ FailedOver'
    BY <2>2, <2>8, ReportFinal
    DEF ReportCloning, ReportParsing, ReportFile, ReportGraph, ReportCompleted
  <2>9. ASSUME NEW w \in Worker, Raise(w) PROVE Alone' /\ Unborn' /\ FailedOver'
    BY <2>2, <2>9, ReportFinal DEF Raise, FailureStatus
  <2>10. ASSUME NEW w \in Worker, Publish(w) PROVE Alone' /\ Unborn' /\ FailedOver'
    <3> DEFINE j == job[w][1]
               m == <<j, job[w][2] + 1>>
    <3>1. Working(w) /\ j \in Job /\ Live(j) /\ m[1] = j
      BY <2>10, BusyMessage DEF Publish, Working, TypeOK, Live
    <3>2. /\ \A v \in Worker : Working(v)' => Working(v) /\ v # w
          /\ queue' \subseteq queue \cup {m} /\ UNCHANGED <<job, api, key>>
      BY <2>10 DEF Publish, Working, TypeOK, WorkerType
    <3>3. \A i \in Job : Live(i)' => Live(i)
      <4> HIDE DEF m
      <4> QED
        BY <3>1, <3>2 DEF Live
    <3>4. Alone'
      <4> HIDE DEF m
      <4> QED
        BY <2>2, <3>1, <3>2 DEF Alone, OneMessage, OneProcess, OneOfBoth
    <3> QED
      BY <2>2, <3>2, <3>3, <3>4 DEF Unborn, FailedOver
  <2>11. ASSUME NEW w \in Worker, Acknowledge(w) \/ Vanish(w)
         PROVE  Alone' /\ Unborn' /\ FailedOver'
    BY <2>2, <2>11, QuietFinal DEF Acknowledge, Vanish, Working, TypeOK, WorkerType
  <2>12. ASSUME UNCHANGED <<api, broker, worker, key>> PROVE Alone' /\ Unborn' /\ FailedOver'
    BY <2>2, <2>12, QuietFinal DEF Working
  <2>13. ASSUME NEW r \in Request,
                Serve(r) \/ Receive(r) \/ Miss(r) \/ (\E j \in Job : Tick(j, r))
         PROVE  Alone' /\ Unborn' /\ FailedOver'
    BY <2>12, <2>13 DEF Serve, Receive, Miss, Tick
  <2>14. CASE Leave \/ UNCHANGED vars
    BY <2>12, <2>14 DEF Leave, vars
  <2> QED
    BY <2>3, <2>4, <2>5, <2>6, <2>7, <2>8, <2>9, <2>10, <2>11, <2>13, <2>14
    DEF Next, Post, Attempt
<1>3. FinalInv => FailedIsFinal
  BY DEF FinalInv, FailedOver, FailedIsFinal
<1> QED
  BY <1>1, <1>2, <1>3, JobTypeCorrect, PTL DEF Spec
-----------------------------------------------------------------------------
(* The interval of the page. *)

\* What the page and its requests do not do changes nothing of them.
LEMMA ElsewhereStep ==
    ASSUME [Next]_vars
    PROVE  \/ UNCHANGED <<page, requests>>
           \/ \E j \in Job : Answer(j)
           \/ \E r \in Request : Serve(r) \/ Receive(r) \/ Miss(r) \/ (\E j \in Job : Tick(j, r))
           \/ Leave
  <1>1. ASSUME NEW j \in Job, Press(j) \/ Enqueue(j) \/ WriteInProgress(j) \/ Refuse(j) \/ Forget(j)
        PROVE  UNCHANGED <<page, requests>>
    BY <1>1 DEF Press, Enqueue, WriteInProgress, Refuse, Forget
  <1>2. ASSUME NEW w \in Worker,
               Take(w) \/ Attempt(w) \/ ReportFile(w) \/ Die(w) \/ Vanish(w) \/ Redeliver(w)
        PROVE  UNCHANGED <<page, requests>>
    BY <1>2
    DEF Take, Attempt, ReportFile, Die, Vanish, Redeliver, ReportCloning, ReportParsing,
        ReportGraph, ReportCompleted, Raise, Publish, Acknowledge, Report
  <1>3. CASE UNCHANGED vars
    BY <1>3 DEF vars
  <1> QED
    BY <1>1, <1>2, <1>3 DEF Next, Post

\* Whatever is clicked, answered or lost, at most one interval runs, and the page can clear it.
THEOREM TimersAreCleared == Spec => []OneTimer
<1>1. Init => OneTimer
  BY DEF Init, OneTimer
<1>2. OneTimer /\ [Next]_vars => OneTimer'
  <2> SUFFICES ASSUME OneTimer, [Next]_vars PROVE OneTimer'
    OBVIOUS
  <2>1. ASSUME NEW j \in Job, Answer(j) PROVE OneTimer'
    BY <2>1 DEF Answer, StartPolling, OneTimer
  <2>2. ASSUME NEW r \in Request, Receive(r) PROVE OneTimer'
    BY <2>2 DEF Receive, StopPolling, OneTimer
  <2>3. ASSUME NEW r \in Request, Serve(r) \/ Miss(r) \/ (\E j \in Job : Tick(j, r)) PROVE OneTimer'
    BY <2>3 DEF Serve, Miss, Tick, OneTimer
  <2>4. CASE Leave
    BY <2>4 DEF Leave, StopPolling, OneTimer
  <2>5. CASE UNCHANGED <<page, requests>>
    BY <2>5 DEF OneTimer
  <2> QED
    BY <2>1, <2>2, <2>3, <2>4, <2>5, ElsewhereStep
<1> QED
  BY <1>1, <1>2, PTL DEF Spec
=============================================================================
