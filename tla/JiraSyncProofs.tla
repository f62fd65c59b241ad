--------------------------- MODULE JiraSyncProofs ---------------------------
(* Theorems about JiraSync, for every value of its constants. *)
EXTENDS JiraSync, FiniteSetTheorems, TLAPS

USE DEF Becomes

\* What a step needs to know of the attempts to tell where it leads.
Shaped ==
    /\ DOMAIN job = Job
    /\ \A j \in Job :
          /\ {"pc", "retries"} \subseteq DOMAIN job[j]
          /\ job[j].pc \in {"idle", "queued"} \cup Running \cup Ended
          /\ job[j].retries \in 0 .. MaxRetries

\* The step of one sync, the others being left alone.
Only(j, p, r) ==
    /\ DOMAIN job' = Job
    /\ \A i \in Job \ {j} : job'[i] = job[i]
    /\ {"pc", "retries"} \subseteq DOMAIN job'[j]
    /\ job'[j].pc = p
    /\ job'[j].retries = r

LEMMA StaysShaped ==
    ASSUME Shaped, NEW j \in Job, NEW p \in {"idle", "queued"} \cup Running \cup Ended,
           NEW r \in 0 .. MaxRetries, Only(j, p, r)
    PROVE  Shaped'
  BY DEF Shaped, Only

\* The life of the sync, as the abstract specification sees the step.
LEMMA LifeOf ==
    ASSUME Shaped, NEW j \in Job, NEW p, NEW r, Only(j, p, r)
    PROVE  /\ Phase' = [Phase EXCEPT ![j] = IF p \in Running THEN "running" ELSE p]
           /\ Attempts' = [Attempts EXCEPT ![j] = r]
           /\ Phase[j] = IF job[j].pc \in Running THEN "running" ELSE job[j].pc
           /\ Attempts[j] = job[j].retries
           /\ r = job[j].retries => UNCHANGED Attempts
  BY DEF Shaped, Only, Phase, Attempts

\* A step of the job from one call to the next is none of its life.
LEMMA Working ==
    ASSUME Shaped, NEW j \in Job, NEW p \in Running, job[j].pc \in Running,
           Only(j, p, job[j].retries)
    PROVE  Phase' = Phase /\ Attempts' = Attempts
  BY DEF Shaped, Only, Phase, Attempts

\* The steps that begin again from Fresh.
LEMMA FreshIsOnly ==
    ASSUME Shaped, NEW j \in Job, NEW p, NEW r, job' = [job EXCEPT ![j] = Fresh(p, r)]
    PROVE  Only(j, p, r)
  BY DEF Shaped, Only, Fresh

\* The steps that move the position of the attempt.
LEMMA StepIsOnly ==
    ASSUME Shaped, NEW j \in Job, NEW from, NEW p, Step(j, from, p)
    PROVE  Only(j, p, job[j].retries)
  BY DEF Shaped, Only, Step

\* A call of a running attempt that does not end it.
Calls(j) ==
    \/ LoadProject(j) \/ BuildClients(j) \/ Fetch(j) \/ StoreTicket(j) \/ Embed(j)
    \/ UpsertBatch(j)

LEMMA CallsAreOnly ==
    ASSUME Shaped, NEW j \in Job, Calls(j)
    PROVE  job[j].pc \in Running /\ \E p \in Running : Only(j, p, job[j].retries)
  <1>1. CASE LoadProject(j)
    BY <1>1 DEF LoadProject, Shaped, Only, Running
  <1>2. CASE BuildClients(j)
    BY <1>2 DEF BuildClients, Step, Shaped, Only, Running
  <1>3. CASE Fetch(j)
    BY <1>3 DEF Fetch, Shaped, Only, Running
  <1>4. CASE StoreTicket(j)
    BY <1>4 DEF StoreTicket, Shaped, Only, Running
  <1>5. CASE Embed(j)
    BY <1>5 DEF Embed, Shaped, Only, Running
  <1>6. CASE UpsertBatch(j)
    <2>1. /\ job[j].pc = "embed"
          /\ \/ \E last : Becomes(j, [job[j] EXCEPT
                   !.sent = last, !.pc = IF last = Len(job[j].texts) THEN "finish" ELSE @])
             \/ Becomes(j, [job[j] EXCEPT !.pc = "finish", !.errors = TRUE])
      BY <1>6 DEF UpsertBatch
    <2> QED
      BY <2>1 DEF Shaped, Only, Running
  <1> QED
    BY <1>1, <1>2, <1>3, <1>4, <1>5, <1>6 DEF Calls

\* The ends of an attempt.
LEMMA EndsAreOnly ==
    ASSUME Shaped, NEW j \in Job
    PROVE  /\ Finish(j) => job[j].pc \in Running /\ Only(j, "succeeded", job[j].retries)
           /\ Raised(j) => /\ job[j].pc \in Running
                           /\ \/ /\ job[j].retries < MaxRetries
                                 /\ Only(j, "queued", job[j].retries + 1)
                              \/ job[j].retries = MaxRetries /\ Only(j, "failed", job[j].retries)
           /\ Crash(j) => /\ job[j].pc \in Running
                          /\ \E p \in {"queued", "lost"} : Only(j, p, job[j].retries)
  <1>1. ASSUME Finish(j)
        PROVE  job[j].pc \in Running /\ Only(j, "succeeded", job[j].retries)
    BY <1>1, FreshIsOnly DEF Finish, Running
  <1>2. ASSUME Raised(j)
        PROVE  /\ job[j].pc \in Running
               /\ \/ job[j].retries < MaxRetries /\ Only(j, "queued", job[j].retries + 1)
                  \/ job[j].retries = MaxRetries /\ Only(j, "failed", job[j].retries)
    <2>1. job[j].pc \in Running
      BY <1>2 DEF Raised, Running
    <2>2. CASE job[j].retries < MaxRetries
      BY <1>2, <2>1, <2>2, FreshIsOnly DEF Raised
    <2>3. CASE ~ (job[j].retries < MaxRetries)
      <3>1. job[j].retries = MaxRetries
        BY <2>3, SyncAssumption DEF Shaped, SyncAssumption
      <3> QED
        BY <1>2, <2>1, <2>3, <3>1, FreshIsOnly DEF Raised
    <2> QED
      BY <2>2, <2>3
  <1>3. ASSUME Crash(j)
        PROVE  /\ job[j].pc \in Running
               /\ \E p \in {"queued", "lost"} : Only(j, p, job[j].retries)
    BY <1>3, FreshIsOnly DEF Crash
  <1> QED
    BY <1>1, <1>2, <1>3

\* A step either leaves the attempts alone or is a step of one of them.
Elsewhere ==
    \/ \E t \in Ticket : Edit(t)
    \/ \E j \in Job : AnswerTrigger(j)
    \/ DeleteVectors \/ DeleteRows

LEMMA ElsewhereLeavesJobs ==
    Elsewhere \/ UNCHANGED vars => UNCHANGED job
  BY DEF Elsewhere, Edit, AnswerTrigger, DeleteVectors, DeleteRows, vars, outside, stores

LEMMA NextIsOneOf ==
    ASSUME [Next]_vars
    PROVE  \/ Elsewhere \/ UNCHANGED vars
           \/ \E j \in Job : Trigger(j) \/ Take(j) \/ Calls(j) \/ Finish(j) \/ Raised(j) \/ Crash(j)
  BY DEF Next, Work, Elsewhere, Calls

\* The shape is inductive.
LEMMA ShapedIsInductive ==
    /\ Init => Shaped
    /\ Shaped /\ [Next]_vars => Shaped'
  <1>1. Init => Shaped
    BY SyncAssumption DEF Init, Shaped, Fresh, SyncAssumption
  <1>2. ASSUME Shaped, [Next]_vars
        PROVE  Shaped'
    <2>1. CASE Elsewhere \/ UNCHANGED vars
      BY <1>2, <2>1, ElsewhereLeavesJobs DEF Shaped
    <2>2. ASSUME NEW j \in Job, Trigger(j) \/ Take(j)
          PROVE  Shaped'
      <3>1. \E p \in {"queued", "project"} : Only(j, p, job[j].retries)
        BY <1>2, <2>2, StepIsOnly DEF Trigger, Take
      <3> QED
        BY <1>2, <3>1, StaysShaped DEF Shaped, Running
    <2>3. ASSUME NEW j \in Job, Calls(j)
          PROVE  Shaped'
      BY <1>2, <2>3, CallsAreOnly, StaysShaped DEF Shaped
    <2>4. ASSUME NEW j \in Job, Finish(j) \/ Raised(j) \/ Crash(j)
          PROVE  Shaped'
      <3>1. \E p \in {"succeeded", "queued", "failed", "lost"}, r \in 0 .. MaxRetries : Only(j, p, r)
        <4>1. job[j].retries \in 0 .. MaxRetries
          BY <1>2 DEF Shaped
        <4>2. job[j].retries < MaxRetries => job[j].retries + 1 \in 0 .. MaxRetries
          BY <4>1, SyncAssumption DEF SyncAssumption
        <4> QED
          BY <1>2, <2>4, <4>1, <4>2, EndsAreOnly
      <3> QED
        BY <1>2, <3>1, StaysShaped DEF Ended
    <2> QED
      BY <1>2, <2>1, <2>2, <2>3, <2>4, NextIsOneOf
  <1> QED
    BY <1>1, <1>2

\* Every step of the syncs is a step of the abstract life of one job, or none.
LEMMA StepsRefine ==
    ASSUME Shaped, [Next]_vars
    PROVE  [Lifecycle!Next]_<<Phase, Attempts>>
  <1> USE DEF Lifecycle!Move
  <1>1. CASE Elsewhere \/ UNCHANGED vars
    BY <1>1, ElsewhereLeavesJobs DEF Phase, Attempts
  <1>2. ASSUME NEW j \in Job, Trigger(j)
        PROVE  Lifecycle!Submit(j)
    <2>1. Only(j, "queued", job[j].retries) /\ job[j].pc = "idle"
      BY <1>2, StepIsOnly DEF Trigger, Step
    <2> QED
      BY <2>1, LifeOf DEF Lifecycle!Submit, Running
  <1>3. ASSUME NEW j \in Job, Take(j)
        PROVE  Lifecycle!Start(j)
    <2>1. Only(j, "project", job[j].retries) /\ job[j].pc = "queued"
      BY <1>3, StepIsOnly DEF Take, Step
    <2> QED
      BY <2>1, LifeOf DEF Lifecycle!Start, Running
  <1>4. ASSUME NEW j \in Job, Calls(j)
        PROVE  UNCHANGED <<Phase, Attempts>>
    BY <1>4, CallsAreOnly, Working
  <1>5. ASSUME NEW j \in Job, Finish(j)
        PROVE  Lifecycle!Succeed(j)
    <2>1. job[j].pc \in Running /\ Only(j, "succeeded", job[j].retries)
      BY <1>5, EndsAreOnly
    <2> QED
      BY <2>1, LifeOf DEF Lifecycle!Succeed, Running
  <1>6. ASSUME NEW j \in Job, Raised(j)
        PROVE  Lifecycle!Retry(j) \/ Lifecycle!GiveUp(j)
    <2>1. job[j].pc \in Running
      BY <1>6, EndsAreOnly
    <2>2. CASE job[j].retries < MaxRetries /\ Only(j, "queued", job[j].retries + 1)
      BY <2>1, <2>2, LifeOf DEF Lifecycle!Retry, Running
    <2>3. CASE job[j].retries = MaxRetries /\ Only(j, "failed", job[j].retries)
      BY <2>1, <2>3, LifeOf DEF Lifecycle!GiveUp, Running
    <2> QED
      BY <1>6, <2>2, <2>3, EndsAreOnly
  <1>7. ASSUME NEW j \in Job, Crash(j)
        PROVE  Lifecycle!Return(j) \/ Lifecycle!Lose(j)
    <2>1. job[j].pc \in Running
      BY <1>7, EndsAreOnly
    <2>2. CASE Only(j, "queued", job[j].retries)
      BY <2>1, <2>2, LifeOf DEF Lifecycle!Return, Running
    <2>3. CASE Only(j, "lost", job[j].retries)
      BY <2>1, <2>3, LifeOf DEF Lifecycle!Lose, Running
    <2> QED
      BY <1>7, <2>2, <2>3, EndsAreOnly
  <1> QED
    BY <1>1, <1>2, <1>3, <1>4, <1>5, <1>6, <1>7, NextIsOneOf DEF Lifecycle!Next

\* Whatever calls fail and whatever workers die, a Jira sync lives the life of a background
\* job: it is retried at most MaxRetries times, and how it ended is decided once.
THEOREM SyncKeepsLifecycle == Spec => KeepsLifecycle
  <1>1. Init => Lifecycle!Init
    BY DEF Init, Lifecycle!Init, Phase, Attempts, Fresh, Running
  <1>2. Shaped /\ [Next]_vars => [Lifecycle!Next]_<<Phase, Attempts>>
    BY StepsRefine
  <1>3. Spec => []Shaped
    BY ShapedIsInductive, PTL DEF Spec
  <1> QED
    BY <1>1, <1>2, <1>3, PTL DEF Spec, KeepsLifecycle, Lifecycle!Spec
-----------------------------------------------------------------------------
(* The vectors, and what a completed sync reports. *)

StoredText == [ticket : Ticket, field : Field, version : Nat \ {0}]
Attempt == [pc : {"idle", "queued"} \cup Running \cup Ended, retries : 0 .. MaxRetries,
            page : Seq(Ticket \X (Nat \ {0})), stored : Nat, texts : Seq(StoredText), sent : Nat,
            synced : SUBSET Ticket, errors : BOOLEAN, loaded : BOOLEAN]
Report == [state : {"none", "in_progress", "failed", "completed"}, synced : SUBSET Ticket,
           embedded : SUBSET (Ticket \X Field)]

SyncType ==
    /\ jira \in [Ticket -> Nat \ {0}]
    /\ recent \in Seq(Ticket)
    /\ job \in [Job -> Attempt]
    /\ \A j \in Job : job[j].sent =< Len(job[j].texts)
    /\ status \in [Job -> Report]
    /\ rows \in [Ticket -> Nat]
    /\ points \in [Ticket \X Field -> Nat]
    /\ project \in {"present", "deleting", "deleted"}

\* What an attempt counts has its rows, unless the rows are gone; what it has sent has its
\* vectors, unless they were deleted.
Backed(a) ==
    /\ project # "deleted" =>
          /\ \A t \in a.synced : rows[t] # 0
          /\ \A i \in 1 .. Len(a.texts) : rows[a.texts[i].ticket] # 0
    /\ ~ purged => \A i \in 1 .. a.sent : points[<<a.texts[i].ticket, a.texts[i].field>>] # 0

AttemptsBacked == \A j \in Job : Backed(job[j])

\* The same of a report.
Kept(r) ==
    /\ project # "deleted" => \A t \in r.synced : rows[t] # 0
    /\ ~ purged => \A p \in r.embedded : points[p] # 0

ReportsBacked == \A j \in Job : Kept(status[j])

SyncInv == SyncType /\ AttemptsBacked /\ VectorsHaveRows /\ ReportsBacked

\* The texts of a version of a ticket.
LEMMA TextsOfType ==
    ASSUME NEW t \in Ticket, NEW v \in Nat \ {0}
    PROVE  /\ TextsOf(t, v) \in Seq(StoredText)
           /\ \A i \in 1 .. Len(TextsOf(t, v)) : TextsOf(t, v)[i].ticket = t
           /\ \A i \in 1 .. Len(TextsOf(t, v)) : TextsOf(t, v)[i].version = v
  <1> DEFINE parts == ParseDescription(Doc[t][v])
             text(f) == [ticket |-> t, field |-> f, version |-> v]
             IfAny(f) == IF parts[f] THEN <<text(f)>> ELSE << >>
             D == IfAny("description")
             A == IfAny("acceptance_criteria")
             Mine(x) == x.ticket = t /\ x.version = v
  <1>1. \A f \in Field : text(f) \in StoredText /\ Mine(text(f))
    BY DEF StoredText
  <1> HIDE DEF Mine
  <1>2. \A f \in Field : IfAny(f) \in Seq(StoredText) /\ \A i \in 1 .. Len(IfAny(f)) : Mine(IfAny(f)[i])
    BY <1>1
  <1>3. /\ <<text("title")>> \in Seq(StoredText) /\ D \in Seq(StoredText) /\ A \in Seq(StoredText)
        /\ \A i \in 1 .. 1 : Mine(<<text("title")>>[i])
        /\ \A i \in 1 .. Len(D) : Mine(D[i])
        /\ \A i \in 1 .. Len(A) : Mine(A[i])
    BY <1>1, <1>2 DEF Field
  <1>4. TextsOf(t, v) = <<text("title")>> \o D \o A
    BY DEF TextsOf
  <1> HIDE DEF D, A, text
  <1>5. /\ <<text("title")>> \o D \in Seq(StoredText)
        /\ \A i \in 1 .. Len(<<text("title")>> \o D) : Mine((<<text("title")>> \o D)[i])
    BY <1>3
  <1> DEFINE B == <<text("title")>> \o D
  <1>6. B \o A \in Seq(StoredText) /\ \A i \in 1 .. Len(B \o A) : Mine((B \o A)[i])
    <2> HIDE DEF B
    <2>1. B \in Seq(StoredText) /\ \A i \in 1 .. Len(B) : Mine(B[i])
      BY <1>5 DEF B
    <2> QED
      BY <2>1, <1>3
  <1> QED
    BY <1>4, <1>6 DEF Mine

\* A step of one attempt that leaves the stores and the reports alone.
Moved(j) ==
    /\ job' \in [Job -> Attempt] /\ \A i \in Job \ {j} : job'[i] = job[i]
    /\ job'[j].sent =< Len(job'[j].texts)

LEMMA Replaced ==
    ASSUME SyncInv, NEW j \in Job, Moved(j), Backed(job'[j]),
           UNCHANGED <<jira, recent, status, rows, points, project, purged>>
    PROVE  SyncInv'
  <1>1. SyncType'
    BY DEF Moved, SyncInv, SyncType
  <1>2. AttemptsBacked'
    <2>1. \A i \in Job : Backed(job'[i])
      BY DEF Moved, SyncInv, AttemptsBacked
    <2> QED
      BY <2>1 DEF AttemptsBacked, Backed
  <1>3. ReportsBacked' /\ VectorsHaveRows'
    BY DEF SyncInv, ReportsBacked, Kept, VectorsHaveRows
  <1> QED
    BY <1>1, <1>2, <1>3 DEF SyncInv

LEMMA BecomesMoved ==
    ASSUME SyncType, NEW j \in Job, NEW a \in Attempt, Becomes(j, a), a.sent =< Len(a.texts)
    PROVE  Moved(j) /\ job'[j] = a
  BY DEF SyncType, Moved

\* What a step that counts nothing may make of an attempt.
Noted(a, p) ==
    {[a EXCEPT !.pc = p], [a EXCEPT !.pc = p, !.loaded = TRUE], [a EXCEPT !.pc = p, !.errors = TRUE]}
    \cup {[a EXCEPT !.pc = p, !.page = g] : g \in Seq(Ticket \X (Nat \ {0}))}

LEMMA NotedCounts ==
    ASSUME NEW a \in Attempt, NEW p \in Running \cup {"queued"}, NEW b \in Noted(a, p)
    PROVE  b \in Attempt /\ b.synced = a.synced /\ b.texts = a.texts /\ b.sent = a.sent
  BY DEF Attempt, Noted

LEMMA QuietStep ==
    ASSUME SyncInv, NEW j \in Job, NEW p \in Running \cup {"queued"}, NEW b \in Noted(job[j], p),
           Becomes(j, b), UNCHANGED <<jira, recent, status, rows, points, project, purged>>
    PROVE  SyncInv'
  <1>1. job[j] \in Attempt /\ job[j].sent =< Len(job[j].texts) /\ Backed(job[j])
    BY DEF SyncInv, SyncType, AttemptsBacked
  <1>2. b \in Attempt /\ b.synced = job[j].synced /\ b.texts = job[j].texts /\ b.sent = job[j].sent
    BY <1>1, NotedCounts
  <1>3. Moved(j) /\ job'[j] = b
    BY <1>1, <1>2, BecomesMoved DEF SyncInv
  <1>4. Backed(b)
    BY <1>1, <1>2 DEF Backed
  <1> QED
    BY <1>3, <1>4, Replaced

LEMMA FreshBacked ==
    ASSUME NEW p \in {"idle", "queued"} \cup Running \cup Ended, NEW r \in 0 .. MaxRetries
    PROVE  /\ Fresh(p, r) \in Attempt /\ Backed(Fresh(p, r))
           /\ Fresh(p, r).sent =< Len(Fresh(p, r).texts)
  BY DEF Fresh, Attempt, Backed

\* One lemma per group of actions.  The world around the syncs:
LEMMA WorldKeepsInv ==
    ASSUME SyncInv, \/ \E t \in Ticket : Edit(t)
                    \/ DeleteVectors \/ DeleteRows
    PROVE  SyncInv'
  <1> USE DEF stores, Backed, Kept
  <1>1. ASSUME NEW t \in Ticket, Edit(t)
        PROVE  SyncInv'
    <2>1. jira' \in [Ticket -> Nat \ {0}]
      BY <1>1 DEF Edit, SyncInv, SyncType
    <2>2. PICK k \in DOMAIN recent :
            recent' = [i \in DOMAIN recent |-> IF i = 1 THEN t
                                               ELSE IF i =< k THEN recent[i - 1] ELSE recent[i]]
      BY <1>1 DEF Edit
    <2>3. recent \in Seq(Ticket) /\ DOMAIN recent = 1 .. Len(recent) /\ Len(recent) \in Nat
      BY DEF SyncInv, SyncType
    <2>4. \A i \in 1 .. Len(recent) : recent'[i] \in Ticket
      BY <2>2, <2>3
    <2>5. recent' \in Seq(Ticket)
      BY <2>2, <2>3, <2>4
    <2>6. UNCHANGED <<job, status, rows, points, project, purged>>
      BY <1>1 DEF Edit
    <2>7. SyncType'
      BY <2>1, <2>5, <2>6 DEF SyncInv, SyncType
    <2>8. AttemptsBacked' /\ ReportsBacked'
      BY <2>6 DEF SyncInv, AttemptsBacked, ReportsBacked
    <2>9. VectorsHaveRows'
      BY <2>6 DEF SyncInv, VectorsHaveRows
    <2> QED
      BY <2>7, <2>8, <2>9 DEF SyncInv
  <1>2. CASE DeleteVectors
    BY <1>2 DEF DeleteVectors, SyncInv, SyncType, AttemptsBacked, ReportsBacked, VectorsHaveRows
  <1>3. CASE DeleteRows
    BY <1>3 DEF DeleteRows, SyncInv, SyncType, AttemptsBacked, ReportsBacked, VectorsHaveRows
  <1> QED
    BY <1>1, <1>2, <1>3

\* The API, and a worker that takes a message or dies:
LEMMA QueueKeepsInv ==
    ASSUME SyncInv, NEW j \in Job, Trigger(j) \/ AnswerTrigger(j) \/ Take(j) \/ Crash(j)
    PROVE  SyncInv'
  <1>1. job \in [Job -> Attempt] /\ job[j].sent =< Len(job[j].texts) /\ Backed(job[j])
    BY DEF SyncInv, SyncType, AttemptsBacked
  <1>2. CASE Trigger(j) \/ Take(j)
    <2>1. PICK p \in {"queued", "project"} : Becomes(j, [job[j] EXCEPT !.pc = p])
      BY <1>2 DEF Trigger, Take, Step
    <2>2. UNCHANGED <<jira, recent, status, rows, points, project, purged>>
      BY <1>2 DEF Trigger, Take, outside, stores
    <2> QED
      BY <2>1, <2>2, QuietStep DEF Noted, Running
  <1>3. CASE Crash(j)
    <2>1. PICK p \in {"queued", "lost"} : job' = [job EXCEPT ![j] = Fresh(p, job[j].retries)]
      BY <1>3 DEF Crash
    <2>2. p \in {"idle", "queued"} \cup Running \cup Ended /\ job[j].retries \in 0 .. MaxRetries
      BY <1>1 DEF Ended, Attempt
    <2>3. Moved(j) /\ Backed(job'[j])
      BY <1>1, <2>1, <2>2, FreshBacked, BecomesMoved DEF SyncInv
    <2>4. UNCHANGED <<jira, recent, status, rows, points, project, purged>>
      BY <1>3 DEF Crash, stores
    <2> QED
      BY <2>3, <2>4, Replaced
  <1>4. CASE AnswerTrigger(j)
    <2>1. UNCHANGED <<jira, recent, job, rows, points, project, purged>>
      BY <1>4 DEF AnswerTrigger, outside, stores
    <2>2. status' \in [Job -> Report] /\ \A i \in Job : Kept(status'[i])
      <3>1. Plain("in_progress") \in Report /\ Kept(Plain("in_progress"))
        BY DEF Plain, Report, Kept
      <3> QED
        BY <1>4, <3>1 DEF AnswerTrigger, SetStatus, SyncInv, SyncType, ReportsBacked
    <2> QED
      BY <2>1, <2>2 DEF SyncInv, SyncType, AttemptsBacked, Backed, ReportsBacked, Kept, VectorsHaveRows
  <1> QED
    BY <1>2, <1>3, <1>4

\* The calls of an attempt that write nothing:
LEMMA ReadingKeepsInv ==
    ASSUME SyncInv, NEW j \in Job, LoadProject(j) \/ BuildClients(j) \/ Fetch(j) \/ Embed(j)
    PROVE  SyncInv'
  <1>1. UNCHANGED <<jira, recent, status, rows, points, project, purged>>
    BY DEF LoadProject, BuildClients, Fetch, Embed, outside, stores
  <1>2. \E p \in Running : \E b \in Noted(job[j], p) : Becomes(j, b)
    <2>1. CASE LoadProject(j)
      BY <2>1 DEF LoadProject, Noted, Running
    <2>2. CASE BuildClients(j)
      BY <2>2 DEF BuildClients, Step, Noted, Running
    <2>3. CASE Fetch(j)
      <3> DEFINE n == IF PageSize < Len(recent) THEN PageSize ELSE Len(recent)
                 g == [i \in 1 .. n |-> <<recent[i], jira[recent[i]]>>]
      <3>1. g \in Seq(Ticket \X (Nat \ {0}))
        <4>1. n \in Nat /\ n =< Len(recent)
          BY SyncAssumption DEF SyncAssumption, SyncInv, SyncType
        <4>2. \A i \in 1 .. n : recent[i] \in Ticket /\ jira[recent[i]] \in Nat \ {0}
          BY <4>1 DEF SyncInv, SyncType
        <4> QED
          BY <4>1, <4>2
      <3>2. \/ Becomes(j, [job[j] EXCEPT !.pc = "rows", !.page = g])
            \/ Becomes(j, [job[j] EXCEPT !.pc = "finish", !.errors = TRUE])
        BY <2>3 DEF Fetch
      <3> HIDE DEF g
      <3> QED
        <4>1. CASE Becomes(j, [job[j] EXCEPT !.pc = "rows", !.page = g])
          <5>1. [job[j] EXCEPT !.pc = "rows", !.page = g] \in Noted(job[j], "rows")
            BY <3>1 DEF Noted
          <5> QED
            BY <4>1, <5>1 DEF Running
        <4>2. CASE Becomes(j, [job[j] EXCEPT !.pc = "finish", !.errors = TRUE])
          <5>1. [job[j] EXCEPT !.pc = "finish", !.errors = TRUE] \in Noted(job[j], "finish")
            BY DEF Noted
          <5> QED
            BY <4>2, <5>1 DEF Running
        <4> QED
          BY <3>2, <4>1, <4>2
    <2>4. CASE Embed(j)
      BY <2>4 DEF Embed, Noted, Running
    <2> QED
      BY <2>1, <2>2, <2>3, <2>4
  <1> QED
    BY <1>1, <1>2, QuietStep

\* A row is stored: no ticket loses one.
LEMMA RowStored ==
    ASSUME SyncInv, NEW t \in Ticket, NEW v \in Nat \ {0}, UpsertJiraTicket(t, v)
    PROVE  /\ rows' \in [Ticket -> Nat] /\ rows'[t] # 0
           /\ \A u \in Ticket : rows[u] # 0 => rows'[u] # 0
  BY DEF UpsertJiraTicket, SyncInv, SyncType

\* The texts of a ticket joined to those of the tickets before it.
LEMMA Joined ==
    ASSUME NEW t, NEW s \in Seq(StoredText), NEW more \in Seq(StoredText),
           \A i \in 1 .. Len(more) : more[i].ticket = t
    PROVE  /\ s \o more \in Seq(StoredText) /\ Len(s) =< Len(s \o more)
           /\ \A i \in 1 .. Len(s) : (s \o more)[i] = s[i]
           /\ \A i \in 1 .. Len(s \o more) : i > Len(s) => (s \o more)[i].ticket = t
  <1>1. s \o more \in Seq(StoredText) /\ Len(s \o more) = Len(s) + Len(more)
    OBVIOUS
  <1>2. \A i \in 1 .. Len(s) + Len(more) :
          (s \o more)[i] = IF i =< Len(s) THEN s[i] ELSE more[i - Len(s)]
    OBVIOUS
  <1>3. ASSUME NEW i \in 1 .. Len(s \o more), i > Len(s)
        PROVE  (s \o more)[i].ticket = t
    <2>1. i - Len(s) \in 1 .. Len(more)
      BY <1>1, <1>3
    <2> QED
      BY <1>1, <1>2, <1>3, <2>1
  <1> QED
    BY <1>1, <1>2, <1>3

\* What is known of the fields of an attempt.
LEMMA AttemptFields ==
    ASSUME NEW a \in Attempt
    PROVE  /\ a.stored \in Nat /\ a.sent \in Nat /\ a.synced \subseteq Ticket
           /\ a.page \in Seq(Ticket \X (Nat \ {0}))
           /\ a.texts \in Seq(StoredText) /\ Len(a.texts) \in Nat
           /\ \A i \in 1 .. Len(a.texts) : /\ a.texts[i].ticket \in Ticket
                                           /\ a.texts[i].field \in Field
                                           /\ a.texts[i].version \in Nat \ {0}
  <1>1. /\ a.stored \in Nat /\ a.sent \in Nat /\ a.synced \subseteq Ticket
        /\ a.page \in Seq(Ticket \X (Nat \ {0})) /\ a.texts \in Seq(StoredText)
    BY DEF Attempt
  <1>2. Len(a.texts) \in Nat /\ \A i \in 1 .. Len(a.texts) : a.texts[i] \in StoredText
    BY <1>1
  <1> QED
    BY <1>1, <1>2 DEF StoredText

LEMMA StoringKeepsInv ==
    ASSUME SyncInv, NEW j \in Job, StoreTicket(j)
    PROVE  SyncInv'
  <1> DEFINE t == job[j].page[job[j].stored + 1][1]
             v == job[j].page[job[j].stored + 1][2]
             texts == job[j].texts \o TextsOf(t, v)
             n == job[j].stored + 1
             T == job[j].synced \cup {t}
             a == [job[j] EXCEPT !.stored = n, !.texts = texts, !.synced = T]
             b == [job[j] EXCEPT !.stored = n, !.errors = TRUE]
  <1>1. job[j] \in Attempt /\ job[j].sent =< Len(job[j].texts) /\ Backed(job[j])
    BY DEF SyncInv, SyncType, AttemptsBacked
  <1>2. t \in Ticket /\ v \in Nat \ {0}
    <2>1. job[j].page \in Seq(Ticket \X (Nat \ {0})) /\ job[j].stored + 1 \in 1 .. Len(job[j].page)
      BY <1>1 DEF StoreTicket, Attempt
    <2>2. job[j].page[job[j].stored + 1] \in Ticket \X (Nat \ {0})
      BY <2>1
    <2> QED
      BY <2>2
  <1>3. UNCHANGED <<jira, recent, status, points, project, purged>>
    BY DEF StoreTicket, outside
  <1>4. \/ UpsertJiraTicket(t, v) /\ Becomes(j, a)
        \/ Becomes(j, b) /\ UNCHANGED rows
    BY DEF StoreTicket
  <1>5. /\ texts \in Seq(StoredText) /\ Len(job[j].texts) =< Len(texts)
        /\ \A i \in 1 .. Len(job[j].texts) : texts[i] = job[j].texts[i]
        /\ \A i \in 1 .. Len(texts) : i > Len(job[j].texts) => texts[i].ticket = t
    <2>1. job[j].texts \in Seq(StoredText)
      BY <1>1, AttemptFields
    <2>2. /\ TextsOf(t, v) \in Seq(StoredText)
          /\ \A i \in 1 .. Len(TextsOf(t, v)) : TextsOf(t, v)[i].ticket = t
      BY <1>2, TextsOfType
    <2> HIDE DEF t, v
    <2> QED
      BY <2>1, <2>2, Joined
  <1>6. /\ job[j].sent \in Nat /\ Len(job[j].texts) \in Nat /\ Len(texts) \in Nat
        /\ n \in Nat /\ T \in SUBSET Ticket
    <2> HIDE DEF texts, t
    <2>1. Len(texts) \in Nat
      BY <1>5
    <2>2. job[j].sent \in Nat /\ Len(job[j].texts) \in Nat /\ job[j].stored \in Nat
      BY <1>1, AttemptFields
    <2>3. job[j].synced \subseteq Ticket
      BY <1>1, AttemptFields
    <2> QED
      BY <1>2, <2>1, <2>2, <2>3
  <1> HIDE DEF t, v, texts, n
  <1>7. /\ a \in Attempt /\ a.sent = job[j].sent /\ a.synced = job[j].synced \cup {t}
        /\ a.texts = texts /\ a.sent =< Len(a.texts)
    <2> HIDE DEF T
    <2>1. a = [job[j] EXCEPT !.stored = n, !.texts = texts, !.synced = T]
      OBVIOUS
    <2> HIDE DEF a
    <2>2. a \in Attempt /\ a.sent = job[j].sent /\ a.synced = T /\ a.texts = texts
      BY <1>1, <1>5, <1>6, <2>1 DEF Attempt
    <2>3. job[j].sent =< Len(texts)
      BY <1>1, <1>5, <1>6
    <2> QED
      BY <2>2, <2>3 DEF T
  <1>8. b \in Attempt /\ b.synced = job[j].synced /\ b.texts = job[j].texts /\ b.sent = job[j].sent
    <2>1. b = [job[j] EXCEPT !.stored = n, !.errors = TRUE]
      OBVIOUS
    <2> HIDE DEF b
    <2> QED
      BY <1>1, <1>6, <2>1 DEF Attempt
  <1> HIDE DEF a, b, T
  <1>9. CASE UpsertJiraTicket(t, v) /\ Becomes(j, a)
    <2>1. /\ rows' \in [Ticket -> Nat] /\ rows'[t] # 0
          /\ \A u \in Ticket : rows[u] # 0 => rows'[u] # 0
      BY <1>2, <1>9, RowStored
    <2>2. Moved(j) /\ job'[j] = a
      BY <1>7, <1>9, BecomesMoved DEF SyncInv
    <2>3. ASSUME NEW i \in Job
          PROVE  /\ project # "deleted" =>
                       /\ \A u \in job'[i].synced : rows'[u] # 0
                       /\ \A k \in 1 .. Len(job'[i].texts) : rows'[job'[i].texts[k].ticket] # 0
                 /\ ~ purged => \A k \in 1 .. job'[i].sent :
                       points[<<job'[i].texts[k].ticket, job'[i].texts[k].field>>] # 0
      <3>1. job[i] \in Attempt /\ job[i].sent =< Len(job[i].texts) /\ Backed(job[i])
        BY DEF SyncInv, SyncType, AttemptsBacked
      <3>2. job[i].synced \subseteq Ticket
        BY <3>1, AttemptFields
      <3>3. \A k \in 1 .. Len(job[i].texts) : job[i].texts[k].ticket \in Ticket
        BY <3>1, AttemptFields
      <3>4. CASE i # j
        BY <2>1, <2>2, <3>1, <3>2, <3>3, <3>4 DEF Backed, Moved
      <3>5. CASE i = j
        <4>1. project # "deleted" => \A u \in a.synced : rows'[u] # 0
          BY <1>7, <2>1, <3>1, <3>2, <3>5 DEF Backed
        <4>2. project # "deleted" => \A k \in 1 .. Len(a.texts) : rows'[a.texts[k].ticket] # 0
          BY <1>5, <1>6, <1>7, <2>1, <3>1, <3>3, <3>5 DEF Backed
        <4>3. ~ purged => \A k \in 1 .. a.sent : points[<<a.texts[k].ticket, a.texts[k].field>>] # 0
          BY <1>5, <1>6, <1>7, <3>1, <3>5 DEF Backed
        <4> QED
          BY <2>2, <3>5, <4>1, <4>2, <4>3
      <3> QED
        BY <3>4, <3>5
    <2>4. AttemptsBacked'
      BY <1>3, <2>3 DEF AttemptsBacked, Backed
    <2>5. VectorsHaveRows' /\ ReportsBacked'
      <3>1. \A i \in Job : status[i].synced \subseteq Ticket
        BY DEF SyncInv, SyncType, Report
      <3> QED
        BY <1>3, <2>1, <3>1 DEF SyncInv, SyncType, VectorsHaveRows, ReportsBacked, Kept
    <2>6. SyncType'
      BY <1>3, <2>1, <2>2 DEF SyncInv, SyncType, Moved
    <2> QED
      BY <2>4, <2>5, <2>6 DEF SyncInv
  <1>10. CASE Becomes(j, b) /\ UNCHANGED rows
    <2>1. Moved(j) /\ job'[j] = b
      BY <1>1, <1>8, <1>10, BecomesMoved DEF SyncInv
    <2>2. Backed(b)
      BY <1>1, <1>8 DEF Backed
    <2> QED
      BY <1>3, <1>10, <2>1, <2>2, Replaced
  <1> QED
    BY <1>4, <1>9, <1>10

\* A batch of vectors is stored: those of its texts are there, and none is lost.
LEMMA UpsertingKeepsInv ==
    ASSUME SyncInv, NEW j \in Job, UpsertBatch(j)
    PROVE  SyncInv'
  <1> DEFINE texts == job[j].texts
             last == IF job[j].sent + BatchSize < Len(texts) THEN job[j].sent + BatchSize ELSE Len(texts)
             batch == {texts[i] : i \in job[j].sent + 1 .. last}
             Of(p) == {x \in batch : <<x.ticket, x.field>> = p}
             q == IF last = Len(texts) THEN "finish" ELSE job[j].pc
             a == [job[j] EXCEPT !.sent = last, !.pc = q]
             b == [job[j] EXCEPT !.pc = "finish", !.errors = TRUE]
  <1>1. job[j] \in Attempt /\ job[j].sent =< Len(texts) /\ Backed(job[j])
    BY DEF SyncInv, SyncType, AttemptsBacked
  <1>2. UNCHANGED <<jira, recent, status, rows, project, purged>>
    BY DEF UpsertBatch, outside
  <1>3. \/ /\ points' = [p \in DOMAIN points |->
                            IF Of(p) = {} THEN points[p] ELSE (CHOOSE x \in Of(p) : TRUE).version]
           /\ Becomes(j, a)
        \/ Becomes(j, b) /\ UNCHANGED points
    BY DEF UpsertBatch
  <1>4. /\ job[j].sent \in Nat /\ Len(texts) \in Nat /\ last \in Nat
        /\ job[j].sent =< last /\ last =< Len(texts)
    <2>1. job[j].sent \in Nat /\ Len(texts) \in Nat
      BY <1>1, AttemptFields
    <2>2. BatchSize \in Nat
      BY SyncAssumption DEF SyncAssumption
    <2> HIDE DEF texts
    <2> QED
      BY <1>1, <2>1, <2>2
  <1>5. \A i \in 1 .. Len(texts) : /\ texts[i].ticket \in Ticket /\ texts[i].field \in Field
                                   /\ texts[i].version \in Nat \ {0}
    BY <1>1, AttemptFields
  <1>6. \A p : \A x \in Of(p) : /\ x.version \in Nat \ {0} /\ <<x.ticket, x.field>> = p
                                /\ \E i \in 1 .. Len(texts) : x = texts[i]
    <2> HIDE DEF texts, last
    <2> QED
      BY <1>4, <1>5
  <1>7. q \in {"finish", "embed"}
    BY DEF UpsertBatch
  <1> HIDE DEF last, q, texts
  <1>8. a \in Attempt /\ a.sent = last /\ a.synced = job[j].synced /\ a.texts = texts
    BY <1>1, <1>4, <1>7 DEF Attempt, Running, texts
  <1>9. CASE /\ points' = [p \in DOMAIN points |->
                              IF Of(p) = {} THEN points[p] ELSE (CHOOSE x \in Of(p) : TRUE).version]
             /\ Becomes(j, a)
    <2>1. \A p \in Ticket \X Field :
            \/ Of(p) = {} /\ points'[p] = points[p]
            \/ \E x \in Of(p) : points'[p] = x.version
      <3> HIDE DEF Of
      <3>1. DOMAIN points = Ticket \X Field
        BY DEF SyncInv, SyncType
      <3>2. \A p \in Ticket \X Field : Of(p) # {} => (CHOOSE x \in Of(p) : TRUE) \in Of(p)
        OBVIOUS
      <3> QED
        BY <1>9, <3>1, <3>2
    <2>2. \A p \in Ticket \X Field : Of(p) # {} => points'[p] \in Nat \ {0}
      <3> HIDE DEF Of
      <3> QED
        BY <1>6, <2>1
    <2>3. \A p \in Ticket \X Field : points[p] # 0 => points'[p] # 0
      <3> HIDE DEF Of
      <3> QED
        BY <2>1, <2>2
    <2>4. \A i \in job[j].sent + 1 .. last : Of(<<texts[i].ticket, texts[i].field>>) # {}
      OBVIOUS
    <2> HIDE DEF Of, a
    <2>5. points' \in [Ticket \X Field -> Nat]
      BY <1>9, <2>1, <2>2 DEF SyncInv, SyncType
    <2>6. Moved(j) /\ job'[j] = a
      BY <1>4, <1>8, <1>9, BecomesMoved DEF SyncInv
    <2>7. ASSUME NEW i \in Job
          PROVE  /\ project # "deleted" =>
                       /\ \A u \in job'[i].synced : rows[u] # 0
                       /\ \A k \in 1 .. Len(job'[i].texts) : rows[job'[i].texts[k].ticket] # 0
                 /\ ~ purged => \A k \in 1 .. job'[i].sent :
                       points'[<<job'[i].texts[k].ticket, job'[i].texts[k].field>>] # 0
      <3>1. job[i] \in Attempt /\ job[i].sent =< Len(job[i].texts) /\ Backed(job[i])
        BY DEF SyncInv, SyncType, AttemptsBacked
      <3>2. /\ job[i].sent \in Nat /\ Len(job[i].texts) \in Nat
            /\ \A k \in 1 .. Len(job[i].texts) :
                  <<job[i].texts[k].ticket, job[i].texts[k].field>> \in Ticket \X Field
        BY <3>1, AttemptFields
      <3>3. CASE i # j
        BY <2>3, <2>6, <3>1, <3>2, <3>3 DEF Backed, Moved
      <3>4. CASE i = j
        <4>1. project # "deleted" =>
                /\ \A u \in a.synced : rows[u] # 0
                /\ \A k \in 1 .. Len(a.texts) : rows[a.texts[k].ticket] # 0
          BY <1>8, <3>1, <3>4 DEF Backed, texts
        <4>2. ASSUME ~ purged, NEW k \in 1 .. a.sent
              PROVE  points'[<<a.texts[k].ticket, a.texts[k].field>>] # 0
          <5>1. k \in 1 .. Len(texts) /\ <<texts[k].ticket, texts[k].field>> \in Ticket \X Field
            BY <1>4, <1>5, <1>8, <4>2
          <5>2. CASE k \in 1 .. job[j].sent
            BY <1>8, <2>3, <3>1, <3>4, <4>2, <5>1, <5>2 DEF Backed, texts
          <5>3. CASE k \in job[j].sent + 1 .. last
            BY <1>8, <2>2, <2>4, <5>1, <5>3
          <5> QED
            BY <1>4, <1>8, <4>2, <5>2, <5>3
        <4> QED
          BY <2>6, <3>4, <4>1, <4>2
      <3> QED
        BY <3>3, <3>4
    <2>8. AttemptsBacked'
      BY <1>2, <2>7 DEF AttemptsBacked, Backed
    <2>9. VectorsHaveRows'
      <3>1. ASSUME project # "deleted", NEW p \in Ticket \X Field, Of(p) # {}
            PROVE  rows[p[1]] # 0
        <4>1. PICK k \in 1 .. Len(texts) : p = <<texts[k].ticket, texts[k].field>>
          BY <1>6, <3>1
        <4> QED
          BY <1>1, <3>1, <4>1 DEF Backed, texts
      <3>2. DOMAIN points' = Ticket \X Field
        BY <2>5
      <3> QED
        BY <1>2, <2>1, <3>1, <3>2 DEF SyncInv, SyncType, VectorsHaveRows
    <2>10. ReportsBacked'
      <3>1. \A i \in Job : status[i].embedded \subseteq Ticket \X Field
        BY DEF SyncInv, SyncType, Report
      <3> QED
        BY <1>2, <2>3, <3>1 DEF SyncInv, ReportsBacked, Kept
    <2>11. SyncType'
      BY <1>2, <2>5, <2>6 DEF SyncInv, SyncType, Moved
    <2> QED
      BY <2>8, <2>9, <2>10, <2>11 DEF SyncInv
  <1>10. CASE Becomes(j, b) /\ UNCHANGED points
    <2>1. b \in Noted(job[j], "finish") /\ "finish" \in Running
      BY DEF Noted, Running
    <2> QED
      BY <1>2, <1>10, <2>1, QuietStep
  <1> QED
    BY <1>3, <1>9, <1>10

\* A report is written, or lost.
LEMMA Reported ==
    ASSUME SyncInv, NEW j \in Job, NEW a \in Attempt, Becomes(j, a), a.sent =< Len(a.texts), Backed(a),
           NEW r \in Report, Kept(r), SetStatus(j, r) \/ UNCHANGED status,
           UNCHANGED <<jira, recent, rows, points, project, purged>>
    PROVE  SyncInv'
  <1>1. Moved(j) /\ job'[j] = a
    BY BecomesMoved DEF SyncInv
  <1>2. status' \in [Job -> Report] /\ \A i \in Job : Kept(status'[i])
    BY DEF SetStatus, SyncInv, SyncType, ReportsBacked
  <1>3. \A i \in Job : Backed(job'[i])
    BY <1>1 DEF Moved, SyncInv, AttemptsBacked
  <1>4. AttemptsBacked'
    BY <1>3 DEF AttemptsBacked, Backed
  <1>5. ReportsBacked'
    BY <1>2 DEF ReportsBacked, Kept
  <1>6. VectorsHaveRows'
    BY DEF SyncInv, VectorsHaveRows
  <1>7. SyncType'
    BY <1>1, <1>2 DEF SyncInv, SyncType, Moved
  <1> QED
    BY <1>4, <1>5, <1>6, <1>7 DEF SyncInv

\* The counts of a sync that completes.
LEMMA CompletedKept ==
    ASSUME SyncInv, NEW j \in Job
    PROVE  /\ Completed(job[j].synced, Embedded(j)) \in Report
           /\ Kept(Completed(job[j].synced, Embedded(j)))
  <1>1. job[j] \in Attempt /\ job[j].sent =< Len(job[j].texts) /\ Backed(job[j])
    BY DEF SyncInv, SyncType, AttemptsBacked
  <1>2. /\ job[j].synced \subseteq Ticket /\ Len(job[j].texts) \in Nat /\ job[j].texts \in Seq(StoredText)
        /\ \A i \in 1 .. Len(job[j].texts) : /\ job[j].texts[i].ticket \in Ticket
                                             /\ job[j].texts[i].field \in Field
    BY <1>1, AttemptFields
  <1>3. \A p \in Embedded(j) : /\ job[j].sent = Len(job[j].texts)
                               /\ \E i \in 1 .. Len(job[j].texts) :
                                     p = <<job[j].texts[i].ticket, job[j].texts[i].field>>
    BY <1>2 DEF Embedded, ToSet
  <1>4. Embedded(j) \subseteq Ticket \X Field
    BY <1>2, <1>3
  <1>5. ~ purged => \A p \in Embedded(j) : points[p] # 0
    BY <1>1, <1>3 DEF Backed
  <1>6. project # "deleted" => \A t \in job[j].synced : rows[t] # 0
    BY <1>1 DEF Backed
  <1> QED
    BY <1>2, <1>4, <1>5, <1>6 DEF Completed, Report, Kept

LEMMA EndingKeepsInv ==
    ASSUME SyncInv, NEW j \in Job, Finish(j) \/ Raised(j)
    PROVE  SyncInv'
  <1>1. job[j].retries \in 0 .. MaxRetries
    BY DEF SyncInv, SyncType, Attempt
  <1>2. UNCHANGED <<jira, recent, rows, points, project, purged>>
    BY DEF Finish, Raised, outside, stores
  <1>3. CASE Finish(j)
    <2> DEFINE a == Fresh("succeeded", job[j].retries)
               r == Completed(job[j].synced, Embedded(j))
    <2>1. a \in Attempt /\ Backed(a) /\ a.sent =< Len(a.texts)
      BY <1>1, FreshBacked DEF Ended
    <2>2. r \in Report /\ Kept(r)
      BY CompletedKept
    <2>3. Becomes(j, a) /\ SetStatus(j, r)
      BY <1>3 DEF Finish
    <2> QED
      BY <1>2, <2>1, <2>2, <2>3, Reported
  <1>4. CASE Raised(j)
    <2>1. PICK p \in {"queued", "failed"}, n \in 0 .. MaxRetries : Becomes(j, Fresh(p, n))
      <3>1. job[j].retries < MaxRetries => job[j].retries + 1 \in 0 .. MaxRetries
        BY <1>1, SyncAssumption DEF SyncAssumption
      <3> QED
        BY <1>1, <1>4, <3>1 DEF Raised
    <2>2. /\ Fresh(p, n) \in Attempt /\ Backed(Fresh(p, n))
          /\ Fresh(p, n).sent =< Len(Fresh(p, n).texts)
      BY FreshBacked DEF Ended
    <2>3. Plain("failed") \in Report /\ Kept(Plain("failed"))
      BY DEF Plain, Report, Kept
    <2>4. SetStatus(j, Plain("failed")) \/ UNCHANGED status
      BY <1>4 DEF Raised
    <2> QED
      BY <1>2, <2>1, <2>2, <2>3, <2>4, Reported
  <1> QED
    BY <1>3, <1>4

LEMMA SyncInvIsInductive ==
    /\ Init => SyncInv
    /\ SyncInv /\ [Next]_vars => SyncInv'
  <1>1. ASSUME Init
        PROVE  SyncInv
    <2>1. recent \in Seq(Ticket)
      <3>1. Cardinality(Ticket) \in Nat
        BY SyncAssumption, FS_CardinalityType DEF SyncAssumption
      <3> QED
        BY <1>1, <3>1 DEF Init, SetToSeqs
    <2>2. /\ Fresh("idle", 0) \in Attempt /\ Backed(Fresh("idle", 0))
          /\ Fresh("idle", 0).sent =< Len(Fresh("idle", 0).texts)
      <3>1. 0 \in 0 .. MaxRetries
        BY SyncAssumption DEF SyncAssumption
      <3> QED
        BY <3>1, FreshBacked
    <2>3. Plain("none") \in Report /\ Kept(Plain("none"))
      BY DEF Plain, Report, Kept
    <2>4. SyncType
      BY <1>1, <2>1, <2>2, <2>3 DEF Init, SyncType
    <2>5. AttemptsBacked /\ ReportsBacked /\ VectorsHaveRows
      BY <1>1, <2>2, <2>3 DEF Init, AttemptsBacked, ReportsBacked, VectorsHaveRows
    <2> QED
      BY <2>4, <2>5 DEF SyncInv
  <1>2. ASSUME SyncInv, [Next]_vars
        PROVE  SyncInv'
    <2>1. CASE UNCHANGED vars
      BY <1>2, <2>1 DEF vars, stores, SyncInv, SyncType, AttemptsBacked, Backed, ReportsBacked, Kept,
                        VectorsHaveRows
    <2>2. CASE (\E t \in Ticket : Edit(t)) \/ DeleteVectors \/ DeleteRows
      BY <1>2, <2>2, WorldKeepsInv
    <2>3. ASSUME NEW j \in Job, Trigger(j) \/ AnswerTrigger(j) \/ Take(j) \/ Crash(j)
          PROVE  SyncInv'
      BY <1>2, <2>3, QueueKeepsInv
    <2>4. ASSUME NEW j \in Job, Work(j)
          PROVE  SyncInv'
      BY <1>2, <2>4, ReadingKeepsInv, StoringKeepsInv, UpsertingKeepsInv, EndingKeepsInv DEF Work
    <2> QED
      BY <1>2, <2>1, <2>2, <2>3, <2>4 DEF Next
  <1> QED
    BY <1>1, <1>2

\* However many syncs overlap, fail or die at any call, while their project is there a ticket
\* has a vector only if it has a row.
THEOREM VectorsStayWithRows == Spec => []VectorsHaveRows
  <1>1. SyncInv => VectorsHaveRows
    BY DEF SyncInv
  <1> QED
    BY <1>1, SyncInvIsInductive, PTL DEF Spec

\* The counts a completed sync reports are of rows and vectors that are stored, from the
\* report on until the project or its vectors are deleted.
THEOREM ReportsAreTrue == Spec => []ReportedIsStored
  <1>1. ASSUME SyncInv, ~ purged, project = "present", NEW j \in Job
        PROVE  /\ \A t \in status[j].synced : rows[t] # 0
               /\ \A p \in status[j].embedded : points[p] # 0
    BY <1>1 DEF SyncInv, ReportsBacked, Kept
  <1>2. SyncInv => ReportedIsStored
    BY <1>1 DEF ReportedIsStored
  <1> QED
    BY <1>2, SyncInvIsInductive, PTL DEF Spec
-----------------------------------------------------------------------------
(* A sync that met no other, and the type invariant. *)

\* What an attempt has read: distinct tickets.  Its texts are of that page, and a ticket it
\* counts is one it has gone through, all of whose texts it has.
Reading(a) ==
    /\ Len(a.page) =< PageSize /\ a.stored =< Len(a.page)
    /\ \A i, k \in 1 .. Len(a.page) : a.page[i][1] = a.page[k][1] => i = k
    /\ \A k \in 1 .. Len(a.texts) : \E i \in 1 .. Len(a.page) :
          a.texts[k].ticket = a.page[i][1] /\ a.texts[k].version = a.page[i][2]
    /\ \A i \in 1 .. Len(a.page) : a.page[i][1] \in a.synced =>
          /\ i =< a.stored
          /\ \A x \in ToSet(TextsOf(a.page[i][1], a.page[i][2])) : \E k \in 1 .. Len(a.texts) : a.texts[k] = x
    /\ a.pc \notin {"rows", "embed", "finish"} => a.stored = 0 /\ a.synced = {} /\ a.texts = << >>

\* The page is of versions Jira has had.
Seen(a, now) == \A i \in 1 .. Len(a.page) : a.page[i][2] =< now[a.page[i][1]]

\* What an attempt has written is still what it wrote.
Written(a) ==
    /\ project # "deleted" => \A i \in 1 .. Len(a.page) :
          a.page[i][1] \in a.synced => rows[a.page[i][1]] = a.page[i][2]
    /\ ~ purged => \A k \in 1 .. a.sent :
          points[<<a.texts[k].ticket, a.texts[k].field>>] = a.texts[k].version

\* Nothing stored is newer than the ticket.
Past ==
    /\ \A t \in Ticket : jira[t] =< Versions[t] /\ rows[t] =< jira[t]
    /\ \A p \in Ticket \X Field : points[p] =< jira[p[1]]
    /\ \A j \in Job : Seen(job[j], jira)

AloneInv == \A j \in alone : j \in Job /\ Active = {j} /\ Written(job[j])

MirrorInv ==
    /\ SyncInv
    /\ Past
    /\ recent \in SetToSeqs(Ticket)
    /\ trigger \in [Job -> {"none", "writing", "answered"}]
    /\ crashes \in 0 .. MaxCrashes
    /\ \A j \in Job : Reading(job[j])
    /\ AloneInv

\* Reading is of the page and the counts, and of no more.
LEMMA ReadingSame ==
    ASSUME NEW a \in Attempt, Reading(a), NEW b \in Attempt, b.page = a.page, b.stored = a.stored,
           b.texts = a.texts, b.synced = a.synced,
           b.pc \notin {"rows", "embed", "finish"} => a.pc \notin {"rows", "embed", "finish"}
    PROVE  Reading(b)
  <1>1. /\ Len(b.page) =< PageSize /\ b.stored =< Len(b.page)
        /\ \A i, k \in 1 .. Len(b.page) : b.page[i][1] = b.page[k][1] => i = k
    BY DEF Reading
  <1>2. \A k \in 1 .. Len(b.texts) : \E i \in 1 .. Len(b.page) :
           b.texts[k].ticket = b.page[i][1] /\ b.texts[k].version = b.page[i][2]
    BY DEF Reading
  <1>3. \A i \in 1 .. Len(b.page) : b.page[i][1] \in b.synced =>
           /\ i =< b.stored
           /\ \A x \in ToSet(TextsOf(b.page[i][1], b.page[i][2])) : \E k \in 1 .. Len(b.texts) : b.texts[k] = x
    BY SMTT(30) DEF Reading
  <1>4. b.pc \notin {"rows", "embed", "finish"} => b.stored = 0 /\ b.synced = {} /\ b.texts = << >>
    BY DEF Reading
  <1> QED
    BY <1>1, <1>2, <1>3, <1>4 DEF Reading

\* A step that only moves on, or notes that the project was there or that something failed.
Remark(a, p) ==
    {[a EXCEPT !.pc = p], [a EXCEPT !.pc = p, !.loaded = TRUE], [a EXCEPT !.pc = p, !.errors = TRUE]}

LEMMA RemarkedSame ==
    ASSUME NEW a \in Attempt, NEW p, NEW b \in Remark(a, p)
    PROVE  /\ b.page = a.page /\ b.stored = a.stored /\ b.texts = a.texts /\ b.synced = a.synced
           /\ b.sent = a.sent /\ b.pc = p
  BY DEF Remark, Attempt

\* A ticket comes once in the answer of Jira.
LEMMA RecentIsDistinct ==
    ASSUME recent \in SetToSeqs(Ticket), recent \in Seq(Ticket)
    PROVE  \A i, k \in 1 .. Len(recent) : recent[i] = recent[k] => i = k
  <1> DEFINE c == Cardinality(Ticket)
  <1>1. c \in Nat
    BY SyncAssumption, FS_CardinalityType DEF SyncAssumption
  <1>2. recent \in [1 .. c -> Ticket] /\ \A i, k \in 1 .. c : i # k => recent[i] # recent[k]
    BY DEF SetToSeqs
  <1> HIDE DEF c
  <1>3. Len(recent) = c
    BY <1>1, <1>2
  <1> QED
    BY <1>2, <1>3

LEMMA FreshReads ==
    ASSUME NEW p, p \notin {"rows", "embed", "finish"}, NEW r
    PROVE  Reading(Fresh(p, r)) /\ \A now : Seen(Fresh(p, r), now)
  <1>1. /\ Fresh(p, r).page = << >> /\ Fresh(p, r).stored = 0 /\ Fresh(p, r).texts = << >>
        /\ Fresh(p, r).synced = {} /\ Fresh(p, r).pc = p
    BY DEF Fresh
  <1>2. 0 =< PageSize
    BY SyncAssumption DEF SyncAssumption
  <1> QED
    BY <1>1, <1>2 DEF Reading, Seen

\* The one that met no other is the one that is active.
LEMMA AloneIsActive ==
    ASSUME AloneInv, NEW j \in Active, NEW i \in alone
    PROVE  i = j /\ alone = {j}
  BY DEF AloneInv

\* A call of a running attempt leaves most of the world alone.
LEMMA CallsTouch ==
    ASSUME SyncInv, NEW j \in Job, Calls(j)
    PROVE  /\ UNCHANGED <<jira, recent, trigger, project, crashes, purged, alone>>
           /\ j \in Active /\ Active' = Active
           /\ \A i \in Job \ {j} : job'[i] = job[i]
  <1>1. UNCHANGED <<jira, recent, trigger, project, crashes, purged, alone>>
    BY DEF Calls, LoadProject, BuildClients, Fetch, StoreTicket, Embed, UpsertBatch, outside
  <1>2. Shaped
    BY DEF SyncInv, SyncType, Shaped, Attempt
  <1>3. job[j].pc \in Running /\ \E p \in Running : Only(j, p, job[j].retries)
    BY <1>2, CallsAreOnly
  <1> QED
    BY <1>1, <1>3 DEF Only, Active

LEMMA CallKeepsMirror ==
    ASSUME MirrorInv, NEW j \in Job, Calls(j), Reading(job'[j]), Seen(job'[j], jira),
           \A t \in Ticket : rows'[t] =< jira[t], \A p \in Ticket \X Field : points'[p] =< jira[p[1]],
           j \in alone => Written(job[j])'
    PROVE  MirrorInv'
  <1>1. SyncInv'
    BY SyncInvIsInductive DEF MirrorInv, Calls, Next, Work
  <1>2. /\ UNCHANGED <<jira, recent, trigger, project, crashes, purged, alone>>
        /\ j \in Active /\ Active' = Active
        /\ \A i \in Job \ {j} : job'[i] = job[i]
    BY CallsTouch DEF MirrorInv
  <1>3. \A i \in Job : Reading(job'[i]) /\ Seen(job'[i], jira')
    BY <1>2 DEF MirrorInv, Past
  <1>4. Past'
    BY <1>2, <1>3 DEF MirrorInv, Past
  <1>5. AloneInv'
    <2>1. ASSUME NEW i \in alone'
          PROVE  i \in Job /\ Active' = {i} /\ Written(job[i])'
      <3>1. i = j
        BY <1>2, <2>1, AloneIsActive DEF MirrorInv
      <3> QED
        BY <1>2, <2>1, <3>1 DEF MirrorInv, AloneInv
    <2> QED
      BY <2>1 DEF AloneInv
  <1> QED
    BY <1>1, <1>2, <1>3, <1>4, <1>5 DEF MirrorInv

\* A call that writes nothing and counts nothing.
LEMMA ReadingKeepsMirror ==
    ASSUME MirrorInv, NEW j \in Job, LoadProject(j) \/ BuildClients(j) \/ Fetch(j) \/ Embed(j)
    PROVE  MirrorInv'
  <1>1. Calls(j) /\ UNCHANGED <<rows, points>>
    BY DEF Calls, LoadProject, BuildClients, Fetch, Embed, stores
  <1>2. job[j] \in Attempt /\ Reading(job[j]) /\ Seen(job[j], jira) /\ job[j].sent =< Len(job[j].texts)
    BY DEF MirrorInv, SyncInv, SyncType, Past
  <1>3. job \in [Job -> Attempt] /\ job' \in [Job -> Attempt]
    <2>1. SyncInv'
      BY <1>1, SyncInvIsInductive DEF MirrorInv, Calls, Next, Work
    <2> QED
      BY <2>1 DEF MirrorInv, SyncInv, SyncType
  <1>4. UNCHANGED <<project, purged>>
    BY <1>1, CallsTouch DEF MirrorInv
  <1>5. CASE /\ job'[j].page = job[j].page /\ job'[j].stored = job[j].stored
             /\ job'[j].texts = job[j].texts /\ job'[j].synced = job[j].synced
             /\ job'[j].sent = job[j].sent
             /\ job'[j].pc \notin {"rows", "embed", "finish"}
                  => job[j].pc \notin {"rows", "embed", "finish"}
    <2>1. Reading(job'[j]) /\ Seen(job'[j], jira)
      BY <1>2, <1>3, <1>5, ReadingSame DEF Seen
    <2>2. j \in alone => Written(job[j])'
      BY <1>1, <1>4, <1>5 DEF MirrorInv, AloneInv, Written
    <2> QED
      BY <1>1, <2>1, <2>2, CallKeepsMirror DEF MirrorInv, Past
  <1>6. CASE Fetch(j) /\ job'[j].pc = "rows"
    <2> DEFINE n == IF PageSize < Len(recent) THEN PageSize ELSE Len(recent)
               g == [i \in 1 .. n |-> <<recent[i], jira[recent[i]]>>]
    <2>1. /\ job'[j].page = g /\ job'[j].stored = 0 /\ job'[j].texts = << >> /\ job'[j].synced = {}
          /\ job'[j].sent = 0
      <3>1. job' = [job EXCEPT ![j] = [job[j] EXCEPT !.pc = "rows", !.page = g]]
        <4>1. \/ job' = [job EXCEPT ![j] = [job[j] EXCEPT !.pc = "rows", !.page = g]]
              \/ job' = [job EXCEPT ![j] = [job[j] EXCEPT !.pc = "finish", !.errors = TRUE]]
          BY <1>6 DEF Fetch
        <4> HIDE DEF g
        <4>2. CASE job' = [job EXCEPT ![j] = [job[j] EXCEPT !.pc = "finish", !.errors = TRUE]]
          <5>1. job'[j] \in Remark(job[j], "finish")
            BY <1>3, <4>2 DEF Remark
          <5> QED
            BY <1>2, <1>6, <5>1, RemarkedSame
        <4> QED
          BY <4>1, <4>2
      <3>2. job[j].stored = 0 /\ job[j].texts = << >> /\ job[j].synced = {} /\ job[j].sent = 0
        BY <1>2, <1>6 DEF Fetch, Reading, Attempt
      <3> HIDE DEF g
      <3> QED
        BY <1>2, <1>3, <3>1, <3>2 DEF Attempt
    <2>2. n \in Nat /\ n =< PageSize /\ n =< Len(recent) /\ recent \in Seq(Ticket)
      BY SyncAssumption DEF SyncAssumption, MirrorInv, SyncInv, SyncType
    <2>3. \A i, k \in 1 .. n : recent[i] = recent[k] => i = k
      BY <2>2, RecentIsDistinct DEF MirrorInv
    <2>4. Len(g) = n /\ \A i \in 1 .. n : g[i][1] = recent[i] /\ g[i][2] = jira[recent[i]]
      BY <2>2
    <2>5. \A t \in Ticket : jira[t] =< jira[t]
      BY DEF MirrorInv, SyncInv, SyncType
    <2> HIDE DEF g, n
    <2>6. \A i \in 1 .. n : recent[i] \in Ticket
      BY <2>2
    <2>7. Reading(job'[j])
      BY <2>1, <2>2, <2>3, <2>4 DEF Reading
    <2>8. Seen(job'[j], jira)
      BY <2>1, <2>4, <2>5, <2>6 DEF Seen
    <2>9. Written(job[j])'
      BY <2>1 DEF Written
    <2> QED
      BY <1>1, <2>7, <2>8, <2>9, CallKeepsMirror DEF MirrorInv, Past
  <1>7. \/ /\ job'[j].page = job[j].page /\ job'[j].stored = job[j].stored
           /\ job'[j].texts = job[j].texts /\ job'[j].synced = job[j].synced
           /\ job'[j].sent = job[j].sent
           /\ job'[j].pc \notin {"rows", "embed", "finish"}
                => job[j].pc \notin {"rows", "embed", "finish"}
        \/ Fetch(j) /\ job'[j].pc = "rows"
    <2>1. CASE LoadProject(j)
      <3>1. job[j].pc = "project" /\ \E p \in {"clients", "raised"} : job'[j] \in Remark(job[j], p)
        BY <1>3, <2>1 DEF LoadProject, Remark
      <3> QED
        BY <1>2, <3>1, RemarkedSame
    <2>2. CASE BuildClients(j)
      <3>1. job[j].pc = "clients" /\ \E p \in {"fetch", "raised"} : job'[j] \in Remark(job[j], p)
        BY <1>3, <2>2 DEF BuildClients, Step, Remark
      <3> QED
        BY <1>2, <3>1, RemarkedSame
    <2>3. CASE Fetch(j)
      <3> DEFINE n == IF PageSize < Len(recent) THEN PageSize ELSE Len(recent)
                 g == [i \in 1 .. n |-> <<recent[i], jira[recent[i]]>>]
      <3>1. \/ job' = [job EXCEPT ![j] = [job[j] EXCEPT !.pc = "rows", !.page = g]]
            \/ job' = [job EXCEPT ![j] = [job[j] EXCEPT !.pc = "finish", !.errors = TRUE]]
        BY <2>3 DEF Fetch
      <3> HIDE DEF g
      <3>2. job'[j].pc = "rows" \/ job'[j] \in Remark(job[j], "finish")
        <4>1. CASE job' = [job EXCEPT ![j] = [job[j] EXCEPT !.pc = "rows", !.page = g]]
          <5>1. job'[j] = [job[j] EXCEPT !.pc = "rows", !.page = g]
            BY <1>3, <4>1
          <5> QED
            BY <1>2, <5>1 DEF Attempt
        <4>2. CASE job' = [job EXCEPT ![j] = [job[j] EXCEPT !.pc = "finish", !.errors = TRUE]]
          BY <1>3, <4>2 DEF Remark
        <4> QED
          BY <3>1, <4>1, <4>2
      <3> QED
        BY <1>2, <2>3, <3>2, RemarkedSame
    <2>4. CASE Embed(j)
      <3>1. \E p \in {"finish", "embed"} : job'[j] \in Remark(job[j], p)
        BY <1>3, <2>4 DEF Embed, Remark
      <3> QED
        BY <1>2, <3>1, RemarkedSame
    <2> QED
      BY <2>1, <2>2, <2>3, <2>4
  <1> QED
    BY <1>5, <1>6, <1>7

\* What joined texts are made of.
LEMMA JoinedTexts ==
    ASSUME NEW s \in Seq(StoredText), NEW more \in Seq(StoredText)
    PROVE  /\ s \o more \in Seq(StoredText) /\ Len(s) =< Len(s \o more)
           /\ \A k \in 1 .. Len(s) : k \in 1 .. Len(s \o more) /\ (s \o more)[k] = s[k]
           /\ \A k \in 1 .. Len(s \o more) :
                 k \in 1 .. Len(s) \/ \E m \in 1 .. Len(more) : (s \o more)[k] = more[m]
           /\ \A m \in 1 .. Len(more) : \E k \in 1 .. Len(s \o more) : (s \o more)[k] = more[m]
  <1>1. /\ s \o more \in Seq(StoredText) /\ Len(s \o more) = Len(s) + Len(more)
        /\ Len(s) \in Nat /\ Len(more) \in Nat
    OBVIOUS
  <1>2. \A k \in 1 .. Len(s) + Len(more) :
          (s \o more)[k] = IF k =< Len(s) THEN s[k] ELSE more[k - Len(s)]
    OBVIOUS
  <1>3. ASSUME NEW k \in 1 .. Len(s \o more), k \notin 1 .. Len(s)
        PROVE  \E m \in 1 .. Len(more) : (s \o more)[k] = more[m]
    <2>1. k - Len(s) \in 1 .. Len(more) /\ ~ (k =< Len(s))
      BY <1>1, <1>3
    <2> QED
      BY <1>1, <1>2, <1>3, <2>1
  <1>4. ASSUME NEW m \in 1 .. Len(more)
        PROVE  \E k \in 1 .. Len(s \o more) : (s \o more)[k] = more[m]
    <2> DEFINE k == Len(s) + m
    <2>1. k \in 1 .. Len(s) + Len(more) /\ ~ (k =< Len(s)) /\ k - Len(s) = m
      BY <1>1
    <2> QED
      BY <1>1, <1>2, <2>1
  <1>5. \A k \in 1 .. Len(s) : k \in 1 .. Len(s \o more) /\ (s \o more)[k] = s[k]
    BY <1>1, <1>2
  <1>6. \A k \in 1 .. Len(s \o more) : k \in 1 .. Len(s) \/ \E m \in 1 .. Len(more) : (s \o more)[k] = more[m]
    BY <1>3
  <1>7. Len(s) =< Len(s \o more)
    BY <1>1
  <1> DEFINE joined == s \o more
  <1>8. /\ joined \in Seq(StoredText) /\ Len(s) =< Len(joined)
        /\ \A k \in 1 .. Len(s) : k \in 1 .. Len(joined) /\ joined[k] = s[k]
    BY <1>1, <1>5, <1>7
  <1>9. /\ \A k \in 1 .. Len(joined) : k \in 1 .. Len(s) \/ \E m \in 1 .. Len(more) : joined[k] = more[m]
        /\ \A m \in 1 .. Len(more) : \E k \in 1 .. Len(joined) : joined[k] = more[m]
    BY <1>4, <1>6
  <1> HIDE DEF joined
  <1> QED
    BY <1>8, <1>9 DEF joined

\* The next ticket of the page.
LEMMA StoringKeepsMirror ==
    ASSUME MirrorInv, NEW j \in Job, StoreTicket(j)
    PROVE  MirrorInv'
  <1> DEFINE o == job[j]
             n == o.stored + 1
             t == o.page[n][1]
             v == o.page[n][2]
             more == TextsOf(t, v)
             texts == o.texts \o more
             a == [o EXCEPT !.stored = n, !.texts = texts, !.synced = @ \cup {t}]
             b == [o EXCEPT !.stored = n, !.errors = TRUE]
  <1>1. /\ job \in [Job -> Attempt] /\ o \in Attempt /\ Reading(o) /\ Seen(o, jira)
        /\ o.sent =< Len(o.texts) /\ o.pc = "rows" /\ o.stored < Len(o.page)
    BY DEF MirrorInv, SyncInv, SyncType, Past, StoreTicket
  <1>2. /\ o.stored \in Nat /\ o.sent \in Nat /\ o.page \in Seq(Ticket \X (Nat \ {0}))
        /\ o.texts \in Seq(StoredText) /\ Len(o.texts) \in Nat /\ Len(o.page) \in Nat
    BY <1>1, AttemptFields
  <1>3. n \in 1 .. Len(o.page) /\ n \in Nat /\ o.stored =< n
    BY <1>1, <1>2
  <1>4. \A i \in 1 .. Len(o.page) : o.page[i][1] \in Ticket /\ o.page[i][2] \in Nat \ {0}
    <2> HIDE DEF o
    <2>1. \A i \in 1 .. Len(o.page) : o.page[i] \in Ticket \X (Nat \ {0})
      BY <1>2
    <2> QED
      BY <2>1
  <1>5. t \in Ticket /\ v \in Nat \ {0}
    BY <1>3, <1>4
  <1>6. \/ UpsertJiraTicket(t, v) /\ job' = [job EXCEPT ![j] = a]
        \/ job' = [job EXCEPT ![j] = b] /\ UNCHANGED rows
    BY DEF StoreTicket
  <1>7. UNCHANGED <<points, project, purged>> /\ Calls(j)
    BY DEF StoreTicket, outside, Calls
  <1> HIDE DEF o, n
  <1>8. /\ b.page = o.page /\ b.stored = n /\ b.texts = o.texts /\ b.synced = o.synced
        /\ b.sent = o.sent /\ b.pc = "rows"
    BY <1>1 DEF Attempt
  <1>9. /\ a.page = o.page /\ a.stored = n /\ a.texts = texts /\ a.synced = o.synced \cup {t}
        /\ a.sent = o.sent /\ a.pc = "rows"
    <2> HIDE DEF texts, t
    <2> QED
      BY <1>1 DEF Attempt
  <1> HIDE DEF a, b
  <1>10. CASE job' = [job EXCEPT ![j] = b] /\ UNCHANGED rows
    <2>1. job'[j] = b
      BY <1>1, <1>10
    <2>2. Reading(b) /\ Seen(b, jira)
      <3>1. \A i \in 1 .. Len(o.page) : o.page[i][1] \in o.synced => i =< n
        BY <1>1, <1>2, <1>3 DEF Reading
      <3>2. /\ Len(b.page) =< PageSize /\ b.stored =< Len(b.page)
            /\ \A i, k \in 1 .. Len(b.page) : b.page[i][1] = b.page[k][1] => i = k
        BY <1>1, <1>3, <1>8 DEF Reading
      <3>3. \A k \in 1 .. Len(b.texts) : \E i \in 1 .. Len(b.page) :
              b.texts[k].ticket = b.page[i][1] /\ b.texts[k].version = b.page[i][2]
        BY <1>1, <1>8 DEF Reading
      <3>4. \A i \in 1 .. Len(b.page) : b.page[i][1] \in b.synced =>
              /\ i =< b.stored
              /\ \A x \in ToSet(TextsOf(b.page[i][1], b.page[i][2])) :
                    \E k \in 1 .. Len(b.texts) : b.texts[k] = x
        <4>1. \A i \in 1 .. Len(o.page) : o.page[i][1] \in o.synced =>
                 \A x \in ToSet(TextsOf(o.page[i][1], o.page[i][2])) : \E k \in 1 .. Len(o.texts) : o.texts[k] = x
          BY <1>1 DEF Reading
        <4> QED
          BY <1>8, <3>1, <4>1
      <3>5. Seen(b, jira)
        BY <1>1, <1>8 DEF Seen
      <3> QED
        BY <1>8, <3>2, <3>3, <3>4, <3>5 DEF Reading
    <2>3. j \in alone => Written(job[j])'
      BY <1>7, <1>8, <1>10, <2>1 DEF MirrorInv, AloneInv, Written, o
    <2> QED
      BY <1>7, <1>10, <2>1, <2>2, <2>3, CallKeepsMirror DEF MirrorInv, Past
  <1>11. CASE UpsertJiraTicket(t, v) /\ job' = [job EXCEPT ![j] = a]
    <2>1. job'[j] = a
      BY <1>1, <1>11
    <2>2. /\ rows \in [Ticket -> Nat] /\ rows'[t] = v
          /\ \A u \in Ticket \ {t} : rows'[u] = rows[u]
      BY <1>5, <1>11 DEF UpsertJiraTicket, MirrorInv, SyncInv, SyncType
    <2>3. /\ more \in Seq(StoredText)
          /\ \A m \in 1 .. Len(more) : more[m].ticket = t /\ more[m].version = v
      BY <1>5, TextsOfType
    <2>4. \A i \in 1 .. Len(o.page) : o.page[i][1] = t => i = n
      BY <1>1, <1>3 DEF Reading
    <2> HIDE DEF more
    <2>5. /\ Len(o.texts) =< Len(texts)
          /\ \A k \in 1 .. Len(o.texts) : k \in 1 .. Len(texts) /\ texts[k] = o.texts[k]
          /\ \A k \in 1 .. Len(texts) :
                k \in 1 .. Len(o.texts) \/ \E m \in 1 .. Len(more) : texts[k] = more[m]
          /\ \A m \in 1 .. Len(more) : \E k \in 1 .. Len(texts) : texts[k] = more[m]
      BY <1>2, <2>3, JoinedTexts
    <2> HIDE DEF texts
    <2>6. \A k \in 1 .. Len(texts) : \E i \in 1 .. Len(o.page) :
            texts[k].ticket = o.page[i][1] /\ texts[k].version = o.page[i][2]
      <3>1. ASSUME NEW k \in 1 .. Len(texts)
            PROVE  \E i \in 1 .. Len(o.page) :
                      texts[k].ticket = o.page[i][1] /\ texts[k].version = o.page[i][2]
        <4>1. CASE k \in 1 .. Len(o.texts)
          BY <1>1, <2>5, <4>1 DEF Reading
        <4>2. CASE \E m \in 1 .. Len(more) : texts[k] = more[m]
          BY <1>3, <2>3, <4>2
        <4> QED
          BY <2>5, <4>1, <4>2
      <3> QED
        BY <3>1
    <2>7. ASSUME NEW i \in 1 .. Len(o.page), o.page[i][1] \in o.synced \cup {t}
          PROVE  /\ i =< n
                 /\ \A x \in ToSet(TextsOf(o.page[i][1], o.page[i][2])) :
                       \E k \in 1 .. Len(texts) : texts[k] = x
      <3>1. CASE i = n
        <4>1. \A x \in ToSet(more) : \E m \in 1 .. Len(more) : x = more[m]
          BY <2>3 DEF ToSet
        <4>2. TextsOf(o.page[i][1], o.page[i][2]) = more
          BY <3>1 DEF more
        <4> QED
          BY <1>3, <2>5, <3>1, <4>1, <4>2
      <3>2. CASE i # n
        <4>1. o.page[i][1] \in o.synced
          BY <2>4, <2>7, <3>2
        <4>2. /\ i =< o.stored
              /\ \A x \in ToSet(TextsOf(o.page[i][1], o.page[i][2])) :
                    \E k \in 1 .. Len(o.texts) : o.texts[k] = x
          BY <1>1, <4>1 DEF Reading
        <4>3. i =< n
          BY <1>2, <1>3, <4>2
        <4>4. \A k \in 1 .. Len(o.texts) : \E m \in 1 .. Len(texts) : texts[m] = o.texts[k]
          BY <2>5
        <4> QED
          BY <4>2, <4>3, <4>4
      <3> QED
        BY <3>1, <3>2
    <2>8. Reading(a) /\ Seen(a, jira)
      BY <1>1, <1>3, <1>9, <2>6, <2>7 DEF Reading, Seen
    <2>9. \A u \in Ticket : rows'[u] =< jira[u]
      <3>1. v =< jira[t]
        BY <1>1, <1>3 DEF Seen
      <3> QED
        BY <1>5, <2>2, <3>1 DEF MirrorInv, Past
    <2>10. ASSUME j \in alone
           PROVE  Written(job[j])'
      <3>1. Written(o)
        BY <2>10 DEF MirrorInv, AloneInv, o
      <3>2. ASSUME project # "deleted", NEW i \in 1 .. Len(o.page), o.page[i][1] \in o.synced \cup {t}
            PROVE  rows'[o.page[i][1]] = o.page[i][2]
        <4>1. CASE i = n
          BY <2>2, <4>1
        <4>2. CASE i # n
          <5>1. o.page[i][1] \in o.synced /\ o.page[i][1] # t
            BY <2>4, <3>2, <4>2
          <5> QED
            BY <1>4, <2>2, <3>1, <3>2, <5>1 DEF Written
        <4> QED
          BY <4>1, <4>2
      <3>3. \A k \in 1 .. o.sent : k \in 1 .. Len(o.texts)
        BY <1>1, <1>2
      <3>4. ~ purged => \A k \in 1 .. o.sent :
              points[<<texts[k].ticket, texts[k].field>>] = texts[k].version
        BY <2>5, <3>1, <3>3 DEF Written
      <3> QED
        BY <1>7, <1>9, <2>1, <3>2, <3>4 DEF Written
    <2> QED
      BY <1>7, <2>1, <2>8, <2>9, <2>10, CallKeepsMirror DEF MirrorInv, Past
  <1> QED
    BY <1>6, <1>10, <1>11

\* A batch of vectors.
LEMMA UpsertingKeepsMirror ==
    ASSUME MirrorInv, NEW j \in Job, UpsertBatch(j)
    PROVE  MirrorInv'
  <1> DEFINE o == job[j]
             texts == o.texts
             last == IF o.sent + BatchSize < Len(texts) THEN o.sent + BatchSize ELSE Len(texts)
             batch == {texts[i] : i \in o.sent + 1 .. last}
             Of(p) == {x \in batch : <<x.ticket, x.field>> = p}
             q == IF last = Len(texts) THEN "finish" ELSE o.pc
             a == [o EXCEPT !.sent = last, !.pc = q]
             b == [o EXCEPT !.pc = "finish", !.errors = TRUE]
  <1>1. /\ job \in [Job -> Attempt] /\ o \in Attempt /\ Reading(o) /\ Seen(o, jira)
        /\ o.sent < Len(o.texts) /\ o.pc = "embed"
    BY DEF MirrorInv, SyncInv, SyncType, Past, UpsertBatch
  <1>2. UNCHANGED <<rows, project, purged>> /\ Calls(j)
    BY DEF UpsertBatch, outside, Calls
  <1>3. \/ /\ points' = [p \in DOMAIN points |->
                            IF Of(p) = {} THEN points[p] ELSE (CHOOSE x \in Of(p) : TRUE).version]
           /\ job' = [job EXCEPT ![j] = a]
        \/ job' = [job EXCEPT ![j] = b] /\ UNCHANGED points
    BY DEF UpsertBatch
  <1>4. o.sent \in Nat /\ Len(texts) \in Nat /\ last \in Nat /\ o.sent =< last /\ last =< Len(texts)
    <2>1. o.sent \in Nat /\ Len(texts) \in Nat
      BY <1>1, AttemptFields
    <2>2. BatchSize \in Nat
      BY SyncAssumption DEF SyncAssumption
    <2> HIDE DEF texts, o
    <2> QED
      BY <1>1, <2>1, <2>2 DEF texts
  <1>5. \A i \in 1 .. Len(texts) : /\ texts[i].ticket \in Ticket /\ texts[i].field \in Field
                                   /\ texts[i].version \in Nat \ {0}
    BY <1>1, AttemptFields
  <1>6. \A i \in 1 .. Len(texts) : texts[i].version =< jira[texts[i].ticket]
    BY <1>1 DEF Reading, Seen
  <1>7. \A i, k \in 1 .. Len(texts) : texts[i].ticket = texts[k].ticket => texts[i].version = texts[k].version
    BY <1>1, SMTT(30) DEF Reading
  <1> HIDE DEF o, texts, last
  <1>8. /\ b.page = o.page /\ b.stored = o.stored /\ b.texts = o.texts /\ b.synced = o.synced
        /\ b.sent = o.sent /\ b.pc = "finish" /\ b \in Attempt
    BY <1>1 DEF Attempt, Running
  <1>9. /\ a.page = o.page /\ a.stored = o.stored /\ a.texts = o.texts /\ a.synced = o.synced
        /\ a.sent = last /\ a.pc \in {"embed", "finish"} /\ a \in Attempt
    BY <1>1, <1>4 DEF Attempt, Running
  <1> HIDE DEF a, b
  <1>10. CASE job' = [job EXCEPT ![j] = b] /\ UNCHANGED points
    <2>1. job'[j] = b
      BY <1>1, <1>10
    <2>2. Reading(b) /\ Seen(b, jira)
      BY <1>1, <1>8, ReadingSame DEF Seen
    <2>3. j \in alone => Written(job[j])'
      BY <1>2, <1>8, <1>10, <2>1 DEF MirrorInv, AloneInv, Written, o
    <2> QED
      BY <1>2, <1>10, <2>1, <2>2, <2>3, CallKeepsMirror DEF MirrorInv, Past
  <1>11. CASE /\ points' = [p \in DOMAIN points |->
                               IF Of(p) = {} THEN points[p] ELSE (CHOOSE x \in Of(p) : TRUE).version]
              /\ job' = [job EXCEPT ![j] = a]
    <2>1. job'[j] = a
      BY <1>1, <1>11
    <2>2. Reading(a) /\ Seen(a, jira)
      BY <1>1, <1>9, ReadingSame DEF Seen
    <2>3. \A p : \A x \in Of(p) :
            \E i \in 1 .. Len(texts) : x = texts[i] /\ <<texts[i].ticket, texts[i].field>> = p
      BY <1>4
    <2>4. \A i \in o.sent + 1 .. last : Of(<<texts[i].ticket, texts[i].field>>) # {}
      OBVIOUS
    <2> HIDE DEF Of
    <2>5. \A p \in Ticket \X Field :
            \/ Of(p) = {} /\ points'[p] = points[p]
            \/ \E i \in 1 .. Len(texts) : /\ points'[p] = texts[i].version
                                          /\ <<texts[i].ticket, texts[i].field>> = p
      <3>1. DOMAIN points = Ticket \X Field
        BY DEF MirrorInv, SyncInv, SyncType
      <3>2. \A p \in Ticket \X Field : Of(p) # {} => (CHOOSE x \in Of(p) : TRUE) \in Of(p)
        OBVIOUS
      <3> QED
        BY <1>11, <2>3, <3>1, <3>2
    <2>6. ASSUME NEW p \in Ticket \X Field
          PROVE  points'[p] =< jira[p[1]]
      <3>1. CASE points'[p] = points[p]
        BY <3>1 DEF MirrorInv, Past
      <3>2. CASE \E i \in 1 .. Len(texts) : /\ points'[p] = texts[i].version
                                            /\ <<texts[i].ticket, texts[i].field>> = p
        BY <1>6, <3>2
      <3> QED
        BY <2>5, <3>1, <3>2
    <2>7. ASSUME j \in alone
          PROVE  Written(job[j])'
      <3>1. Written(o)
        BY <2>7 DEF MirrorInv, AloneInv, o
      <3>2. ASSUME ~ purged, NEW k \in 1 .. last
            PROVE  points'[<<texts[k].ticket, texts[k].field>>] = texts[k].version
        <4> DEFINE p == <<texts[k].ticket, texts[k].field>>
        <4>1. k \in 1 .. Len(texts)
          BY <1>4
        <4>2. p \in Ticket \X Field
          BY <1>5, <4>1
        <4>3. CASE Of(p) = {} /\ points'[p] = points[p]
          <5>1. k \in 1 .. o.sent
            BY <1>4, <2>4, <4>3
          <5> QED
            BY <3>1, <3>2, <4>3, <5>1 DEF Written, texts
        <4>4. CASE \E i \in 1 .. Len(texts) : /\ points'[p] = texts[i].version
                                              /\ <<texts[i].ticket, texts[i].field>> = p
          BY <1>7, <4>1, <4>4
        <4> QED
          BY <2>5, <4>2, <4>3, <4>4
      <3> QED
        BY <1>2, <1>9, <2>1, <3>1, <3>2 DEF Written, texts
    <2> QED
      BY <1>2, <2>1, <2>2, <2>6, <2>7, CallKeepsMirror DEF MirrorInv, Past
  <1> QED
    BY <1>3, <1>10, <1>11

\* An attempt ends: what it met is forgotten.
LEMMA EndingKeepsMirror ==
    ASSUME MirrorInv, NEW j \in Job, Finish(j) \/ Raised(j) \/ Crash(j)
    PROVE  MirrorInv'
  <1>1. SyncInv'
    BY SyncInvIsInductive DEF MirrorInv, Next, Work
  <1>2. /\ UNCHANGED <<jira, recent, trigger, rows, points>> /\ alone' = alone \ {j}
        /\ crashes' \in 0 .. MaxCrashes /\ j \in Active
    BY SyncAssumption DEF Finish, Raised, Crash, outside, stores, MirrorInv, Active, Running, SyncAssumption
  <1>3. PICK p \in {"succeeded", "failed", "queued", "lost"}, r \in Nat :
          job' = [job EXCEPT ![j] = Fresh(p, r)]
    <2>1. job[j].retries \in Nat /\ job[j].retries + 1 \in Nat
      BY SyncAssumption DEF MirrorInv, SyncInv, SyncType, Attempt, SyncAssumption
    <2> QED
      BY <2>1 DEF Finish, Raised, Crash
  <1>4. job'[j] = Fresh(p, r) /\ \A i \in Job \ {j} : job'[i] = job[i]
    BY <1>3 DEF MirrorInv, SyncInv, SyncType
  <1>5. \A i \in Job : Reading(job'[i]) /\ Seen(job'[i], jira)
    BY <1>4, FreshReads DEF MirrorInv, Past
  <1>6. alone' = {}
    BY <1>2, AloneIsActive DEF MirrorInv
  <1>7. AloneInv' /\ Past'
    BY <1>2, <1>5, <1>6 DEF AloneInv, MirrorInv, Past
  <1> QED
    BY <1>1, <1>2, <1>5, <1>7 DEF MirrorInv

\* The queue: a sync is asked for, and its message taken.
LEMMA QueueKeepsMirror ==
    ASSUME MirrorInv, NEW j \in Job, Trigger(j) \/ Take(j)
    PROVE  MirrorInv'
  <1>1. SyncInv'
    BY SyncInvIsInductive DEF MirrorInv, Next
  <1>2. /\ UNCHANGED <<jira, recent, crashes, rows, points, project, purged>>
        /\ trigger' \in [Job -> {"none", "writing", "answered"}]
    BY DEF Trigger, Take, outside, stores, MirrorInv
  <1>3. /\ job \in [Job -> Attempt] /\ job[j] \in Attempt /\ Reading(job[j]) /\ Seen(job[j], jira)
        /\ job[j].sent =< Len(job[j].texts)
    BY DEF MirrorInv, SyncInv, SyncType, Past
  <1>4. /\ job[j].pc \in {"idle", "queued"}
        /\ \E p \in {"queued", "project"} : job' = [job EXCEPT ![j] = [job[j] EXCEPT !.pc = p]]
    BY DEF Trigger, Take, Step
  <1>5. PICK p \in {"queued", "project"} : job'[j] \in Remark(job[j], p)
    BY <1>3, <1>4 DEF Remark
  <1>6. /\ job'[j].page = job[j].page /\ job'[j].stored = job[j].stored /\ job'[j].texts = job[j].texts
        /\ job'[j].synced = job[j].synced /\ job'[j].sent = job[j].sent /\ job'[j].pc = p
    BY <1>3, <1>5, RemarkedSame
  <1>7. \A i \in Job \ {j} : job'[i] = job[i]
    BY <1>3, <1>4
  <1>8. Reading(job'[j]) /\ Seen(job'[j], jira)
    <2>1. job'[j] \in Attempt
      BY <1>1 DEF SyncInv, SyncType
    <2> QED
      BY <1>3, <1>4, <1>6, <2>1, ReadingSame DEF Seen
  <1>9. \A i \in Job : Reading(job'[i]) /\ Seen(job'[i], jira')
    BY <1>2, <1>7, <1>8 DEF MirrorInv, Past
  <1>10. Past'
    BY <1>2, <1>9 DEF MirrorInv, Past
  <1>11. j \notin Active
    BY <1>4 DEF Active, Running
  <1>12. AloneInv'
    <2>1. CASE Trigger(j)
      <3>1. alone' = alone /\ p = "queued"
        <4>1. alone' = alone /\ job' = [job EXCEPT ![j] = [job[j] EXCEPT !.pc = "queued"]]
          BY <2>1 DEF Trigger, Step
        <4>2. job'[j].pc = "queued"
          BY <1>3, <4>1 DEF Attempt
        <4> QED
          BY <1>6, <4>1, <4>2
      <3>2. Active' = Active
        BY <1>4, <1>6, <1>7, <1>11, <3>1 DEF Active, Running
      <3>3. \A i \in alone : i # j /\ i \in Job /\ job'[i] = job[i]
        BY <1>7, <1>11 DEF MirrorInv, AloneInv
      <3>4. ASSUME NEW i \in alone
            PROVE  i \in Job /\ Active' = {i} /\ Written(job[i])'
        <4>1. i \in Job /\ Active = {i} /\ Written(job[i]) /\ job'[i] = job[i]
          BY <3>3 DEF MirrorInv, AloneInv
        <4>2. Written(job[i])'
          BY <1>2, <4>1 DEF Written
        <4> QED
          BY <3>2, <4>1, <4>2
      <3> QED
        BY <3>1, <3>4 DEF AloneInv
    <2>2. CASE Take(j)
      <3>1. alone' = IF Active = {} THEN {j} ELSE {}
        BY <2>2 DEF Take
      <3>2. CASE Active = {}
        <4>1. job'[j].pc = "project"
          BY <1>3, <2>2 DEF Take, Step, Attempt
        <4>2. Active' = {j}
          BY <1>7, <3>2, <4>1 DEF Active, Running
        <4>3. job[j].texts = << >> /\ job[j].synced = {} /\ job[j].sent = 0
          BY <1>3, <1>4 DEF Reading, Attempt
        <4>4. Written(job[j])'
          BY <1>6, <4>3 DEF Written
        <4> QED
          BY <3>1, <3>2, <4>2, <4>4 DEF AloneInv
      <3>3. CASE Active # {}
        BY <3>1, <3>3 DEF AloneInv
      <3> QED
        BY <3>2, <3>3
    <2> QED
      BY <2>1, <2>2
  <1> QED
    BY <1>1, <1>2, <1>9, <1>10, <1>12 DEF MirrorInv

\* A ticket that is moved to the front: it is still there once.
LEMMA MovedToFront ==
    ASSUME recent \in SetToSeqs(Ticket), NEW t \in Ticket, NEW k \in DOMAIN recent, recent[k] = t,
           recent' = [i \in DOMAIN recent |-> IF i = 1 THEN t
                                              ELSE IF i =< k THEN recent[i - 1] ELSE recent[i]]
    PROVE  recent' \in SetToSeqs(Ticket)
  <1> DEFINE c == Cardinality(Ticket)
  <1>1. c \in Nat
    BY SyncAssumption, FS_CardinalityType DEF SyncAssumption
  <1>2. recent \in [1 .. c -> Ticket] /\ \A i, m \in 1 .. c : i # m => recent[i] # recent[m]
    BY DEF SetToSeqs
  <1> HIDE DEF c
  <1>3. k \in 1 .. c
    BY <1>2
  <1>4. recent' \in [1 .. c -> Ticket]
    BY <1>1, <1>2, <1>3
  <1>5. \A i \in 1 .. c : \E from \in 1 .. c :
          /\ recent'[i] = recent[from]
          /\ from = IF i = 1 THEN k ELSE IF i =< k THEN i - 1 ELSE i
    BY <1>1, <1>2, <1>3
  <1>6. ASSUME NEW i \in 1 .. c, NEW m \in 1 .. c, i # m
        PROVE  recent'[i] # recent'[m]
    <2> DEFINE From(x) == IF x = 1 THEN k ELSE IF x =< k THEN x - 1 ELSE x
    <2>1. From(i) # From(m)
      BY <1>1, <1>3, <1>6
    <2>2. /\ recent'[i] = recent[From(i)] /\ From(i) \in 1 .. c
          /\ recent'[m] = recent[From(m)] /\ From(m) \in 1 .. c
      BY <1>5
    <2> HIDE DEF From
    <2> QED
      BY <1>2, <2>1, <2>2
  <1> QED
    BY <1>4, <1>6 DEF SetToSeqs, c

\* What happens around the syncs.
LEMMA WorldKeepsMirror ==
    ASSUME MirrorInv, \/ \E t \in Ticket : Edit(t)
                      \/ \E j \in Job : AnswerTrigger(j)
                      \/ DeleteVectors \/ DeleteRows
    PROVE  MirrorInv'
  <1>1. SyncInv' /\ UNCHANGED <<job, alone, crashes>>
    BY SyncInvIsInductive DEF MirrorInv, Next, Edit, AnswerTrigger, DeleteVectors, DeleteRows, outside
  <1>2. /\ jira \in [Ticket -> Nat \ {0}] /\ rows \in [Ticket -> Nat]
        /\ points \in [Ticket \X Field -> Nat] /\ job \in [Job -> Attempt]
    BY DEF MirrorInv, SyncInv, SyncType
  <1>3. \A j \in Job : Reading(job'[j])
    BY <1>1 DEF MirrorInv
  <1>4. Active' = Active
    BY <1>1 DEF Active
  <1>5. ASSUME NEW t \in Ticket, Edit(t)
        PROVE  MirrorInv'
    <2>1. /\ UNCHANGED <<trigger, rows, points, project, purged>>
          /\ jira' = [jira EXCEPT ![t] = @ + 1] /\ jira[t] < Versions[t]
      BY <1>5 DEF Edit, stores
    <2>2. ASSUME NEW u \in Ticket
          PROVE  jira'[u] \in Nat /\ jira[u] =< jira'[u] /\ jira'[u] =< Versions[u]
      <3>1. jira[u] \in Nat /\ Versions[u] \in Nat /\ jira[u] =< Versions[u]
        BY <1>2, SyncAssumption DEF MirrorInv, Past, SyncAssumption
      <3>2. CASE u = t
        <4>1. jira'[u] = jira[u] + 1 /\ jira[u] < Versions[u]
          BY <1>2, <2>1, <3>2
        <4> QED
          BY <3>1, <4>1
      <3>3. CASE u # t
        <4>1. jira'[u] = jira[u]
          BY <1>2, <2>1, <3>3
        <4> QED
          BY <3>1, <4>1
      <3> QED
        BY <3>2, <3>3
    <2>3. ASSUME NEW j \in Job
          PROVE  Seen(job[j], jira')
      <3>1. ASSUME NEW i \in 1 .. Len(job[j].page)
            PROVE  job[j].page[i][2] =< jira'[job[j].page[i][1]]
        <4>1. job[j].page \in Seq(Ticket \X (Nat \ {0}))
          BY <1>2, AttemptFields
        <4>2. job[j].page[i] \in Ticket \X (Nat \ {0})
          BY <4>1
        <4>3. job[j].page[i][2] =< jira[job[j].page[i][1]]
          BY DEF MirrorInv, Past, Seen
        <4> QED
          BY <1>2, <2>2, <4>2, <4>3
      <3> QED
        BY <3>1 DEF Seen
    <2>4. \A u \in Ticket : jira'[u] =< Versions[u] /\ rows[u] =< jira'[u]
      BY <1>2, <2>2 DEF MirrorInv, Past
    <2>5. \A p \in Ticket \X Field : points[p] =< jira'[p[1]]
      <3>1. ASSUME NEW p \in Ticket \X Field
            PROVE  points[p] =< jira'[p[1]]
        <4>1. points[p] \in Nat /\ points[p] =< jira[p[1]] /\ jira[p[1]] \in Nat /\ p[1] \in Ticket
          BY <1>2 DEF MirrorInv, Past
        <4> QED
          BY <2>2, <4>1
      <3> QED
        BY <3>1
    <2>6. Past'
      BY <1>1, <2>1, <2>3, <2>4, <2>5 DEF Past
    <2>7. recent' \in SetToSeqs(Ticket)
      BY <1>5, MovedToFront DEF Edit, MirrorInv
    <2>8. AloneInv'
      BY <1>1, <1>4, <2>1 DEF MirrorInv, AloneInv, Written
    <2> QED
      BY <1>1, <1>3, <2>1, <2>6, <2>7, <2>8 DEF MirrorInv
  <1>6. ASSUME NEW j \in Job, AnswerTrigger(j)
        PROVE  MirrorInv'
    <2>1. /\ UNCHANGED <<jira, recent, rows, points, project, purged>>
          /\ trigger' \in [Job -> {"none", "writing", "answered"}]
      BY <1>6 DEF AnswerTrigger, stores, outside, MirrorInv
    <2>2. Past'
      BY <1>1, <2>1 DEF MirrorInv, Past
    <2>3. AloneInv'
      BY <1>1, <1>4, <2>1 DEF MirrorInv, AloneInv, Written
    <2> QED
      BY <1>1, <1>3, <2>1, <2>2, <2>3 DEF MirrorInv
  <1>7. CASE DeleteVectors
    <2>1. UNCHANGED <<jira, recent, rows, trigger>> /\ project = "present" /\ project' = "deleting"
      BY <1>7 DEF DeleteVectors
    <2>2. \/ points' = [p \in DOMAIN points |-> 0] /\ purged' = TRUE
          \/ UNCHANGED <<points, purged>>
      BY <1>7 DEF DeleteVectors
    <2>3. \A p \in Ticket \X Field : points'[p] =< jira[p[1]]
      BY <1>2, <2>2 DEF MirrorInv, Past
    <2>4. Past'
      BY <1>1, <2>1, <2>3 DEF MirrorInv, Past
    <2>5. AloneInv'
      BY <1>1, <1>4, <2>1, <2>2 DEF MirrorInv, AloneInv, Written
    <2> QED
      BY <1>1, <1>3, <2>1, <2>4, <2>5 DEF MirrorInv
  <1>8. CASE DeleteRows
    <2>1. /\ UNCHANGED <<jira, recent, points, trigger, purged>> /\ project = "deleting"
          /\ \/ project' = "deleted" /\ rows' = [t \in Ticket |-> 0]
             \/ project' = "present" /\ UNCHANGED rows
      BY <1>8 DEF DeleteRows
    <2>2. \A t \in Ticket : rows'[t] =< jira[t]
      BY <1>2, <2>1 DEF MirrorInv, Past
    <2>3. Past'
      BY <1>1, <2>1, <2>2 DEF MirrorInv, Past
    <2>4. AloneInv'
      BY <1>1, <1>4, <2>1 DEF MirrorInv, AloneInv, Written
    <2> QED
      BY <1>1, <1>3, <2>1, <2>3, <2>4 DEF MirrorInv
  <1> QED
    BY <1>5, <1>6, <1>7, <1>8

LEMMA MirrorInvIsInductive ==
    /\ Init => MirrorInv
    /\ MirrorInv /\ [Next]_vars => MirrorInv'
  <1>1. ASSUME Init
        PROVE  MirrorInv
    <2>1. SyncInv
      BY <1>1, SyncInvIsInductive
    <2>2. \A j \in Job : Reading(job[j]) /\ Seen(job[j], jira)
      BY <1>1, FreshReads DEF Init
    <2>3. \A t \in Ticket : Versions[t] \in Nat \ {0} /\ jira[t] = 1 /\ rows[t] = 0
      BY <1>1, SyncAssumption DEF Init, SyncAssumption
    <2>4. \A p \in Ticket \X Field : points[p] = 0 /\ p[1] \in Ticket
      BY <1>1 DEF Init
    <2>5. Past
      BY <2>2, <2>3, <2>4 DEF Past
    <2>6. crashes \in 0 .. MaxCrashes
      BY <1>1, SyncAssumption DEF Init, SyncAssumption
    <2> QED
      BY <1>1, <2>1, <2>2, <2>5, <2>6 DEF Init, MirrorInv, AloneInv
  <1>2. ASSUME MirrorInv, [Next]_vars
        PROVE  MirrorInv'
    <2>1. CASE UNCHANGED vars
      <3>1. SyncInv'
        BY <1>2, SyncInvIsInductive DEF MirrorInv
      <3> QED
        BY <1>2, <2>1, <3>1 DEF vars, stores, MirrorInv, Past, AloneInv, Written, Active
    <2>2. CASE (\E t \in Ticket : Edit(t)) \/ (\E j \in Job : AnswerTrigger(j)) \/ DeleteVectors \/ DeleteRows
      BY <1>2, <2>2, WorldKeepsMirror
    <2>3. ASSUME NEW j \in Job, Trigger(j) \/ Take(j)
          PROVE  MirrorInv'
      BY <1>2, <2>3, QueueKeepsMirror
    <2>4. ASSUME NEW j \in Job, Work(j) \/ Crash(j)
          PROVE  MirrorInv'
      BY <1>2, <2>4, ReadingKeepsMirror, StoringKeepsMirror, UpsertingKeepsMirror, EndingKeepsMirror DEF Work
    <2> QED
      BY <1>2, <2>1, <2>2, <2>3, <2>4 DEF Next
  <1> QED
    BY <1>1, <1>2

\* Every attempt stays within the one page it asked for, counts only texts it has, and nothing
\* it stores is newer than Jira, whatever is edited, retried or killed.
THEOREM SyncTypeCorrect == Spec => []TypeOK
  <1>1. ASSUME MirrorInv
        PROVE  TypeOK
    <2>1. jira \in [Ticket -> Nat] /\ \A t \in Ticket : jira[t] \in 1 .. Versions[t]
      BY <1>1, SyncAssumption DEF MirrorInv, SyncInv, SyncType, Past, SyncAssumption
    <2>2. /\ rows \in [Ticket -> Nat] /\ \A t \in Ticket : rows[t] =< jira[t]
          /\ points \in [Ticket \X Field -> Nat] /\ \A p \in DOMAIN points : points[p] =< jira[p[1]]
      BY <1>1 DEF MirrorInv, SyncInv, SyncType, Past
    <2>3. ASSUME NEW j \in Job
          PROVE  /\ job[j].pc \in {"idle", "queued"} \cup Running \cup Ended
                 /\ job[j].retries \in 0 .. MaxRetries
                 /\ Len(job[j].page) =< PageSize /\ job[j].stored \in 0 .. Len(job[j].page)
                 /\ job[j].sent \in 0 .. Len(job[j].texts) /\ ToSet(job[j].texts) \subseteq Text
      <3>1. job[j] \in Attempt /\ Reading(job[j]) /\ job[j].sent =< Len(job[j].texts)
        BY <1>1 DEF MirrorInv, SyncInv, SyncType
      <3>2. job[j].pc \in {"idle", "queued"} \cup Running \cup Ended /\ job[j].retries \in 0 .. MaxRetries
        BY <3>1 DEF Attempt
      <3>3. /\ job[j].stored \in Nat /\ job[j].sent \in Nat /\ job[j].texts \in Seq(StoredText)
            /\ Len(job[j].texts) \in Nat /\ job[j].page \in Seq(Ticket \X (Nat \ {0}))
        BY <3>1, AttemptFields
      <3>4. Len(job[j].page) \in Nat
        BY <3>3
      <3>5. ToSet(job[j].texts) \subseteq StoredText
        BY <3>3 DEF ToSet
      <3>6. StoredText \subseteq Text
        BY DEF StoredText, Text
      <3>7. Len(job[j].page) =< PageSize /\ job[j].stored =< Len(job[j].page)
        BY <3>1 DEF Reading
      <3> QED
        BY <3>1, <3>2, <3>3, <3>4, <3>5, <3>6, <3>7
    <2>4. \A j \in Job : /\ trigger[j] \in {"none", "writing", "answered"}
                         /\ status[j].state \in {"none", "in_progress", "failed", "completed"}
      BY <1>1 DEF MirrorInv, SyncInv, SyncType, Report
    <2> QED
      BY <1>1, <2>1, <2>2, <2>3, <2>4 DEF TypeOK, MirrorInv, SyncInv, SyncType
  <1> QED
    BY <1>1, MirrorInvIsInductive, PTL DEF Spec

\* When a sync that met no other has come to its end, the row of each ticket it counts is the
\* version it read, and so is each vector it counts: whatever was stored before, by syncs that
\* ended, failed or died, and whatever is edited meanwhile.
THEOREM AloneSyncMirrors == Spec => []AloneMirrorsJira
  <1>1. ASSUME MirrorInv, NEW j \in alone, ~ purged, project = "present",
               NEW i \in DOMAIN job[j].page, job[j].page[i][1] \in job[j].synced
        PROVE  /\ rows[job[j].page[i][1]] = job[j].page[i][2]
               /\ Embedded(j) # {} =>
                    \A x \in ToSet(TextsOf(job[j].page[i][1], job[j].page[i][2])) :
                       points[<<job[j].page[i][1], x.field>>] = job[j].page[i][2]
    <2> DEFINE t == job[j].page[i][1]
               v == job[j].page[i][2]
    <2>1. j \in Job /\ Written(job[j]) /\ Reading(job[j]) /\ job[j] \in Attempt
      BY <1>1 DEF MirrorInv, AloneInv, SyncInv, SyncType
    <2>2. job[j].page \in Seq(Ticket \X (Nat \ {0}))
      BY <2>1, AttemptFields
    <2>3. i \in 1 .. Len(job[j].page) /\ job[j].page[i] \in Ticket \X (Nat \ {0})
      BY <2>2
    <2>4. t \in Ticket /\ v \in Nat \ {0}
      BY <2>3
    <2>5. rows[t] = v
      BY <1>1, <2>1, <2>3 DEF Written
    <2>6. ASSUME Embedded(j) # {}, NEW x \in ToSet(TextsOf(t, v))
          PROVE  points[<<t, x.field>>] = v
      <3>1. PICK k \in 1 .. Len(job[j].texts) : job[j].texts[k] = x
        BY <1>1, <2>1, <2>3, <2>6 DEF Reading
      <3>2. x.ticket = t /\ x.version = v
        <4> HIDE DEF t, v
        <4>1. /\ TextsOf(t, v) \in Seq(StoredText)
              /\ \A m \in 1 .. Len(TextsOf(t, v)) : TextsOf(t, v)[m].ticket = t
              /\ \A m \in 1 .. Len(TextsOf(t, v)) : TextsOf(t, v)[m].version = v
          BY <2>4, TextsOfType
        <4>2. PICK m \in 1 .. Len(TextsOf(t, v)) : x = TextsOf(t, v)[m]
          BY <2>6, <4>1 DEF ToSet
        <4> QED
          BY <4>1, <4>2
      <3>3. job[j].sent = Len(job[j].texts)
        BY <2>6 DEF Embedded
      <3> QED
        BY <1>1, <2>1, <3>1, <3>2, <3>3 DEF Written
    <2> QED
      BY <2>5, <2>6
  <1>2. MirrorInv => AloneMirrorsJira
    BY <1>1 DEF AloneMirrorsJira
  <1> QED
    BY <1>2, MirrorInvIsInductive, PTL DEF Spec
=============================================================================
