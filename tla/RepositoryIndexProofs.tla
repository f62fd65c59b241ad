----------------------- MODULE RepositoryIndexProofs -----------------------
(* Theorems about RepositoryIndex, for every value of its constants. *)
EXTENDS RepositoryIndex, TLAPS

USE DEF Busy

\* Deleting a project's rows and upserting its files yield tables.
LEMMA WithoutType ==
    ASSUME NEW table \in [Id -> Owner], NEW p
    PROVE  Without(table, p) \in [Id -> Owner]
  BY DEF Without, Owner

LEMMA WithType ==
    ASSUME NEW table \in [Id -> Owner], NEW p \in Project, NEW F
    PROVE  With(table, p, F) \in [Id -> Owner]
  BY DEF With, Owner

LEMMA PointsWithoutType ==
    ASSUME NEW t \in [Collection -> [Id -> Owner]], NEW p \in Project
    PROVE  [t EXCEPT ![CollectionOf[p]] = Without(@, p)] \in [Collection -> [Id -> Owner]]
  <1>1. t[CollectionOf[p]] \in [Id -> Owner]
    BY ConstantsAssumption DEF ConstantsAssumption
  <1> QED
    BY <1>1, WithoutType

LEMMA PointsWithType ==
    ASSUME NEW t \in [Collection -> [Id -> Owner]], NEW p \in Project, NEW F
    PROVE  [t EXCEPT ![CollectionOf[p]] = With(@, p, F)] \in [Collection -> [Id -> Owner]]
  <1>1. t[CollectionOf[p]] \in [Id -> Owner]
    BY ConstantsAssumption DEF ConstantsAssumption
  <1> QED
    BY <1>1, WithType

\* How an attempt ends keeps the history well typed.
LEMMA SettledType ==
    ASSUME NEW c \in [Project -> Cleaner], NEW W, NEW how \in {"whole", "partial", "broken"}
    PROVE  Settled(c, W, how) \in [Project -> Cleaner]
  BY DEF Settled, Cleaner

\* A busy worker indexes a project.
LEMMA TargetType ==
    ASSUME ProcessType, NEW w \in Worker, pc[w] # "idle"
    PROVE  /\ Target(w) \in Project
           /\ job[w][1] \in Task
           /\ job[w][2] \in 0 .. MaxRetries
           /\ job[w] \in Message
  BY ConstantsAssumption DEF ConstantsAssumption, ProcessType, Target, Message

\* Parts of the state that no conjunct of an action mentions.
LEMMA Unchanged ==
    /\ StoreType /\ UNCHANGED stores => StoreType'
    /\ DiskType /\ UNCHANGED <<head, disk>> => DiskType'
    /\ BrokerType /\ UNCHANGED broker => BrokerType'
    /\ ProcessType /\ UNCHANGED <<pc, job>> => ProcessType'
    /\ LocalType /\ UNCHANGED local => LocalType'
    /\ HistoryType /\ UNCHANGED <<deleting, history>> => HistoryType'
  BY DEF StoreType, stores, DiskType, disk, BrokerType, broker, ProcessType, LocalType,
         local, HistoryType, history, cleaners

\* An attempt ends: its process is idle, and no store says that it is still at work.
LEMMA ReleaseType ==
    ASSUME ProcessType, LocalType, NEW w \in Worker, Release(w)
    PROVE  ProcessType' /\ LocalType'
  BY DEF ProcessType, LocalType, Release, Stages

LEMMA SettleType ==
    ASSUME HistoryType, NEW W, NEW how \in {"whole", "partial", "broken"}, Settle(W, how),
           UNCHANGED <<deleting, overlap>>
    PROVE  HistoryType'
  BY SettledType DEF HistoryType, Settle

\* A step of an attempt that only moves on in its own program.
LEMMA StepType ==
    ASSUME BrokerType, ProcessType, NEW w \in Worker, NEW from, NEW to \in Stages,
           from # "idle", Step(w, from, to)
    PROVE  /\ BrokerType' /\ ProcessType'
           /\ DiskType /\ UNCHANGED disk => DiskType'
           /\ HistoryType /\ UNCHANGED cleaners => HistoryType'
           /\ head' = head /\ deleting' = deleting /\ overlap' = overlap
  <1>1. UNCHANGED <<head, broker, job, deleting, overlap>>
    BY DEF Step
  <1>2. ProcessType'
    BY DEF ProcessType, Step
  <1>3. BrokerType'
    BY <1>1, Unchanged
  <1>4. DiskType /\ UNCHANGED disk => DiskType'
    BY <1>1, Unchanged
  <1>5. HistoryType /\ UNCHANGED cleaners => HistoryType'
    BY <1>1, Unchanged DEF history
  <1> QED
    BY <1>1, <1>2, <1>3, <1>4, <1>5

\* The type invariant holds in every state of every behaviour.
THEOREM TypeCorrect == Spec => []TypeOK
<1>1. Init => TypeOK
  <2> SUFFICES ASSUME Init PROVE TypeOK
    OBVIOUS
  <2>1. StoreType
    BY DEF Init, StoreType, Owner
  <2>2. DiskType
    BY DEF Init, DiskType
  <2>3. BrokerType
    BY ConstantsAssumption DEF Init, BrokerType, ConstantsAssumption
  <2>4. ProcessType
    BY DEF Init, ProcessType, Stages
  <2>5. LocalType
    BY DEF Init, LocalType
  <2>6. HistoryType
    BY DEF Init, HistoryType, Cleaner
  <2> QED
    BY <2>1, <2>2, <2>3, <2>4, <2>5, <2>6 DEF TypeOK
<1>2. TypeOK /\ [Next]_vars => TypeOK'
  <2> SUFFICES ASSUME StoreType, DiskType, BrokerType, ProcessType, LocalType, HistoryType,
                      [Next]_vars
               PROVE  StoreType' /\ DiskType' /\ BrokerType' /\ ProcessType' /\ LocalType'
                      /\ HistoryType'
    BY DEF TypeOK
  <2> DEFINE Goal == StoreType' /\ DiskType' /\ BrokerType' /\ ProcessType' /\ LocalType'
                     /\ HistoryType'
  <2> USE ConstantsAssumption
  <2>1. ASSUME NEW t \in Task, RequestIndex(t) PROVE Goal
    <3>1. BrokerType'
      BY <2>1 DEF RequestIndex, BrokerType, Message, ConstantsAssumption
    <3> QED BY <2>1, <3>1, Unchanged DEF RequestIndex
  <2>2. ASSUME NEW p \in Project, NEW v \in Version, Push(p, v) PROVE Goal
    <3>1. DiskType'
      BY <2>2 DEF Push, DiskType, disk
    <3> QED BY <2>2, <3>1, Unchanged DEF Push
  <2>3. ASSUME NEW p \in Project, DeletePoints(p) PROVE Goal
    <3>1. StoreType'
      <4>1. /\ \/ points' = [points EXCEPT ![CollectionOf[p]] = Without(@, p)]
               \/ points' = points
            /\ UNCHANGED <<projects, symbols, edges>>
        BY <2>3 DEF DeletePoints
      <4>2. points' \in [Collection -> [Id -> Owner]]
        BY <4>1, PointsWithoutType DEF StoreType
      <4> QED BY <4>1, <4>2 DEF StoreType
    <3>2. HistoryType'
      BY <2>3 DEF DeletePoints, HistoryType, Cleaner
    <3> QED BY <2>3, <3>1, <3>2, Unchanged DEF DeletePoints
  <2>4. ASSUME NEW p \in Project, DeleteRows(p) PROVE Goal
    <3>1. StoreType'
      <4>1. Without(symbols, p) \in [Id -> Owner]
        BY WithoutType DEF StoreType
      <4>2. [edges EXCEPT ![p] = [f \in File |-> 0]] \in [Project -> [File -> Nat]]
        BY DEF StoreType
      <4> QED BY <2>4, <4>1, <4>2 DEF DeleteRows, StoreType
    <3>2. HistoryType'
      BY <2>4 DEF DeleteRows, HistoryType, Cleaner
    <3> QED BY <2>4, <3>1, <3>2, Unchanged DEF DeleteRows
  <2>5. ASSUME NEW w \in Worker, Take(w) PROVE Goal
    <3>1. BrokerType' /\ ProcessType'
      BY <2>5 DEF Take, BrokerType, ProcessType, Stages
    <3>2. LocalType'
      BY <2>5 DEF Take, LocalType
    <3>3. HistoryType'
      BY <2>5 DEF Take, HistoryType, cleaners
    <3> QED BY <2>5, <3>1, <3>2, <3>3, Unchanged DEF Take
  <2>6. ASSUME NEW w \in Worker, Fail(w) PROVE Goal
    <3>1. BrokerType'
      <4>1. job[w][2] < MaxRetries => <<job[w][1], job[w][2] + 1>> \in Message
        BY <2>6, TargetType DEF Fail, Message, ConstantsAssumption
      <4> QED BY <2>6, <4>1 DEF Fail, Retry, BrokerType
    <3>2. DiskType'
      BY <2>6 DEF Fail, DiskType
    <3>3. ProcessType' /\ LocalType' /\ HistoryType'
      BY <2>6, ReleaseType, SettleType DEF Fail
    <3> QED BY <2>6, <3>1, <3>2, <3>3, Unchanged DEF Fail
  <2>7. ASSUME NEW w \in Worker, Crash(w) PROVE Goal
    <3>1. BrokerType'
      BY <2>7, TargetType DEF Crash, BrokerType, ConstantsAssumption
    <3>2. ProcessType' /\ LocalType' /\ HistoryType'
      BY <2>7, ReleaseType, SettleType DEF Crash
    <3> QED BY <2>7, <3>1, <3>2, Unchanged DEF Crash
  <2>8. ASSUME NEW w \in Worker, Redeliver(w) PROVE Goal
    <3>1. BrokerType'
      BY <2>8, TargetType DEF Redeliver, BrokerType, ConstantsAssumption
    <3> QED BY <2>8, <3>1, Unchanged DEF Redeliver
  <2>9. ASSUME Recreate PROVE Goal
    <3>1. BrokerType'
      BY <2>9, TargetType DEF Recreate, BrokerType, ConstantsAssumption
    <3>2. DiskType' /\ ProcessType'
      BY <2>9 DEF Recreate, DiskType, ProcessType, Stages
    <3>3. LocalType'
      BY <2>9 DEF Recreate, LocalType
    <3>4. HistoryType'
      BY <2>9, SettleType DEF Recreate
    <3> QED BY <2>9, <3>1, <3>2, <3>3, <3>4, Unchanged DEF Recreate
  <2>10. ASSUME NEW w \in Worker, Attempt(w) PROVE Goal
    <3>1. CASE LoadProject(w)
      <4>1. Step(w, "load", "clone") /\ UNCHANGED <<stores, disk, local, cleaners>>
        BY <3>1 DEF LoadProject
      <4> QED BY <4>1, StepType, Unchanged DEF Stages
    <3>2. CASE StartClone(w)
      <4>1. Step(w, "clone", "cloning") /\ UNCHANGED <<stores, local, cleaners>>
        BY <3>2 DEF StartClone
      <4>2. head' = head
        BY <4>1 DEF Step
      <4>3. DiskType'
        BY <3>2, <4>2 DEF StartClone, DiskType
      <4>4. BrokerType' /\ ProcessType' /\ HistoryType'
        BY <4>1, StepType DEF Stages
      <4> QED BY <4>1, <4>3, <4>4, Unchanged
    <3>3. CASE FinishClone(w)
      <4>1. Step(w, "cloning", "delete_edges") /\ UNCHANGED <<stores, local, cleaners>>
        BY <3>3 DEF FinishClone
      <4>2. head' = head
        BY <4>1 DEF Step
      <4>3. DiskType'
        BY <3>3, <4>2 DEF FinishClone, DiskType
      <4>4. BrokerType' /\ ProcessType' /\ HistoryType'
        BY <4>1, StepType DEF Stages
      <4> QED BY <4>1, <4>3, <4>4, Unchanged
    <3>4. CASE OpenClone(w)
      <4>1. Step(w, "clone", "delete_edges") /\ UNCHANGED <<stores, disk, local, cleaners>>
        BY <3>4 DEF OpenClone
      <4> QED BY <4>1, StepType, Unchanged DEF Stages
    <3>5. CASE DeleteEdges(w)
      <4>1. Step(w, "delete_edges", "delete_symbols") /\ UNCHANGED <<disk, local>>
        BY <3>5 DEF DeleteEdges
      <4>2. StoreType'
        BY <3>5 DEF DeleteEdges, StoreType
      <4>3. deleting' = deleting /\ overlap' = overlap
        BY <4>1 DEF Step
      <4>4. HistoryType'
        BY <3>5, <4>3 DEF DeleteEdges, HistoryType, Cleaner
      <4>5. BrokerType' /\ ProcessType' /\ DiskType'
        BY <4>1, StepType DEF Stages
      <4> QED BY <4>1, <4>2, <4>4, <4>5, Unchanged
    <3>6. CASE DeleteSymbols(w)
      <4>1. Step(w, "delete_symbols", "delete_points") /\ UNCHANGED <<disk, local>>
        BY <3>6 DEF DeleteSymbols
      <4>2. StoreType'
        BY <3>6, WithoutType DEF DeleteSymbols, StoreType
      <4>3. deleting' = deleting /\ overlap' = overlap
        BY <4>1 DEF Step
      <4>4. HistoryType'
        BY <3>6, <4>3 DEF DeleteSymbols, HistoryType, Cleaner
      <4>5. BrokerType' /\ ProcessType' /\ DiskType'
        BY <4>1, StepType DEF Stages
      <4> QED BY <4>1, <4>2, <4>4, <4>5, Unchanged
    <3>7. CASE DeleteOldPoints(w)
      <4>1. Step(w, "delete_points", "detect") /\ UNCHANGED <<disk, local>>
        BY <3>7 DEF DeleteOldPoints
      <4>2. StoreType'
        <5>1. Target(w) \in Project
          BY <4>1, TargetType DEF Step
        <5> QED BY <3>7, <5>1, PointsWithoutType DEF DeleteOldPoints, StoreType
      <4>3. deleting' = deleting /\ overlap' = overlap
        BY <4>1 DEF Step
      <4>4. HistoryType'
        BY <3>7, <4>3 DEF DeleteOldPoints, HistoryType, Cleaner
      <4>5. BrokerType' /\ ProcessType' /\ DiskType'
        BY <4>1, StepType DEF Stages
      <4> QED BY <4>1, <4>2, <4>4, <4>5, Unchanged
    <3>8. CASE DetectModules(w)
      <4>1. Step(w, "detect", "parse") /\ UNCHANGED <<stores, disk, cleaners>>
        BY <3>8 DEF DetectModules
      <4>2. Tree(Target(w)) \subseteq File
        <5>1. Target(w) \in Project
          BY <4>1, TargetType DEF Step
        <5> QED BY <5>1 DEF Tree, DiskType, ConstantsAssumption
      <4>3. {ModuleOf[f] : f \in Tree(Target(w))} \subseteq Module
        BY <4>2 DEF ConstantsAssumption
      <4>4. LocalType'
        BY <3>8, <4>3 DEF DetectModules, LocalType
      <4> QED BY <4>1, <4>4, StepType, Unchanged DEF Stages
    <3>9. CASE ParseModule(w)
      <4>m. PICK m \in todo[w] : ParseModule(w)!(m)
        BY <3>9 DEF ParseModule
      <4>1. PICK parsed \in SUBSET Tree(Target(w)) : ParseModule(w)!(m)!(parsed)
        BY <4>m
      <4>2. /\ Step(w, "parse", IF parsed = {} THEN "parse" ELSE "upsert_symbols")
            /\ UNCHANGED <<stores, disk, cleaners>>
        BY <4>1
      <4>3. Tree(Target(w)) \subseteq File
        <5>1. Target(w) \in Project
          BY <4>2, TargetType DEF Step
        <5> QED BY <5>1 DEF Tree, DiskType, ConstantsAssumption
      <4>4. LocalType'
        BY <4>1, <4>3 DEF LocalType
      <4> QED BY <4>2, <4>4, StepType, Unchanged DEF Stages
    <3>10. CASE UpsertSymbols(w)
      <4>1. Step(w, "upsert_symbols", "upsert_points") /\ UNCHANGED <<disk, local, cleaners>>
        BY <3>10 DEF UpsertSymbols
      <4>2. StoreType'
        <5>1. Target(w) \in Project
          BY <4>1, TargetType DEF Step
        <5> QED BY <3>10, <5>1, WithType DEF UpsertSymbols, StoreType
      <4> QED BY <4>1, <4>2, StepType, Unchanged DEF Stages
    <3>11. CASE UpsertPoints(w)
      <4>1. PICK batch \in (SUBSET unsent[w]) \ {{}} : UpsertPoints(w)!(batch)
        BY <3>11 DEF UpsertPoints
      <4>2. /\ Step(w, "upsert_points",
                    IF batch = unsent[w] THEN "insert_edges" ELSE "upsert_points")
            /\ UNCHANGED <<disk, cleaners>>
        BY <4>1
      <4>3. StoreType'
        <5>1. Target(w) \in Project
          BY <4>2, TargetType DEF Step
        <5> QED BY <4>1, <5>1, PointsWithType DEF StoreType
      <4>4. LocalType'
        BY <4>1 DEF LocalType
      <4> QED BY <4>2, <4>3, <4>4, StepType, Unchanged DEF Stages
    <3>12. CASE InsertEdges(w)
      <4>1. Step(w, "insert_edges", "parse") /\ UNCHANGED <<disk, cleaners>>
        BY <3>12 DEF InsertEdges
      <4>2. StoreType'
        BY <3>12 DEF InsertEdges, StoreType
      <4>3. LocalType'
        BY <3>12 DEF InsertEdges, LocalType
      <4> QED BY <4>1, <4>2, <4>3, StepType, Unchanged DEF Stages
    <3>13. CASE Finish(w)
      BY <3>13, ReleaseType, SettleType, Unchanged DEF Finish
    <3> QED BY <2>10, <3>1, <3>2, <3>3, <3>4, <3>5, <3>6, <3>7, <3>8, <3>9, <3>10,
               <3>11, <3>12, <3>13 DEF Attempt
  <2>11. CASE UNCHANGED vars
    BY <2>11, Unchanged DEF vars
  <2> QED
    BY <2>1, <2>2, <2>3, <2>4, <2>5, <2>6, <2>7, <2>8, <2>9, <2>10, <2>11 DEF Next
<1> QED
  BY <1>1, <1>2, PTL DEF Spec

-----------------------------------------------------------------------------
\* The Postgres rows of a deleted project never come back: the foreign keys stop an
\* attempt that goes on indexing it, in whatever state the deletion met it.
THEOREM DeletedRowsStayDeleted == Spec => []RowsNeedProject
<1>1. Init => RowsNeedProject
  BY DEF Init, RowsNeedProject
<1>2. TypeOK /\ RowsNeedProject /\ [Next]_vars => RowsNeedProject'
  <2> SUFFICES ASSUME StoreType, ProcessType, RowsNeedProject, [Next]_vars
               PROVE  RowsNeedProject'
    BY DEF TypeOK
  \* Nothing happens to a row that is neither written nor handed over.
  <2> DEFINE Kept == /\ UNCHANGED projects
                     /\ \A i \in Id : symbols'[i] \in {symbols[i], NoProject} \cup projects
                     /\ \A p \in Project, f \in File :
                           p \notin projects => edges'[p][f] \in {edges[p][f], 0}
  <2>1. Kept => RowsNeedProject'
    BY ConstantsAssumption DEF RowsNeedProject, ConstantsAssumption
  <2>2. UNCHANGED stores => Kept
    BY DEF stores
  <2>3. ASSUME NEW p \in Project, DeletePoints(p) PROVE RowsNeedProject'
    <3>1. UNCHANGED <<projects, symbols, edges>>
      BY <2>3 DEF DeletePoints
    <3> QED BY <3>1, <2>1
  <2>4. ASSUME NEW p \in Project, DeleteRows(p) PROVE RowsNeedProject'
    <3>1. CASE UNCHANGED <<edges, symbols, projects>>
      BY <3>1, <2>1
    <3>2. CASE /\ edges' = [edges EXCEPT ![p] = [f \in File |-> 0]]
               /\ symbols' = Without(symbols, p)
               /\ projects' = projects \ {p}
      BY <3>2, ConstantsAssumption DEF RowsNeedProject, Without, StoreType, ConstantsAssumption
    <3> QED BY <2>4, <3>1, <3>2 DEF DeleteRows
  <2>5. ASSUME NEW w \in Worker, Attempt(w) PROVE RowsNeedProject'
    <3>1. CASE DeleteEdges(w)
      <4>1. UNCHANGED <<projects, symbols>>
        BY <3>1 DEF DeleteEdges
      <4>2. \A p \in Project, f \in File : edges'[p][f] \in {edges[p][f], 0}
        BY <3>1 DEF DeleteEdges, StoreType
      <4> QED BY <4>1, <4>2, <2>1
    <3>2. CASE DeleteSymbols(w)
      <4>1. UNCHANGED <<projects, edges>>
        BY <3>2 DEF DeleteSymbols
      <4>2. \A i \in Id : symbols'[i] \in {symbols[i], NoProject}
        BY <3>2 DEF DeleteSymbols, Without
      <4> QED BY <4>1, <4>2, <2>1
    <3>3. CASE UpsertSymbols(w)
      <4>1. UNCHANGED <<projects, edges>>
        BY <3>3 DEF UpsertSymbols
      <4>2. \A i \in Id : symbols'[i] \in {symbols[i]} \cup projects
        BY <3>3 DEF UpsertSymbols, With
      <4> QED BY <4>1, <4>2, <2>1
    <3>4. CASE InsertEdges(w)
      <4>1. UNCHANGED <<projects, symbols>>
        BY <3>4 DEF InsertEdges
      <4>2. \A p \in Project \ projects : edges'[p] = edges[p]
        BY <3>4 DEF InsertEdges, StoreType
      <4> QED BY <4>1, <4>2, <2>1
    <3>5. CASE DeleteOldPoints(w) \/ UpsertPoints(w)
      <4>1. UNCHANGED <<projects, symbols, edges>>
        BY <3>5 DEF DeleteOldPoints, UpsertPoints
      <4> QED BY <4>1, <2>1
    <3>6. CASE LoadProject(w) \/ StartClone(w) \/ FinishClone(w) \/ OpenClone(w)
               \/ DetectModules(w) \/ ParseModule(w) \/ Finish(w)
      <4>1. UNCHANGED stores
        BY <3>6 DEF LoadProject, StartClone, FinishClone, OpenClone, DetectModules,
                    ParseModule, Finish
      <4> QED BY <4>1, <2>1, <2>2
    <3> QED BY <2>5, <3>1, <3>2, <3>3, <3>4, <3>5, <3>6 DEF Attempt
  <2>6. ASSUME UNCHANGED stores PROVE RowsNeedProject'
    BY <2>1, <2>2, <2>6
  <2>7. /\ \A t \in Task : RequestIndex(t) => UNCHANGED stores
        /\ \A p \in Project, v \in Version : Push(p, v) => UNCHANGED stores
        /\ \A w \in Worker : Take(w) \/ Fail(w) \/ Crash(w) \/ Redeliver(w) => UNCHANGED stores
        /\ Recreate => UNCHANGED stores
        /\ UNCHANGED vars => UNCHANGED stores
    BY DEF RequestIndex, Push, Take, Fail, Crash, Redeliver, Recreate, vars
  <2> QED
    BY <2>3, <2>4, <2>5, <2>6, <2>7 DEF Next
<1> QED
  BY <1>1, <1>2, TypeCorrect, PTL DEF Spec

-----------------------------------------------------------------------------
(* Spec => []CompleteIndex, through the inductive invariant IndexInv. *)

\* CompleteIndex, one store at a time.
RowsWhole ==
    \A p \in Project : UniqueRepo(p) /\ symbolCleaner[p] = "whole" =>
        \E v \in Version : Content[v] \subseteq RowsOf(p)
PointsWhole ==
    \A p \in Project : UniqueRepo(p) /\ pointCleaner[p] = "whole" =>
        \E v \in Version : Content[v] \subseteq PointsOf(p)
EdgesWhole ==
    \A p \in Project : UniqueRepo(p) /\ edgeCleaner[p] = "whole" =>
        \E v \in Version : Content[v] \subseteq EdgesOf(p)

LEMMA WholeSplit == CompleteIndex <=> RowsWhole /\ PointsWhole /\ EdgesWhole
  BY DEF CompleteIndex, RowsWhole, PointsWhole, EdgesWhole

\* A process that a step leaves alone.
Same(v) == /\ pc'[v] = pc[v] /\ job'[v] = job[v] /\ got'[v] = got[v]
           /\ seen'[v] = seen[v] /\ unsent'[v] = unsent[v]

\* A step that empties no store keeps a ledger if the store loses nothing of a project
\* with a slug of its own, and whatever a process has newly finished is in the store.
LEMMA RowsStep ==
    ASSUME RowsLedger, RowsWhole, UNCHANGED symbolCleaner,
           \A p \in Project : UniqueRepo(p) => RowsOf(p) \subseteq RowsOf(p)',
           \A w \in Worker : pc[w] \notin BeforeRows =>
               /\ pc'[w] \notin BeforeRows /\ job'[w] = job[w]
               /\ \A p \in Project : UniqueRepo(p) /\ Target(w) = p =>
                     Committed(w)' \subseteq Committed(w) \cup RowsOf(p)'
    PROVE  RowsLedger' /\ RowsWhole'
  <1>1. \A w \in Worker : job'[w] = job[w] => Target(w)' = Target(w)
    BY DEF Target
  <1>2. RowsWhole'
    BY DEF RowsWhole
  <1>3. RowsLedger'
    BY <1>1 DEF RowsLedger
  <1> QED
    BY <1>2, <1>3

LEMMA PointsStep ==
    ASSUME PointsLedger, PointsWhole, UNCHANGED pointCleaner,
           \A p \in Project : UniqueRepo(p) => PointsOf(p) \subseteq PointsOf(p)',
           \A w \in Worker : pc[w] \notin BeforePoints =>
               /\ pc'[w] \notin BeforePoints /\ job'[w] = job[w]
               /\ \A p \in Project : UniqueRepo(p) /\ Target(w) = p =>
                     got'[w] \ unsent'[w] \subseteq (got[w] \ unsent[w]) \cup PointsOf(p)'
    PROVE  PointsLedger' /\ PointsWhole'
  <1>1. \A w \in Worker : job'[w] = job[w] => Target(w)' = Target(w)
    BY DEF Target
  <1>2. PointsWhole'
    BY DEF PointsWhole
  <1>3. PointsLedger'
    BY <1>1 DEF PointsLedger
  <1> QED
    BY <1>2, <1>3

LEMMA EdgesStep ==
    ASSUME EdgesLedger, EdgesWhole, UNCHANGED edgeCleaner,
           \A p \in Project : UniqueRepo(p) => EdgesOf(p) \subseteq EdgesOf(p)',
           \A w \in Worker : pc[w] \notin BeforeEdges =>
               /\ pc'[w] \notin BeforeEdges /\ job'[w] = job[w]
               /\ \A p \in Project : UniqueRepo(p) /\ Target(w) = p =>
                     got'[w] \ seen'[w] \subseteq (got[w] \ seen[w]) \cup EdgesOf(p)'
    PROVE  EdgesLedger' /\ EdgesWhole'
  <1>1. \A w \in Worker : job'[w] = job[w] => Target(w)' = Target(w)
    BY DEF Target
  <1>2. EdgesWhole'
    BY DEF EdgesWhole
  <1>3. EdgesLedger'
    BY <1>1 DEF EdgesLedger
  <1> QED
    BY <1>2, <1>3

\* The end of the attempts of W keeps every ledger: what they emptied is no longer
\* theirs, and it is called whole only after an attempt that owes the stores nothing.
Ended(W, how) ==
    /\ UNCHANGED stores
    /\ Settle(W, how)
    /\ \A v \in Worker \ W : Same(v)
    /\ how = "whole" =>
         \A w \in W : pc[w] = "parse" /\ \E v \in Version : got[w] = Content[v]

LEMMA EndStep ==
    ASSUME TypeOK, IndexInv, NEW W \in SUBSET Worker, NEW how \in {"whole", "partial", "broken"},
           Ended(W, how)
    PROVE  /\ RowsLedger' /\ PointsLedger' /\ EdgesLedger'
           /\ RowsWhole' /\ PointsWhole' /\ EdgesWhole'
  <1> USE ConstantsAssumption
  <1>0. how \notin Worker /\ \A v \in Worker : job'[v] = job[v] => Target(v)' = Target(v)
    BY DEF ConstantsAssumption, Target
  <1>1. \A p \in Project : /\ RowsOf(p)' = RowsOf(p) /\ PointsOf(p)' = PointsOf(p)
                           /\ EdgesOf(p)' = EdgesOf(p)
    BY DEF Ended, stores, RowsOf, PointsOf, EdgesOf
  <1>2. \A w \in Worker : Same(w) => Committed(w)' = Committed(w)
    BY DEF Same, Committed
  <1>3. \A w \in Worker : pc[w] = "parse" => /\ seen[w] = {} /\ unsent[w] = {}
                                             /\ Committed(w) = got[w]
    BY DEF IndexInv, Ledger, Committed
  <1>4. ASSUME NEW p \in Project
        PROVE  /\ symbolCleaner'[p] = IF symbolCleaner[p] \in W THEN how ELSE symbolCleaner[p]
               /\ pointCleaner'[p] = IF pointCleaner[p] \in W THEN how ELSE pointCleaner[p]
               /\ edgeCleaner'[p] = IF edgeCleaner[p] \in W THEN how ELSE edgeCleaner[p]
    BY DEF Ended, Settle, Settled
  <1>5. RowsLedger'
    BY <1>0, <1>1, <1>2, <1>4 DEF IndexInv, RowsLedger, Ended, Same
  <1>6. PointsLedger'
    BY <1>0, <1>1, <1>4 DEF IndexInv, PointsLedger, Ended, Same
  <1>7. EdgesLedger'
    BY <1>0, <1>1, <1>4 DEF IndexInv, EdgesLedger, Ended, Same
  <1>8. RowsWhole'
    BY <1>1, <1>3, <1>4, WholeSplit DEF IndexInv, RowsLedger, RowsWhole, Ended
  <1>9. PointsWhole'
    BY <1>1, <1>3, <1>4, WholeSplit DEF IndexInv, PointsLedger, PointsWhole, Ended
  <1>10. EdgesWhole'
    BY <1>1, <1>3, <1>4, WholeSplit DEF IndexInv, EdgesLedger, EdgesWhole, Ended
  <1> QED
    BY <1>5, <1>6, <1>7, <1>8, <1>9, <1>10

-----------------------------------------------------------------------------
\* A step that touches no store keeps the ledgers if the processes it moves stay
\* before their deletions, or past them all and owing as much as they did.
LEMMA QuietStep ==
    ASSUME IndexInv, UNCHANGED <<stores, cleaners>>,
           \A w \in Worker :
               \/ Same(w)
               \/ pc[w] \in BeforeEdges
               \/ /\ pc[w] \notin BeforePoints /\ pc'[w] \notin BeforePoints /\ job'[w] = job[w]
                  /\ Committed(w)' \subseteq Committed(w)
                  /\ got'[w] \ unsent'[w] \subseteq got[w] \ unsent[w]
                  /\ got'[w] \ seen'[w] \subseteq got[w] \ seen[w]
    PROVE  /\ RowsLedger' /\ PointsLedger' /\ EdgesLedger'
           /\ RowsWhole' /\ PointsWhole' /\ EdgesWhole'
  <1>1. \A p \in Project : /\ RowsOf(p)' = RowsOf(p) /\ PointsOf(p)' = PointsOf(p)
                           /\ EdgesOf(p)' = EdgesOf(p)
    BY DEF stores, RowsOf, PointsOf, EdgesOf
  <1>2. \A w \in Worker : Same(w) => Committed(w)' = Committed(w)
    BY DEF Same, Committed
  <1>3. UNCHANGED <<edgeCleaner, symbolCleaner, pointCleaner>>
    BY DEF cleaners
  <1>4. /\ RowsLedger /\ PointsLedger /\ EdgesLedger
        /\ RowsWhole /\ PointsWhole /\ EdgesWhole
    BY WholeSplit DEF IndexInv
  <1>5. RowsLedger' /\ RowsWhole'
    BY <1>1, <1>2, <1>3, <1>4, RowsStep DEF Same, BeforeRows, BeforePoints
  <1>6. PointsLedger' /\ PointsWhole'
    BY <1>1, <1>3, <1>4, PointsStep DEF Same, BeforeRows, BeforePoints
  <1>7. EdgesLedger' /\ EdgesWhole'
    BY <1>1, <1>3, <1>4, EdgesStep DEF Same, BeforeRows, BeforePoints
  <1> QED
    BY <1>5, <1>6, <1>7

\* A step of w in its own program leaves the other processes alone.
LEMMA OthersSame ==
    ASSUME ProcessType, LocalType, NEW w \in Worker, NEW from, NEW to, Step(w, from, to)
    PROVE  /\ pc[w] = from /\ pc'[w] = to /\ job' = job
           /\ \A v \in Worker \ {w} : pc'[v] = pc[v]
  BY DEF Step, ProcessType

\* Rows and points of different projects have different ids if one has its own slug.
LEMMA IdsDiffer ==
    ASSUME NEW p \in Project, NEW q \in Project, UniqueRepo(p), p # q,
           NEW f \in File, NEW g \in File
    PROVE  IdOf(p, f) # IdOf(q, g)
  BY DEF UniqueRepo, IdOf

LEMMA IdType ==
    ASSUME NEW p \in Project, NEW f \in File
    PROVE  IdOf(p, f) \in Id
  BY ConstantsAssumption DEF IdOf, Id, ConstantsAssumption

\* Deleting the rows of another project, or upserting its files, takes nothing away
\* from a project with its own slug; a project's own upsert adds its files.
LEMMA WithoutKeeps ==
    ASSUME NEW p \in Project, NEW q \in Project, p # q, NEW table, NEW f \in File,
           table[IdOf(p, f)] = p
    PROVE  Without(table, q)[IdOf(p, f)] = p
  BY IdType DEF Without

LEMMA WithKeeps ==
    ASSUME NEW p \in Project, NEW q \in Project, UniqueRepo(p), NEW table, NEW f \in File,
           NEW F \in SUBSET File, table[IdOf(p, f)] = p
    PROVE  With(table, q, F)[IdOf(p, f)] = p
  BY IdType, IdsDiffer DEF With

LEMMA WithAdds ==
    ASSUME NEW p \in Project, NEW table, NEW F \in SUBSET File, NEW f \in F
    PROVE  With(table, p, F)[IdOf(p, f)] = p
  BY IdType DEF With

\* The ledger of every process survives every step.
LEMMA LedgerStep ==
    ASSUME TypeOK, Ledger, [Next]_vars
    PROVE  Ledger'
  <1> USE DEF Ledger
  <1>0. ProcessType /\ LocalType
    BY DEF TypeOK
  <1>1. ASSUME UNCHANGED <<pc, local>> PROVE Ledger'
    BY <1>1 DEF local
  <1>2. ASSUME NEW w \in Worker, Release(w) PROVE Ledger'
    BY <1>0, <1>2 DEF Release, ProcessType, LocalType
  <1>3. ASSUME NEW w \in Worker, NEW from, NEW to, Step(w, from, to), UNCHANGED local,
               from \notin {"parse", "upsert_symbols", "upsert_points", "insert_edges"},
               to \notin {"upsert_symbols", "upsert_points", "insert_edges"}
        PROVE  Ledger'
    BY <1>0, <1>3, OthersSame DEF local
  <1>4. ASSUME NEW w \in Worker, Take(w) PROVE Ledger'
    BY <1>0, <1>4 DEF Take, ProcessType, LocalType
  <1>5. ASSUME NEW w \in Worker, Attempt(w) PROVE Ledger'
    <2>1. CASE LoadProject(w) \/ StartClone(w) \/ FinishClone(w) \/ OpenClone(w)
               \/ DeleteEdges(w) \/ DeleteSymbols(w) \/ DeleteOldPoints(w)
      BY <2>1, <1>3 DEF LoadProject, StartClone, FinishClone, OpenClone, DeleteEdges,
                        DeleteSymbols, DeleteOldPoints, local
    <2>2. CASE DetectModules(w)
      <3>1. Step(w, "detect", "parse") /\ UNCHANGED <<seen, unsent, got>>
        BY <2>2 DEF DetectModules
      <3> QED BY <3>1, <1>0, OthersSame
    <2>3. CASE ParseModule(w)
      <3>m. PICK m \in todo[w] : ParseModule(w)!(m)
        BY <2>3 DEF ParseModule
      <3>1. PICK parsed \in SUBSET Tree(Target(w)) : ParseModule(w)!(m)!(parsed)
        BY <3>m
      <3>2. /\ seen' = [seen EXCEPT ![w] = parsed]
            /\ unsent' = [unsent EXCEPT ![w] = parsed]
            /\ got' = [got EXCEPT ![w] = @ \cup parsed]
            /\ Step(w, "parse", IF parsed = {} THEN "parse" ELSE "upsert_symbols")
        BY <3>1
      <3>3. CASE parsed = {}
        <4>1. Step(w, "parse", "parse")
          BY <3>2, <3>3
        <4> QED BY <3>2, <3>3, <4>1, <1>0, OthersSame DEF LocalType
      <3>4. CASE parsed # {}
        <4>1. Step(w, "parse", "upsert_symbols")
          BY <3>2, <3>4
        <4> QED BY <3>2, <3>4, <4>1, <1>0, OthersSame DEF LocalType
      <3> QED BY <3>3, <3>4
    <2>4. CASE UpsertSymbols(w)
      <3>1. Step(w, "upsert_symbols", "upsert_points") /\ UNCHANGED <<seen, unsent, got>>
        BY <2>4 DEF UpsertSymbols, local
      <3> QED BY <3>1, <1>0, OthersSame
    <2>5. CASE UpsertPoints(w)
      <3>m. PICK batch \in (SUBSET unsent[w]) \ {{}} : UpsertPoints(w)!(batch)
        BY <2>5 DEF UpsertPoints
      <3>1. /\ Step(w, "upsert_points",
                    IF batch = unsent[w] THEN "insert_edges" ELSE "upsert_points")
            /\ unsent' = [unsent EXCEPT ![w] = @ \ batch] /\ UNCHANGED <<seen, got>>
        BY <3>m
      <3>2. CASE batch = unsent[w]
        <4>1. Step(w, "upsert_points", "insert_edges")
          BY <3>1, <3>2
        <4> QED BY <3>1, <3>2, <4>1, <1>0, OthersSame DEF LocalType
      <3>3. CASE batch # unsent[w]
        <4>1. Step(w, "upsert_points", "upsert_points")
          BY <3>1, <3>3
        <4> QED BY <3>1, <3>3, <4>1, <1>0, OthersSame DEF LocalType
      <3> QED BY <3>2, <3>3
    <2>6. CASE InsertEdges(w)
      <3>1. /\ Step(w, "insert_edges", "parse") /\ UNCHANGED <<unsent, got>>
            /\ seen' = [seen EXCEPT ![w] = {}]
        BY <2>6 DEF InsertEdges
      <3> QED BY <3>1, <1>0, OthersSame DEF LocalType
    <2>7. CASE Finish(w)
      BY <2>7, <1>2 DEF Finish
    <2> QED BY <1>5, <2>1, <2>2, <2>3, <2>4, <2>5, <2>6, <2>7 DEF Attempt
  <1>6. /\ \A t \in Task : RequestIndex(t) => UNCHANGED <<pc, local>>
        /\ \A p \in Project, v \in Version : Push(p, v) => UNCHANGED <<pc, local>>
        /\ \A p \in Project : DeletePoints(p) \/ DeleteRows(p) => UNCHANGED <<pc, local>>
        /\ \A w \in Worker : Redeliver(w) => UNCHANGED <<pc, local>>
        /\ UNCHANGED vars => UNCHANGED <<pc, local>>
    BY DEF RequestIndex, Push, DeletePoints, DeleteRows, Redeliver, vars
  <1>7. \A w \in Worker : Fail(w) \/ Crash(w) => Release(w)
    BY DEF Fail, Crash
  <1>8. Recreate => Ledger'
    BY DEF Recreate
  <1> QED
    BY <1>1, <1>2, <1>4, <1>5, <1>6, <1>7, <1>8 DEF Next

-----------------------------------------------------------------------------
\* Neither the deletion of another project's rows nor an upsert takes a file away
\* from a project with its own slug.
LEMMA SymbolsKeep ==
    ASSUME NEW p \in Project, UniqueRepo(p), NEW q \in Project, NEW F \in SUBSET File,
           \/ symbols' = Without(symbols, q) /\ p # q
           \/ symbols' = With(symbols, q, F)
    PROVE  RowsOf(p) \subseteq RowsOf(p)'
  BY WithoutKeeps, WithKeeps DEF RowsOf

LEMMA PointsKeep ==
    ASSUME StoreType, NEW p \in Project, UniqueRepo(p), NEW q \in Project, NEW F \in SUBSET File,
           \/ points' = [points EXCEPT ![CollectionOf[q]] = Without(@, q)] /\ p # q
           \/ points' = [points EXCEPT ![CollectionOf[q]] = With(@, q, F)]
    PROVE  PointsOf(p) \subseteq PointsOf(p)'
  <1> SUFFICES ASSUME NEW f \in File, points[CollectionOf[p]][IdOf(p, f)] = p
               PROVE  points'[CollectionOf[p]][IdOf(p, f)] = p
    BY DEF PointsOf
  <1>1. CollectionOf[p] \in Collection /\ CollectionOf[q] \in Collection
    BY ConstantsAssumption DEF ConstantsAssumption
  <1>2. CASE CollectionOf[p] # CollectionOf[q]
    BY <1>1, <1>2 DEF StoreType
  <1>3. CASE CollectionOf[p] = CollectionOf[q]
    <2>1. CASE points' = [points EXCEPT ![CollectionOf[q]] = Without(@, q)] /\ p # q
      <3>1. points'[CollectionOf[p]] = Without(points[CollectionOf[p]], q)
        BY <1>1, <1>3, <2>1 DEF StoreType
      <3> QED BY <2>1, <3>1, WithoutKeeps
    <2>2. CASE points' = [points EXCEPT ![CollectionOf[q]] = With(@, q, F)]
      <3>1. points'[CollectionOf[p]] = With(points[CollectionOf[p]], q, F)
        BY <1>1, <1>3, <2>2 DEF StoreType
      <3> QED BY <3>1, WithKeeps
    <2> QED BY <2>1, <2>2
  <1> QED
    BY <1>2, <1>3

\* The inductive step.
LEMMA IndexStep ==
    ASSUME TypeOK, TypeOK', IndexInv, [Next]_vars
    PROVE  IndexInv'
  <1> DEFINE Rows == RowsLedger /\ RowsWhole
  <1> DEFINE Points == PointsLedger /\ PointsWhole
  <1> DEFINE Edges == EdgesLedger /\ EdgesWhole
  <1>a. StoreType /\ ProcessType /\ LocalType
    BY DEF TypeOK
  <1>b. Ledger' /\ Ledger /\ Rows /\ Points /\ Edges
    BY LedgerStep, WholeSplit DEF IndexInv
  <1> SUFFICES Rows' /\ Points' /\ Edges'
    BY <1>b, WholeSplit DEF IndexInv, CompleteIndex, RowsWhole, PointsWhole, EdgesWhole
  <1>1. ASSUME UNCHANGED <<stores, cleaners, pc, job, local>> PROVE Rows' /\ Points' /\ Edges'
    BY <1>1, QuietStep DEF Same, local
  <1>2. ASSUME NEW p \in Project, DeletePoints(p) PROVE Rows' /\ Points' /\ Edges'
    <2>1. UNCHANGED <<symbols, edges, pc, job, local, edgeCleaner, symbolCleaner>>
      BY <1>2 DEF DeletePoints
    <2>2. Rows'
      BY <1>b, <2>1, RowsStep DEF RowsOf, Committed, local
    <2>3. Edges'
      BY <1>b, <2>1, EdgesStep DEF EdgesOf, local
    <2>4. /\ pointCleaner'[p] \notin Worker \cup {"whole"}
          /\ \A q \in Project \ {p} : pointCleaner'[q] = pointCleaner[q]
      BY <1>2, ConstantsAssumption DEF DeletePoints, TypeOK, HistoryType, ConstantsAssumption
    <2>5. \A q \in Project \ {p} : UniqueRepo(q) => PointsOf(q) \subseteq PointsOf(q)'
      <3>1. CASE UNCHANGED points
        BY <3>1 DEF PointsOf
      <3>2. CASE points' = [points EXCEPT ![CollectionOf[p]] = Without(@, p)]
        BY <1>a, <3>2, PointsKeep
      <3> QED BY <1>2, <3>1, <3>2 DEF DeletePoints
    <2>6. \A w \in Worker : Target(w)' = Target(w)
      BY <2>1 DEF Target
    <2>7. PointsWhole'
      BY <1>b, <2>4, <2>5 DEF PointsWhole
    <2>8. PointsLedger'
      BY <1>b, <2>1, <2>4, <2>5, <2>6 DEF PointsLedger, local
    <2> QED BY <2>2, <2>3, <2>7, <2>8
  <1>3. ASSUME NEW p \in Project, DeleteRows(p) PROVE Rows' /\ Points' /\ Edges'
    <2>1. UNCHANGED <<points, pc, job, local, pointCleaner>>
      BY <1>3 DEF DeleteRows
    <2>2. Points'
      BY <1>b, <2>1, PointsStep DEF PointsOf, local
    <2>3. CASE UNCHANGED <<edges, symbols, projects, edgeCleaner, symbolCleaner>>
      BY <1>1, <2>1, <2>3 DEF stores, cleaners
    <2>4. CASE /\ edges' = [edges EXCEPT ![p] = [f \in File |-> 0]]
               /\ symbols' = Without(symbols, p)
               /\ edgeCleaner' = [edgeCleaner EXCEPT ![p] = "deleted"]
               /\ symbolCleaner' = [symbolCleaner EXCEPT ![p] = "deleted"]
      <3>1. /\ symbolCleaner'[p] = "deleted" /\ edgeCleaner'[p] = "deleted"
            /\ "deleted" \notin Worker
            /\ \A q \in Project \ {p} : /\ symbolCleaner'[q] = symbolCleaner[q]
                                        /\ edgeCleaner'[q] = edgeCleaner[q]
        BY <2>4, ConstantsAssumption DEF TypeOK, HistoryType, ConstantsAssumption
      <3>2. \A q \in Project \ {p} : UniqueRepo(q) => RowsOf(q) \subseteq RowsOf(q)'
        BY <2>4, SymbolsKeep
      <3>3. \A q \in Project \ {p} : EdgesOf(q)' = EdgesOf(q)
        BY <1>a, <2>4 DEF EdgesOf, StoreType
      <3>4. \A w \in Worker : Target(w)' = Target(w) /\ Committed(w)' = Committed(w)
        BY <2>1 DEF Target, Committed, local
      <3>5. RowsWhole' /\ EdgesWhole'
        BY <1>b, <3>1, <3>2, <3>3 DEF RowsWhole, EdgesWhole
      <3>6. RowsLedger'
        BY <1>b, <2>1, <3>1, <3>2, <3>4 DEF RowsLedger
      <3>7. EdgesLedger'
        BY <1>b, <2>1, <3>1, <3>3, <3>4 DEF EdgesLedger, local
      <3> QED BY <2>2, <3>5, <3>6, <3>7
    <2> QED BY <1>3, <2>3, <2>4 DEF DeleteRows
  <1>4. ASSUME NEW w \in Worker, Take(w) PROVE Rows' /\ Points' /\ Edges'
    <2>1. UNCHANGED <<stores, cleaners>> /\ pc[w] \in BeforeEdges
      BY <1>4 DEF Take, BeforeEdges
    <2>2. \A v \in Worker \ {w} : Same(v)
      BY <1>4, <1>a DEF Take, Same, ProcessType, LocalType
    <2> QED BY <2>1, <2>2, QuietStep
  <1>5. ASSUME NEW w \in Worker, NEW how \in {"whole", "partial", "broken"},
               Release(w), Settle({w}, how), UNCHANGED stores,
               how = "whole" => pc[w] = "parse" /\ \E v \in Version : got[w] = Content[v]
        PROVE  Rows' /\ Points' /\ Edges'
    <2>1. \A v \in Worker \ {w} : Same(v)
      BY <1>5, <1>a DEF Release, Same, ProcessType, LocalType
    <2>2. Ended({w}, how)
      BY <1>5, <2>1 DEF Ended
    <2> QED BY <2>2, EndStep
  <1>6. ASSUME Recreate PROVE Rows' /\ Points' /\ Edges'
    <2>1. Ended(Worker, "broken")
      BY <1>6 DEF Ended, Recreate
    <2> QED BY <2>1, EndStep
  <1>7. ASSUME NEW w \in Worker, Attempt(w) PROVE Rows' /\ Points' /\ Edges'
    \* Up to the first deletion only the stage of w changes.
    <2>1. CASE LoadProject(w) \/ StartClone(w) \/ FinishClone(w) \/ OpenClone(w)
      <3>1. UNCHANGED <<stores, cleaners, job, local>> /\ pc[w] \in BeforeEdges
        BY <2>1 DEF LoadProject, StartClone, FinishClone, OpenClone, Step, BeforeEdges
      <3>2. \A v \in Worker \ {w} : pc'[v] = pc[v]
        BY <2>1, <1>a, OthersSame DEF LoadProject, StartClone, FinishClone, OpenClone
      <3> QED BY <3>1, <3>2, QuietStep DEF Same, local
    \* A deletion starts the store's ledger anew, with nothing parsed yet.
    <2>2. CASE DeleteEdges(w)
      <3> DEFINE p == Target(w)
      <3>1. /\ Step(w, "delete_edges", "delete_symbols")
            /\ edgeCleaner' = [edgeCleaner EXCEPT ![p] = w]
            /\ UNCHANGED <<symbolCleaner, pointCleaner, symbols, points, local>>
        BY <2>2 DEF DeleteEdges
      <3>2. /\ pc[w] = "delete_edges" /\ pc'[w] = "delete_symbols" /\ job' = job
            /\ \A v \in Worker \ {w} : pc'[v] = pc[v]
        BY <3>1, <1>a, OthersSame
      <3>3. p \in Project /\ got'[w] = {}
        BY <3>1, <3>2, <1>a, <1>b, TargetType DEF Ledger, local
      <3>4. \A q \in Project \ {p} : EdgesOf(q)' = EdgesOf(q)
        BY <2>2, <1>a DEF DeleteEdges, EdgesOf, StoreType
      <3>5. \A v \in Worker : Target(v)' = Target(v)
        BY <3>2 DEF Target
      <3>6. Rows'
        BY <1>b, <3>1, <3>2, RowsStep DEF RowsOf, Committed, BeforeRows, BeforeEdges, local
      <3>7. Points'
        BY <1>b, <3>1, <3>2, PointsStep DEF PointsOf, BeforePoints, BeforeRows, BeforeEdges, local
      <3>8. \A q \in Project : edgeCleaner'[q] = IF q = p THEN w ELSE edgeCleaner[q]
        BY <3>1 DEF TypeOK, HistoryType
      <3>9. w # "whole"
        BY ConstantsAssumption DEF ConstantsAssumption
      <3>10. EdgesWhole'
        BY <1>b, <3>4, <3>8, <3>9 DEF EdgesWhole
      <3>11. EdgesLedger'
        <4> SUFFICES ASSUME NEW q \in Project, NEW v \in Worker, edgeCleaner'[q] = v
                     PROVE  /\ pc'[v] \notin BeforeEdges /\ Target(v)' = q
                            /\ UniqueRepo(q) => got'[v] \ seen'[v] \subseteq EdgesOf(q)'
          BY DEF EdgesLedger
        <4>1. CASE q = p
          BY <3>2, <3>3, <3>5, <3>8, <4>1 DEF BeforeEdges
        <4>2. CASE q # p
          BY <1>b, <3>1, <3>2, <3>4, <3>5, <3>8, <4>2 DEF EdgesLedger, BeforeEdges, local
        <4> QED BY <4>1, <4>2
      <3> QED BY <3>6, <3>7, <3>10, <3>11
    <2>3. CASE DeleteSymbols(w)
      <3> DEFINE p == Target(w)
      <3>1. /\ Step(w, "delete_symbols", "delete_points")
            /\ symbols' = Without(symbols, p)
            /\ symbolCleaner' = [symbolCleaner EXCEPT ![p] = w]
            /\ UNCHANGED <<edgeCleaner, pointCleaner, edges, points, local>>
        BY <2>3 DEF DeleteSymbols
      <3>2. /\ pc[w] = "delete_symbols" /\ pc'[w] = "delete_points" /\ job' = job
            /\ \A v \in Worker \ {w} : pc'[v] = pc[v]
        BY <3>1, <1>a, OthersSame
      <3>3. p \in Project /\ got'[w] = {}
        BY <3>1, <3>2, <1>a, <1>b, TargetType DEF Ledger, local
      <3>4. \A q \in Project \ {p} : UniqueRepo(q) => RowsOf(q) \subseteq RowsOf(q)'
        BY <3>1, <3>3, SymbolsKeep
      <3>5. \A v \in Worker : Target(v)' = Target(v)
        BY <3>2 DEF Target
      <3>6. Edges'
        BY <1>b, <3>1, <3>2, EdgesStep DEF EdgesOf, BeforeEdges, local
      <3>7. Points'
        BY <1>b, <3>1, <3>2, PointsStep DEF PointsOf, BeforePoints, BeforeRows, BeforeEdges, local
      <3>8. \A q \in Project : symbolCleaner'[q] = IF q = p THEN w ELSE symbolCleaner[q]
        BY <3>1 DEF TypeOK, HistoryType
      <3>9. w # "whole"
        BY ConstantsAssumption DEF ConstantsAssumption
      <3>10. RowsWhole'
        BY <1>b, <3>4, <3>8, <3>9 DEF RowsWhole
      <3>11. RowsLedger'
        <4> SUFFICES ASSUME NEW q \in Project, NEW v \in Worker, symbolCleaner'[q] = v
                     PROVE  /\ pc'[v] \notin BeforeRows /\ Target(v)' = q
                            /\ UniqueRepo(q) => Committed(v)' \subseteq RowsOf(q)'
          BY DEF RowsLedger
        <4>1. CASE q = p
          BY <3>2, <3>3, <3>5, <3>8, <4>1 DEF BeforeRows, BeforeEdges, Committed
        <4>2. CASE q # p
          <5>1. symbolCleaner[q] = v
            BY <3>8, <4>2
          <5>2. pc[v] \notin BeforeRows /\ v # w
            BY <1>b, <3>2, <5>1 DEF RowsLedger, BeforeRows
          <5>3. Committed(v)' = Committed(v) /\ pc'[v] = pc[v]
            BY <3>1, <3>2, <5>2 DEF Committed, local
          <5> QED BY <1>b, <3>4, <3>5, <4>2, <5>1, <5>2, <5>3 DEF RowsLedger
        <4> QED BY <4>1, <4>2
      <3> QED BY <3>6, <3>7, <3>10, <3>11
    <2>4. CASE DeleteOldPoints(w)
      <3> DEFINE p == Target(w)
      <3>1. /\ Step(w, "delete_points", "detect")
            /\ points' = [points EXCEPT ![CollectionOf[p]] = Without(@, p)]
            /\ pointCleaner' = [pointCleaner EXCEPT ![p] = w]
            /\ UNCHANGED <<edgeCleaner, symbolCleaner, edges, symbols, local>>
        BY <2>4 DEF DeleteOldPoints
      <3>2. /\ pc[w] = "delete_points" /\ pc'[w] = "detect" /\ job' = job
            /\ \A v \in Worker \ {w} : pc'[v] = pc[v]
        BY <3>1, <1>a, OthersSame
      <3>3. p \in Project /\ got'[w] = {}
        BY <3>1, <3>2, <1>a, <1>b, TargetType DEF Ledger, local
      <3>4. \A q \in Project \ {p} : UniqueRepo(q) => PointsOf(q) \subseteq PointsOf(q)'
        BY <1>a, <3>1, <3>3, PointsKeep
      <3>5. \A v \in Worker : Target(v)' = Target(v)
        BY <3>2 DEF Target
      <3>6. Edges'
        BY <1>b, <3>1, <3>2, EdgesStep DEF EdgesOf, BeforeEdges, local
      <3>7. Rows'
        BY <1>b, <3>1, <3>2, RowsStep DEF RowsOf, Committed, BeforeRows, BeforeEdges, local
      <3>8. \A q \in Project : pointCleaner'[q] = IF q = p THEN w ELSE pointCleaner[q]
        BY <3>1 DEF TypeOK, HistoryType
      <3>9. w # "whole"
        BY ConstantsAssumption DEF ConstantsAssumption
      <3>10. PointsWhole'
        BY <1>b, <3>4, <3>8, <3>9 DEF PointsWhole
      <3>11. PointsLedger'
        <4> SUFFICES ASSUME NEW q \in Project, NEW v \in Worker, pointCleaner'[q] = v
                     PROVE  /\ pc'[v] \notin BeforePoints /\ Target(v)' = q
                            /\ UniqueRepo(q) => got'[v] \ unsent'[v] \subseteq PointsOf(q)'
          BY DEF PointsLedger
        <4>1. CASE q = p
          BY <3>2, <3>3, <3>5, <3>8, <4>1 DEF BeforePoints, BeforeRows, BeforeEdges
        <4>2. CASE q # p
          <5>1. pointCleaner[q] = v
            BY <3>8, <4>2
          <5>2. pc[v] \notin BeforePoints /\ v # w
            BY <1>b, <3>2, <5>1 DEF PointsLedger, BeforePoints
          <5>3. pc'[v] = pc[v] /\ got'[v] = got[v] /\ unsent'[v] = unsent[v]
            BY <3>1, <3>2, <5>2 DEF local
          <5> QED BY <1>b, <3>4, <3>5, <4>2, <5>1, <5>2, <5>3 DEF PointsLedger
        <4> QED BY <4>1, <4>2
      <3> QED BY <3>6, <3>7, <3>10, <3>11
    \* Reading the tree: what w has just parsed it still owes to every store.
    <2>5. CASE DetectModules(w)
      <3>1. Step(w, "detect", "parse") /\ UNCHANGED <<stores, cleaners, seen, unsent, got>>
        BY <2>5 DEF DetectModules
      <3>2. /\ pc[w] = "detect" /\ pc'[w] = "parse" /\ job' = job
            /\ \A v \in Worker \ {w} : pc'[v] = pc[v]
        BY <3>1, <1>a, OthersSame
      <3>3. \A v \in Worker \ {w} : Same(v)
        BY <3>1, <3>2 DEF Same
      <3>4. /\ pc[w] \notin BeforePoints /\ pc'[w] \notin BeforePoints
            /\ Committed(w)' \subseteq Committed(w)
        BY <3>1, <3>2 DEF BeforePoints, BeforeRows, BeforeEdges, Committed
      <3> QED BY <3>1, <3>2, <3>3, <3>4, QuietStep
    <2>6. CASE ParseModule(w)
      <3>m. PICK m \in todo[w] : ParseModule(w)!(m)
        BY <2>6 DEF ParseModule
      <3>n. PICK parsed \in SUBSET Tree(Target(w)) : ParseModule(w)!(m)!(parsed)
        BY <3>m
      <3>1. /\ seen' = [seen EXCEPT ![w] = parsed]
            /\ unsent' = [unsent EXCEPT ![w] = parsed]
            /\ got' = [got EXCEPT ![w] = @ \cup parsed]
            /\ Step(w, "parse", IF parsed = {} THEN "parse" ELSE "upsert_symbols")
            /\ UNCHANGED <<stores, cleaners>>
        BY <3>n
      <3>2. /\ pc[w] = "parse" /\ job' = job
            /\ pc'[w] = IF parsed = {} THEN "parse" ELSE "upsert_symbols"
            /\ \A v \in Worker \ {w} : pc'[v] = pc[v]
        BY <3>1, <1>a, OthersSame
      <3>3. \A v \in Worker \ {w} : Same(v)
        BY <3>1, <3>2, <1>a DEF Same, LocalType
      <3>4. seen'[w] = parsed /\ unsent'[w] = parsed /\ got'[w] = got[w] \cup parsed
        BY <3>1, <1>a DEF LocalType
      <3>5. seen[w] = {} /\ unsent[w] = {}
        BY <1>b, <3>2 DEF Ledger
      <3>6. pc[w] \notin BeforePoints /\ pc'[w] \notin BeforePoints
        BY <3>2 DEF BeforePoints, BeforeRows, BeforeEdges
      <3>7. Committed(w)' \subseteq Committed(w)
        BY <3>2, <3>4 DEF Committed
      <3> QED BY <3>1, <3>2, <3>3, <3>4, <3>5, <3>6, <3>7, QuietStep
    \* Writing a module pays one store what w owes it.
    <2>7. CASE UpsertSymbols(w)
      <3> DEFINE p == Target(w)
      <3>1. /\ Step(w, "upsert_symbols", "upsert_points")
            /\ symbols' = With(symbols, p, seen[w])
            /\ UNCHANGED <<edges, points, local, cleaners>>
        BY <2>7 DEF UpsertSymbols
      <3>2. /\ pc[w] = "upsert_symbols" /\ pc'[w] = "upsert_points" /\ job' = job
            /\ \A v \in Worker \ {w} : pc'[v] = pc[v]
        BY <3>1, <1>a, OthersSame
      <3>3. p \in Project /\ seen[w] \in SUBSET File
        BY <3>2, <1>a, TargetType DEF LocalType
      <3>4. \A q \in Project : UniqueRepo(q) => RowsOf(q) \subseteq RowsOf(q)'
        BY <3>1, <3>3, SymbolsKeep
      <3>5. seen[w] \subseteq RowsOf(p)' /\ p = Target(w)'
        BY <3>1, <3>2, <3>3, WithAdds DEF RowsOf, Target
      <3>6. UNCHANGED <<edgeCleaner, symbolCleaner, pointCleaner>>
        BY <3>1 DEF cleaners
      <3>7. \A v \in Worker \ {w} : Committed(v)' = Committed(v)
        BY <3>1, <3>2 DEF Committed, local
      <3>8. Committed(w)' \subseteq Committed(w) \cup seen[w]
        BY <3>1, <3>2 DEF Committed, local
      <3>9. Rows'
        <4>1. \A v \in Worker : pc[v] \notin BeforeRows =>
                 /\ pc'[v] \notin BeforeRows /\ job'[v] = job[v]
                 /\ \A q \in Project : UniqueRepo(q) /\ Target(v) = q =>
                       Committed(v)' \subseteq Committed(v) \cup RowsOf(q)'
          BY <3>2, <3>5, <3>7, <3>8 DEF BeforeRows, BeforeEdges
        <4> QED BY <1>b, <3>4, <3>6, <4>1, RowsStep
      <3>10. Edges'
        BY <1>b, <3>1, <3>2, <3>6, EdgesStep DEF EdgesOf, BeforeEdges, local
      <3>11. Points'
        BY <1>b, <3>1, <3>2, <3>6, PointsStep
           DEF PointsOf, BeforePoints, BeforeRows, BeforeEdges, local
      <3> QED BY <3>9, <3>10, <3>11
    <2>8. CASE UpsertPoints(w)
      <3> DEFINE p == Target(w)
      <3>m. PICK batch \in (SUBSET unsent[w]) \ {{}} : UpsertPoints(w)!(batch)
        BY <2>8 DEF UpsertPoints
      <3>1. /\ Step(w, "upsert_points",
                    IF batch = unsent[w] THEN "insert_edges" ELSE "upsert_points")
            /\ points' = [points EXCEPT ![CollectionOf[p]] = With(@, p, batch)]
            /\ unsent' = [unsent EXCEPT ![w] = @ \ batch]
            /\ UNCHANGED <<symbols, edges, seen, got, cleaners>>
        BY <3>m
      <3>2. /\ pc[w] = "upsert_points" /\ job' = job
            /\ pc'[w] = IF batch = unsent[w] THEN "insert_edges" ELSE "upsert_points"
            /\ \A v \in Worker \ {w} : pc'[v] = pc[v]
        BY <3>1, <1>a, OthersSame
      <3>3. p \in Project /\ batch \in SUBSET File
        BY <3>2, <1>a, TargetType DEF LocalType
      <3>4. \A q \in Project : UniqueRepo(q) => PointsOf(q) \subseteq PointsOf(q)'
        BY <1>a, <3>1, <3>3, PointsKeep
      <3>5. \A q \in Project : q = p => batch \subseteq PointsOf(q)'
        <4>1. points'[CollectionOf[p]] = With(points[CollectionOf[p]], p, batch)
          BY <3>1, <3>3, <1>a, ConstantsAssumption DEF StoreType, ConstantsAssumption
        <4>2. \A f \in batch : points'[CollectionOf[p]][IdOf(p, f)] = p
          BY <3>3, <4>1, WithAdds
        <4> QED BY <3>3, <4>2 DEF PointsOf
      <3>6. UNCHANGED <<edgeCleaner, symbolCleaner, pointCleaner>>
        BY <3>1 DEF cleaners
      <3>7. /\ unsent'[w] = unsent[w] \ batch
            /\ \A v \in Worker \ {w} : unsent'[v] = unsent[v]
        BY <3>1, <1>a DEF LocalType
      <3>8. Points'
        <4>1. \A v \in Worker : pc[v] \notin BeforePoints =>
                 /\ pc'[v] \notin BeforePoints /\ job'[v] = job[v]
                 /\ \A q \in Project : UniqueRepo(q) /\ Target(v) = q =>
                       got'[v] \ unsent'[v] \subseteq (got[v] \ unsent[v]) \cup PointsOf(q)'
          BY <3>1, <3>2, <3>5, <3>7 DEF BeforePoints, BeforeRows, BeforeEdges
        <4> QED BY <1>b, <3>4, <3>6, <4>1, PointsStep
      <3>9. Edges'
        BY <1>b, <3>1, <3>2, <3>6, EdgesStep DEF EdgesOf, BeforeEdges
      <3>10. \A v \in Worker : Committed(v)' = Committed(v)
        BY <3>1, <3>2 DEF Committed
      <3>11. Rows'
        BY <1>b, <3>1, <3>2, <3>6, <3>10, RowsStep DEF RowsOf, BeforeRows, BeforeEdges
      <3> QED BY <3>8, <3>9, <3>11
    <2>9. CASE InsertEdges(w)
      <3> DEFINE p == Target(w)
      <3>1. /\ Step(w, "insert_edges", "parse")
            /\ edges' = [edges EXCEPT ![p] =
                           [f \in File |-> IF f \in seen[w] THEN @[f] + 1 ELSE @[f]]]
            /\ seen' = [seen EXCEPT ![w] = {}]
            /\ UNCHANGED <<symbols, points, unsent, got, cleaners>>
        BY <2>9 DEF InsertEdges
      <3>2. /\ pc[w] = "insert_edges" /\ pc'[w] = "parse" /\ job' = job
            /\ \A v \in Worker \ {w} : pc'[v] = pc[v]
        BY <3>1, <1>a, OthersSame
      <3>3. p \in Project /\ seen[w] \in SUBSET File
        BY <3>2, <1>a, TargetType DEF LocalType
      <3>4. \A f \in File : edges[p][f] \in Nat /\
               edges'[p][f] = IF f \in seen[w] THEN edges[p][f] + 1 ELSE edges[p][f]
        BY <3>1, <3>3, <1>a DEF StoreType
      <3>5. /\ \A q \in Project \ {p} : EdgesOf(q)' = EdgesOf(q)
            /\ EdgesOf(p) \subseteq {f \in File : edges'[p][f] > 0}
            /\ seen[w] \subseteq {f \in File : edges'[p][f] > 0}
        BY <3>1, <3>3, <3>4, <1>a DEF EdgesOf, StoreType
      <3>6. \A q \in Project : EdgesOf(q) \subseteq EdgesOf(q)'
        BY <3>5 DEF EdgesOf
      <3>7. \A q \in Project : q = p => seen[w] \subseteq EdgesOf(q)'
        BY <3>5 DEF EdgesOf
      <3>8. UNCHANGED <<edgeCleaner, symbolCleaner, pointCleaner>>
        BY <3>1 DEF cleaners
      <3>9. seen'[w] = {} /\ \A v \in Worker \ {w} : seen'[v] = seen[v]
        BY <3>1, <1>a DEF LocalType
      <3>10. Edges'
        <4>1. \A v \in Worker : pc[v] \notin BeforeEdges =>
                 /\ pc'[v] \notin BeforeEdges /\ job'[v] = job[v]
                 /\ \A q \in Project : UniqueRepo(q) /\ Target(v) = q =>
                       got'[v] \ seen'[v] \subseteq (got[v] \ seen[v]) \cup EdgesOf(q)'
          BY <3>1, <3>2, <3>7, <3>9 DEF BeforeEdges
        <4> QED BY <1>b, <3>6, <3>8, <4>1, EdgesStep
      <3>11. Points'
        BY <1>b, <3>1, <3>2, <3>8, PointsStep DEF PointsOf, BeforePoints, BeforeRows, BeforeEdges
      <3>12. \A v \in Worker : Committed(v)' = Committed(v)
        BY <3>1, <3>2, <3>9 DEF Committed
      <3>13. Rows'
        BY <1>b, <3>1, <3>2, <3>8, <3>12, RowsStep DEF RowsOf, BeforeRows, BeforeEdges
      <3> QED BY <3>10, <3>11, <3>13
    <2>10. CASE Finish(w)
      <3> DEFINE how == IF \E v \in Version : got[w] = Content[v] THEN "whole" ELSE "partial"
      <3>1. /\ Release(w) /\ Settle({w}, how) /\ UNCHANGED stores /\ pc[w] = "parse"
        BY <2>10 DEF Finish
      <3>2. how \in {"whole", "partial", "broken"}
        OBVIOUS
      <3>3. how = "whole" => \E v \in Version : got[w] = Content[v]
        OBVIOUS
      <3> HIDE DEF how
      <3> QED BY <3>1, <3>2, <3>3, <1>5
    <2> QED BY <1>7, <2>1, <2>2, <2>3, <2>4, <2>5, <2>6, <2>7, <2>8, <2>9, <2>10 DEF Attempt
  <1>8. /\ \A t \in Task : RequestIndex(t) => UNCHANGED <<stores, cleaners, pc, job, local>>
        /\ \A p \in Project, v \in Version :
              Push(p, v) => UNCHANGED <<stores, cleaners, pc, job, local>>
        /\ \A w \in Worker : Redeliver(w) => UNCHANGED <<stores, cleaners, pc, job, local>>
        /\ UNCHANGED vars => UNCHANGED <<stores, cleaners, pc, job, local>>
    BY DEF RequestIndex, Push, Redeliver, vars, history
  <1>9. \A w \in Worker : Fail(w) \/ Crash(w) =>
           Release(w) /\ Settle({w}, "broken") /\ UNCHANGED stores
    BY DEF Fail, Crash
  <1>10. \A w \in Worker : Fail(w) \/ Crash(w) => Rows' /\ Points' /\ Edges'
    BY <1>5, <1>9
  <1> QED
    BY <1>1, <1>2, <1>3, <1>4, <1>6, <1>7, <1>8, <1>10 DEF Next

\* The inductive invariant: the store of an attempt that still runs holds all that it has
\* written since it emptied it.
THEOREM IndexInductive == Spec => []IndexInv
<1>1. Init => IndexInv
  <2>1. ASSUME Init, NEW p \in Project
        PROVE  /\ symbolCleaner[p] = "none" /\ pointCleaner[p] = "none"
               /\ edgeCleaner[p] = "none" /\ "none" \notin Worker
    BY <2>1, ConstantsAssumption DEF Init, ConstantsAssumption
  <2>2. Init => Ledger
    BY DEF Init, Ledger
  <2> QED
    BY <2>1, <2>2 DEF IndexInv, RowsLedger, PointsLedger, EdgesLedger, CompleteIndex
<1>2. TypeOK /\ TypeOK' /\ IndexInv /\ [Next]_vars => IndexInv'
  BY IndexStep
<1> QED
  BY <1>1, <1>2, TypeCorrect, PTL DEF Spec

\* However attempts, retries, redeliveries, crashes and deletions interleave, what the
\* last attempt to empty a store has promised with a complete run stays in the store.
THEOREM IndexIsComplete == Spec => []CompleteIndex
<1>1. IndexInv => CompleteIndex
  BY DEF IndexInv
<1> QED
  BY <1>1, IndexInductive, PTL

============================================================================
