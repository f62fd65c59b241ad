-------------------------- MODULE ExactIndexProofs --------------------------
(* What holds of a project on which no two writers ever met: ExactIndex,     *)
(* NoDanglingEdges and CleanDelete; and IsolatedProjects, which needs no     *)
(* such condition.                                                           *)
EXTENDS RepositoryIndexProofs

\* Where no two writers have met there is at most one at a time.
Sole(p) ==
    /\ \A v, w \in Writers(p) : v = w
    /\ deleting[p] # "no" => Writers(p) = {}

\* A process has what it is writing, and never parses a module twice.
ModulesLedger ==
    \A w \in Worker :
        /\ unsent[w] \subseteq seen[w] /\ seen[w] \subseteq got[w]
        /\ \A f \in got[w] : ModuleOf[f] \notin todo[w]

\* What the only writer of p has written since it emptied a store, and nothing else, is in
\* the store.
Written(p) ==
    \A w \in Writers(p) :
        /\ pc[w] \notin BeforeEdges =>
             /\ edgeCleaner[p] = w
             /\ \A f \in File : edges[p][f] = IF f \in got[w] \ seen[w] THEN 1 ELSE 0
        /\ pc[w] \notin BeforeRows => symbolCleaner[p] = w /\ RowsOf(p) = Committed(w)
        /\ pc[w] \notin BeforePoints =>
             pointCleaner[p] = w /\ PointsOf(p) = got[w] \ unsent[w]

\* ExactIndex and NoDanglingEdges, for one project.
Exact(p) ==
    {edgeCleaner[p], symbolCleaner[p], pointCleaner[p]} = {"whole"} =>
        \E v \in Version :
            /\ RowsOf(p) = Content[v]
            /\ PointsOf(p) = Content[v]
            /\ edges[p] = [f \in File |-> IF f \in Content[v] THEN 1 ELSE 0]

Attached(p) ==
    \A f \in File : edges[p][f] <= 1 /\ (edges[p][f] = 1 => f \in RowsOf(p))

\* Vectors are only in the project's collection; a project that is gone, or whose vectors
\* the handler has just deleted, has none, and no attempt gets past get_project.
PointsAtHome ==
    \A p \in Project, c \in Collection :
        c # CollectionOf[p] => \A i \in Id : points[c][i] # p

Pointless(p) == \A i \in Id : points[CollectionOf[p]][i] # p

Gone(p) ==
    /\ p \notin projects => \A w \in Writers(p) : pc[w] = "load"
    /\ p \notin projects \/ deleting[p] = "rows" => pointCleaner[p] = "kept" \/ Pointless(p)

SoleInv == \A p \in Project : ~overlap[p] => Sole(p)
ExactInv ==
    /\ SoleInv /\ ModulesLedger
    /\ \A p \in Project : UniqueRepo(p) /\ ~overlap[p] => Written(p) /\ Exact(p) /\ Attached(p)
CleanInv == SoleInv /\ PointsAtHome /\ \A p \in Project : ~overlap[p] => Gone(p)
-----------------------------------------------------------------------------
(* Steps that do not concern a project. *)

\* What a project with a slug of its own has in the stores.
Untouched(p) ==
    RowsOf(p)' = RowsOf(p) /\ edges'[p] = edges[p] /\ PointsOf(p)' = PointsOf(p)

\* The rows and points another project deletes or upserts have other ids.
LEMMA ForeignTable ==
    ASSUME NEW p \in Project, UniqueRepo(p), NEW q \in Project, p # q, NEW table,
           NEW F \in SUBSET File, NEW f \in File
    PROVE  /\ Without(table, q)[IdOf(p, f)] = p <=> table[IdOf(p, f)] = p
           /\ With(table, q, F)[IdOf(p, f)] = p <=> table[IdOf(p, f)] = p
  <1>1. IdOf(p, f) \in Id /\ p # NoProject
    BY IdType, ConstantsAssumption DEF ConstantsAssumption
  <1> QED
    BY <1>1, IdsDiffer DEF Without, With

LEMMA ForeignRows ==
    ASSUME NEW p \in Project, UniqueRepo(p), NEW q \in Project, p # q, NEW F \in SUBSET File,
           symbols' = Without(symbols, q) \/ symbols' = With(symbols, q, F)
    PROVE  RowsOf(p)' = RowsOf(p)
  <1> DEFINE t == symbols
  <1>1. symbols' \in {Without(t, q), With(t, q, F)}
    OBVIOUS
  <1> HIDE DEF t
  <1>2. \A f \in File : /\ Without(t, q)[IdOf(p, f)] = p <=> t[IdOf(p, f)] = p
                        /\ With(t, q, F)[IdOf(p, f)] = p <=> t[IdOf(p, f)] = p
    BY ForeignTable
  <1> QED
    BY <1>1, <1>2 DEF RowsOf, t

LEMMA ForeignPoints ==
    ASSUME StoreType, NEW p \in Project, UniqueRepo(p), NEW q \in Project, p # q,
           NEW F \in SUBSET File,
           \/ points' = [points EXCEPT ![CollectionOf[q]] = Without(@, q)]
           \/ points' = [points EXCEPT ![CollectionOf[q]] = With(@, q, F)]
    PROVE  PointsOf(p)' = PointsOf(p)
  <1> DEFINE t == points[CollectionOf[p]]
  <1>1. CollectionOf[p] \in Collection /\ CollectionOf[q] \in Collection
    BY ConstantsAssumption DEF ConstantsAssumption
  <1>2. points'[CollectionOf[p]] \in {t, Without(t, q), With(t, q, F)}
    BY <1>1 DEF StoreType
  <1> HIDE DEF t
  <1>3. \A f \in File : /\ Without(t, q)[IdOf(p, f)] = p <=> t[IdOf(p, f)] = p
                        /\ With(t, q, F)[IdOf(p, f)] = p <=> t[IdOf(p, f)] = p
    BY ForeignTable
  <1> QED
    BY <1>2, <1>3 DEF PointsOf, t

LEMMA ForeignAttempt ==
    ASSUME TypeOK, NEW p \in Project, UniqueRepo(p), NEW w \in Worker, Attempt(w), Target(w) # p
    PROVE  Untouched(p)
  <1>1. StoreType /\ ProcessType /\ LocalType
    BY DEF TypeOK
  <1>2. pc[w] # "idle"
    BY DEF Attempt, LoadProject, StartClone, FinishClone, OpenClone, DeleteEdges, DeleteSymbols,
       DeleteOldPoints, DetectModules, ParseModule, UpsertSymbols, UpsertPoints, InsertEdges,
       Finish, Step
  <1>3. Target(w) \in Project /\ seen[w] \in SUBSET File /\ unsent[w] \in SUBSET File
    BY <1>1, <1>2, TargetType DEF LocalType
  <1>4. UNCHANGED stores => Untouched(p)
    BY DEF stores, Untouched, RowsOf, PointsOf
  <1>5. CASE LoadProject(w) \/ StartClone(w) \/ FinishClone(w) \/ OpenClone(w)
             \/ DetectModules(w) \/ ParseModule(w) \/ Finish(w)
    BY <1>4, <1>5 DEF LoadProject, StartClone, FinishClone, OpenClone, DetectModules,
       ParseModule, Finish
  <1>6. CASE DeleteEdges(w) \/ InsertEdges(w)
    <2>1. UNCHANGED <<symbols, points>> /\ edges'[p] = edges[p]
      BY <1>1, <1>6 DEF DeleteEdges, InsertEdges, StoreType
    <2> QED BY <2>1 DEF Untouched, RowsOf, PointsOf
  <1>7. CASE DeleteSymbols(w) \/ UpsertSymbols(w)
    <2>1. /\ UNCHANGED <<edges, points>>
          /\ \/ symbols' = Without(symbols, Target(w))
             \/ symbols' = With(symbols, Target(w), seen[w])
      BY <1>7 DEF DeleteSymbols, UpsertSymbols
    <2>2. RowsOf(p)' = RowsOf(p)
      BY <1>3, <2>1, ForeignRows
    <2> QED BY <2>1, <2>2 DEF Untouched, PointsOf
  <1>8. CASE DeleteOldPoints(w) \/ UpsertPoints(w)
    <2>1. PICK batch \in SUBSET File :
             /\ UNCHANGED <<symbols, edges>>
             /\ \/ points' = [points EXCEPT ![CollectionOf[Target(w)]] = Without(@, Target(w))]
                \/ points' = [points EXCEPT ![CollectionOf[Target(w)]] = With(@, Target(w), batch)]
      BY <1>3, <1>8 DEF DeleteOldPoints, UpsertPoints
    <2>2. PointsOf(p)' = PointsOf(p)
      BY <1>1, <1>3, <2>1, ForeignPoints
    <2> QED BY <2>1, <2>2 DEF Untouched, RowsOf
  <1> QED
    BY <1>5, <1>6, <1>7, <1>8 DEF Attempt

LEMMA ForeignDelete ==
    ASSUME TypeOK, NEW p \in Project, UniqueRepo(p), NEW q \in Project, p # q,
           DeletePoints(q) \/ DeleteRows(q)
    PROVE  Untouched(p) /\ deleting'[p] = deleting[p] /\ overlap'[p] = overlap[p]
           /\ symbolCleaner'[p] = symbolCleaner[p] /\ pointCleaner'[p] = pointCleaner[p]
           /\ edgeCleaner'[p] = edgeCleaner[p]
  <1>1. StoreType /\ HistoryType
    BY DEF TypeOK
  <1>2. CASE DeletePoints(q)
    <2>1. /\ UNCHANGED <<symbols, edges, edgeCleaner, symbolCleaner>>
          /\ \/ points' = [points EXCEPT ![CollectionOf[q]] = Without(@, q)]
             \/ UNCHANGED points
      BY <1>2 DEF DeletePoints
    <2>2. PointsOf(p)' = PointsOf(p)
      BY <1>1, <2>1, ForeignPoints DEF PointsOf
    <2>3. deleting'[p] = deleting[p] /\ overlap'[p] = overlap[p] /\ pointCleaner'[p] = pointCleaner[p]
      BY <1>1, <1>2 DEF DeletePoints, HistoryType
    <2> QED BY <2>1, <2>2, <2>3 DEF Untouched, RowsOf
  <1>3. CASE DeleteRows(q)
    <2>1. /\ UNCHANGED <<points, pointCleaner, overlap>>
          /\ \/ /\ symbols' = Without(symbols, q)
                /\ edges' = [edges EXCEPT ![q] = [f \in File |-> 0]]
             \/ UNCHANGED <<symbols, edges>>
      BY <1>3 DEF DeleteRows
    <2>2. RowsOf(p)' = RowsOf(p)
      BY <2>1, ForeignRows DEF RowsOf
    <2>3. edges'[p] = edges[p]
      BY <1>1, <2>1 DEF StoreType
    <2>4. /\ deleting'[p] = deleting[p] /\ symbolCleaner'[p] = symbolCleaner[p]
          /\ edgeCleaner'[p] = edgeCleaner[p]
      BY <1>1, <1>3 DEF DeleteRows, HistoryType
    <2> QED BY <2>1, <2>2, <2>3, <2>4 DEF Untouched, PointsOf
  <1> QED
    BY <1>2, <1>3

\* The steps that write no store.
LEMMA NoStoreStep ==
    /\ \A t \in Task : RequestIndex(t) => UNCHANGED stores
    /\ \A p \in Project, v \in Version : Push(p, v) => UNCHANGED stores
    /\ \A w \in Worker : Take(w) \/ Fail(w) \/ Crash(w) \/ Redeliver(w) => UNCHANGED stores
    /\ Recreate => UNCHANGED stores
    /\ UNCHANGED vars => UNCHANGED stores
  BY DEF RequestIndex, Push, Take, Fail, Crash, Redeliver, Recreate, vars

\* The data of a project with its own slug changes only while one of its own attempts runs
\* or it is being deleted, whatever the attempts of the other projects do to a collection
\* they share with it.
THEOREM ProjectsAreIsolated == Spec => IsolatedProjects
<1> DEFINE Isolated(p) == UniqueRepo(p) /\ Writers(p) = {} /\ deleting[p] = "no" =>
                            \/ deleting'[p] # "no"
                            \/ /\ RowsOf(p)' = RowsOf(p)
                               /\ edges'[p] = edges[p]
                               /\ PointsOf(p)' = PointsOf(p)
<1>1. ASSUME TypeOK, [Next]_vars, NEW p \in Project PROVE Isolated(p)
  <2> SUFFICES ASSUME UniqueRepo(p), Writers(p) = {}, deleting[p] = "no", deleting'[p] = "no"
               PROVE  Untouched(p)
    BY DEF Untouched
  <2>1. UNCHANGED stores => Untouched(p)
    BY DEF stores, Untouched, RowsOf, PointsOf
  <2>2. ASSUME NEW w \in Worker, Attempt(w) PROVE Untouched(p)
    <3>1. pc[w] # "idle"
      BY <2>2 DEF Attempt, LoadProject, StartClone, FinishClone, OpenClone, DeleteEdges,
         DeleteSymbols, DeleteOldPoints, DetectModules, ParseModule, UpsertSymbols, UpsertPoints,
         InsertEdges, Finish, Step
    <3>2. Target(w) # p
      BY <3>1 DEF Writers, Busy
    <3> QED BY <1>1, <2>2, <3>2, ForeignAttempt
  <2>3. ASSUME NEW q \in Project, DeletePoints(q) \/ DeleteRows(q) PROVE Untouched(p)
    <3>1. p # q
      BY <1>1, <2>3 DEF DeletePoints, DeleteRows, TypeOK, HistoryType
    <3> QED BY <1>1, <2>3, <3>1, ForeignDelete
  <2> QED
    BY <1>1, <2>1, <2>2, <2>3, NoStoreStep DEF Next
<1>2. TypeOK /\ [Next]_vars => \A p \in Project : Isolated(p)
  BY <1>1
<1>3. TypeOK /\ [Next]_vars => [\A p \in Project : Isolated(p)]_vars
  BY <1>2
<1> QED
  BY <1>3, TypeCorrect, PTL DEF Spec, IsolatedProjects
-----------------------------------------------------------------------------
(* At most one writer. *)

\* A step that gives no process a project to write keeps a project's writers alone.
LEMMA FewerWriters ==
    ASSUME \A w \in Worker : pc'[w] # "idle" => pc[w] # "idle" /\ job'[w] = job[w],
           NEW p \in Project
    PROVE  Writers(p)' \subseteq Writers(p)
  BY DEF Writers, Busy, Target

\* An attempt goes on with its own job, or ends.
LEMMA AttemptGoesOn ==
    ASSUME ProcessType, NEW w \in Worker, Attempt(w)
    PROVE  /\ pc[w] # "idle" /\ UNCHANGED <<deleting, overlap>>
           /\ \A v \in Worker \ {w} : pc'[v] = pc[v]
           /\ \A v \in Worker : pc'[v] # "idle" => pc[v] # "idle" /\ job'[v] = job[v]
  <1>1. CASE Finish(w)
    BY <1>1 DEF Finish, Release, ProcessType
  <1>2. ASSUME NEW from \in Stages \ {"idle"}, NEW to, Step(w, from, to)
        PROVE  /\ pc[w] # "idle" /\ UNCHANGED <<deleting, overlap>>
               /\ \A v \in Worker \ {w} : pc'[v] = pc[v]
               /\ \A v \in Worker : pc'[v] # "idle" => pc[v] # "idle" /\ job'[v] = job[v]
    BY <1>2 DEF Step, ProcessType
  <1>3. CASE ~ Finish(w)
    <2>1. PICK from \in Stages \ {"idle"}, to \in Stages : Step(w, from, to)
      BY <1>3 DEF Attempt, LoadProject, StartClone, FinishClone, OpenClone, DeleteEdges,
         DeleteSymbols, DeleteOldPoints, DetectModules, ParseModule, UpsertSymbols, UpsertPoints,
         InsertEdges, Stages
    <2> QED BY <1>2, <2>1
  <1> QED
    BY <1>1, <1>3

LEMMA EndsGoOn ==
    ASSUME ProcessType, (\E w \in Worker : Fail(w) \/ Crash(w)) \/ Recreate
    PROVE  /\ UNCHANGED <<deleting, overlap>>
           /\ \A v \in Worker : pc'[v] # "idle" => pc[v] # "idle" /\ job'[v] = job[v]
  BY DEF Fail, Crash, Release, Recreate, ProcessType

LEMMA SoleStep ==
    ASSUME TypeOK, SoleInv, [Next]_vars
    PROVE  SoleInv'
  <1>1. ProcessType /\ HistoryType
    BY DEF TypeOK
  <1>2. ASSUME UNCHANGED <<deleting, overlap>>,
               \A v \in Worker : pc'[v] # "idle" => pc[v] # "idle" /\ job'[v] = job[v]
        PROVE  SoleInv'
    <2>1. \A p \in Project : Writers(p)' \subseteq Writers(p)
      BY <1>2, FewerWriters
    <2> QED BY <1>2, <2>1 DEF SoleInv, Sole
  <1>3. ASSUME UNCHANGED <<pc, job, deleting, overlap>> PROVE SoleInv'
    BY <1>2, <1>3
  <1>4. ASSUME NEW q \in Project, DeletePoints(q) \/ DeleteRows(q) PROVE SoleInv'
    <2>1. UNCHANGED <<pc, job>>
      BY <1>4 DEF DeletePoints, DeleteRows
    <2>2. \A p \in Project : Writers(p)' = Writers(p)
      BY <2>1 DEF Writers, Busy, Target
    <2>3. ASSUME NEW p \in Project, ~ overlap'[p]
          PROVE  /\ ~ overlap[p]
                 /\ deleting'[p] \in {deleting[p], "no"} \/ Writers(p) = {}
      BY <1>1, <1>4, <2>3 DEF DeletePoints, DeleteRows, HistoryType
    <2> QED BY <2>2, <2>3 DEF SoleInv, Sole
  <1>5. ASSUME NEW w \in Worker, Take(w) PROVE SoleInv'
    <2>1. PICK m \in queue :
             /\ pc[w] = "idle" /\ pc' = [pc EXCEPT ![w] = "load"] /\ job' = [job EXCEPT ![w] = m]
             /\ overlap' = [overlap EXCEPT ![TaskProject[m[1]]] =
                              @ \/ Writers(TaskProject[m[1]]) # {} \/ deleting[TaskProject[m[1]]] # "no"]
             /\ UNCHANGED deleting
      BY <1>5 DEF Take
    <2> DEFINE p == TaskProject[m[1]]
    <2>2. p \in Project
      BY ConstantsAssumption DEF ConstantsAssumption, TypeOK, BrokerType, Message
    <2>3. Writers(p)' \subseteq Writers(p) \cup {w}
      BY <1>1, <2>1 DEF Writers, Busy, Target, ProcessType
    <2>4. \A q \in Project \ {p} : Writers(q)' \subseteq Writers(q)
      BY <1>1, <2>1 DEF Writers, Busy, Target, ProcessType
    <2>5. ~ overlap'[p] => Writers(p) = {} /\ deleting[p] = "no"
      BY <1>1, <2>1, <2>2 DEF HistoryType
    <2>6. \A q \in Project \ {p} : overlap'[q] = overlap[q]
      BY <1>1, <2>1, <2>2 DEF HistoryType
    <2> QED BY <2>1, <2>2, <2>3, <2>4, <2>5, <2>6 DEF SoleInv, Sole
  <1>6. /\ \A t \in Task : RequestIndex(t) => UNCHANGED <<pc, job, deleting, overlap>>
        /\ \A p \in Project, v \in Version : Push(p, v) => UNCHANGED <<pc, job, deleting, overlap>>
        /\ \A w \in Worker : Redeliver(w) => UNCHANGED <<pc, job, deleting, overlap>>
        /\ UNCHANGED vars => UNCHANGED <<pc, job, deleting, overlap>>
    BY DEF RequestIndex, Push, Redeliver, vars, history
  <1>7. ASSUME (\E w \in Worker : Attempt(w) \/ Fail(w) \/ Crash(w)) \/ Recreate PROVE SoleInv'
    BY <1>1, <1>2, <1>7, AttemptGoesOn, EndsGoOn
  <1> QED
    BY <1>3, <1>4, <1>5, <1>6, <1>7 DEF Next

\* No file is parsed twice by one attempt.
LEMMA ModulesStep ==
    ASSUME TypeOK, Ledger, ModulesLedger, [Next]_vars
    PROVE  ModulesLedger'
  <1>1. LocalType
    BY DEF TypeOK
  <1>2. ASSUME \A w \in Worker :
                  \/ seen'[w] = {} /\ unsent'[w] = {} /\ got'[w] = {}
                  \/ /\ seen'[w] = seen[w] /\ unsent'[w] = unsent[w]
                     /\ got'[w] = got[w] /\ todo'[w] = todo[w]
        PROVE  ModulesLedger'
    BY <1>2 DEF ModulesLedger
  <1>3. ASSUME UNCHANGED local PROVE ModulesLedger'
    BY <1>2, <1>3 DEF local
  <1>4. ASSUME NEW w \in Worker, Release(w) PROVE ModulesLedger'
    <2>1. \A v \in Worker \ {w} : /\ seen'[v] = seen[v] /\ unsent'[v] = unsent[v]
                                  /\ got'[v] = got[v] /\ todo'[v] = todo[v]
      BY <1>1, <1>4 DEF Release, LocalType
    <2>2. seen'[w] = {} /\ unsent'[w] = {} /\ got'[w] = {}
      BY <1>1, <1>4 DEF Release, LocalType
    <2> QED BY <1>2, <2>1, <2>2
  <1>5. ASSUME NEW w \in Worker, Take(w) PROVE ModulesLedger'
    <2>1. pc[w] = "idle" /\ got' = [got EXCEPT ![w] = {}] /\ UNCHANGED <<todo, seen, unsent>>
      BY <1>5 DEF Take
    <2>2. got' = got
      BY <1>1, <2>1 DEF Ledger, LocalType
    <2> QED BY <1>3, <2>1, <2>2 DEF local
  <1>6. ASSUME NEW w \in Worker, Attempt(w) PROVE ModulesLedger'
    <2>1. CASE LoadProject(w) \/ StartClone(w) \/ FinishClone(w) \/ OpenClone(w)
               \/ DeleteEdges(w) \/ DeleteSymbols(w) \/ DeleteOldPoints(w) \/ UpsertSymbols(w)
      BY <1>3, <2>1 DEF LoadProject, StartClone, FinishClone, OpenClone, DeleteEdges,
         DeleteSymbols, DeleteOldPoints, UpsertSymbols, local
    <2>2. CASE DetectModules(w)
      <3>1. pc[w] = "detect" /\ UNCHANGED <<seen, unsent, got>>
        BY <2>2 DEF DetectModules, Step
      <3>2. \A v \in Worker \ {w} : todo'[v] = todo[v]
        BY <1>1, <2>2 DEF DetectModules, LocalType
      <3>3. got[w] = {}
        BY <3>1 DEF Ledger
      <3> QED BY <3>1, <3>2, <3>3 DEF ModulesLedger
    <2>3. CASE ParseModule(w)
      <3>1. PICK m \in todo[w] : \E parsed \in SUBSET Tree(Target(w)) :
               /\ \A f \in parsed : ModuleOf[f] = m
               /\ todo' = [todo EXCEPT ![w] = @ \ {m}]
               /\ seen' = [seen EXCEPT ![w] = parsed]
               /\ unsent' = [unsent EXCEPT ![w] = parsed]
               /\ got' = [got EXCEPT ![w] = @ \cup parsed]
        BY <2>3 DEF ParseModule
      <3>2. PICK parsed \in SUBSET Tree(Target(w)) :
               /\ \A f \in parsed : ModuleOf[f] = m
               /\ todo' = [todo EXCEPT ![w] = @ \ {m}]
               /\ seen' = [seen EXCEPT ![w] = parsed]
               /\ unsent' = [unsent EXCEPT ![w] = parsed]
               /\ got' = [got EXCEPT ![w] = @ \cup parsed]
        BY <3>1
      <3>3. /\ todo'[w] = todo[w] \ {m} /\ seen'[w] = parsed /\ unsent'[w] = parsed
            /\ got'[w] = got[w] \cup parsed
            /\ \A v \in Worker \ {w} : /\ seen'[v] = seen[v] /\ unsent'[v] = unsent[v]
                                       /\ got'[v] = got[v] /\ todo'[v] = todo[v]
        BY <1>1, <3>2 DEF LocalType
      <3> QED BY <3>2, <3>3 DEF ModulesLedger
    <2>4. CASE UpsertPoints(w)
      <3>1. /\ unsent'[w] \subseteq unsent[w] /\ UNCHANGED <<todo, seen, got>>
            /\ \A v \in Worker \ {w} : unsent'[v] = unsent[v]
        BY <1>1, <2>4 DEF UpsertPoints, LocalType
      <3> QED BY <3>1 DEF ModulesLedger
    <2>5. CASE InsertEdges(w)
      <3>1. /\ seen'[w] = {} /\ UNCHANGED <<todo, unsent, got>> /\ pc[w] = "insert_edges"
            /\ \A v \in Worker \ {w} : seen'[v] = seen[v]
        BY <1>1, <2>5 DEF InsertEdges, LocalType, Step
      <3>2. unsent[w] = {}
        BY <3>1 DEF Ledger
      <3> QED BY <3>1, <3>2 DEF ModulesLedger
    <2>6. CASE Finish(w)
      BY <1>4, <2>6 DEF Finish
    <2> QED BY <1>6, <2>1, <2>2, <2>3, <2>4, <2>5, <2>6 DEF Attempt
  <1>7. Recreate => ModulesLedger'
    BY DEF Recreate, ModulesLedger
  <1>8. /\ \A t \in Task : RequestIndex(t) => UNCHANGED local
        /\ \A p \in Project, v \in Version : Push(p, v) => UNCHANGED local
        /\ \A p \in Project : DeletePoints(p) \/ DeleteRows(p) => UNCHANGED local
        /\ \A w \in Worker : Redeliver(w) => UNCHANGED local
        /\ UNCHANGED vars => UNCHANGED local
    BY DEF RequestIndex, Push, DeletePoints, DeleteRows, Redeliver, vars
  <1>9. \A w \in Worker : Fail(w) \/ Crash(w) => Release(w)
    BY DEF Fail, Crash
  <1> QED
    BY <1>3, <1>4, <1>5, <1>6, <1>7, <1>8, <1>9 DEF Next
-----------------------------------------------------------------------------
(* The three stores of a project on which no two writers ever met. *)

ExactOf(p) == Written(p) /\ Exact(p) /\ Attached(p)

SameCleaners(p) ==
    /\ edgeCleaner'[p] = edgeCleaner[p]
    /\ symbolCleaner'[p] = symbolCleaner[p]
    /\ pointCleaner'[p] = pointCleaner[p]

\* A step that leaves the project and what remains of its writers alone.
LEMMA KeepExact ==
    ASSUME NEW p \in Project, ExactOf(p), Untouched(p), SameCleaners(p),
           \A v \in Writers(p)' : v \in Writers(p) /\ Same(v)
    PROVE  ExactOf(p)'
  <1>1. \A v \in Worker : Same(v) => Committed(v)' = Committed(v)
    BY DEF Same, Committed
  <1>2. Written(p)'
    BY <1>1 DEF ExactOf, Written, Untouched, SameCleaners, Same, Writers
  <1>3. Exact(p)'
    BY DEF ExactOf, Exact, Untouched, SameCleaners
  <1>4. Attached(p)'
    BY DEF ExactOf, Attached, Untouched
  <1> QED
    BY <1>2, <1>3, <1>4 DEF ExactOf

\* Attempts that end without success.
LEMMA EndExact ==
    ASSUME NEW p \in Project, ExactOf(p), Untouched(p), NEW W \in SUBSET Worker,
           NEW how \in {"partial", "broken"}, Settle(W, how),
           \A v \in Writers(p)' : v \in Writers(p) \ W /\ Same(v)
    PROVE  ExactOf(p)'
  <1>1. /\ edgeCleaner'[p] = IF edgeCleaner[p] \in W THEN how ELSE edgeCleaner[p]
        /\ symbolCleaner'[p] = IF symbolCleaner[p] \in W THEN how ELSE symbolCleaner[p]
        /\ pointCleaner'[p] = IF pointCleaner[p] \in W THEN how ELSE pointCleaner[p]
    BY DEF Settle, Settled
  <1>2. \A v \in Worker : Same(v) => Committed(v)' = Committed(v)
    BY DEF Same, Committed
  <1>3. Written(p)'
    BY <1>1, <1>2 DEF ExactOf, Written, Untouched, Same, Writers
  <1>4. Exact(p)'
    BY <1>1 DEF ExactOf, Exact, Untouched
  <1>5. Attached(p)'
    BY DEF ExactOf, Attached, Untouched
  <1> QED
    BY <1>3, <1>4, <1>5 DEF ExactOf

\* Different files of a project have different ids.
LEMMA OwnTable ==
    ASSUME NEW p \in Project, NEW table, NEW F \in SUBSET File, NEW f \in File
    PROVE  With(table, p, F)[IdOf(p, f)] = p <=> f \in F \/ table[IdOf(p, f)] = p
  <1>1. IdOf(p, f) \in Id /\ p # NoProject
    BY IdType, ConstantsAssumption DEF ConstantsAssumption
  <1>2. \A g \in File : IdOf(p, f) = IdOf(p, g) => f = g
    BY DEF IdOf
  <1> QED
    BY <1>1, <1>2 DEF With

\* Nothing of a project remains where its rows are deleted.
LEMMA OwnEmpty ==
    ASSUME NEW p \in Project, NEW table, NEW f \in File
    PROVE  Without(table, p)[IdOf(p, f)] # p
  BY IdType, ConstantsAssumption DEF Without, ConstantsAssumption

\* The only writer of p goes on: where it has emptied a store, the store holds what it has
\* written since.
LEMMA OwnWritten ==
    ASSUME NEW p \in Project, NEW w \in Worker, Writers(p)' \subseteq {w},
           pc'[w] \notin BeforeEdges =>
               /\ edgeCleaner'[p] = w
               /\ \A f \in File : edges'[p][f] = IF f \in got'[w] \ seen'[w] THEN 1 ELSE 0,
           pc'[w] \notin BeforeRows => symbolCleaner'[p] = w /\ RowsOf(p)' = Committed(w)',
           pc'[w] \notin BeforePoints =>
               pointCleaner'[p] = w /\ PointsOf(p)' = got'[w] \ unsent'[w],
           edgeCleaner'[p] = w \/ Exact(p)', Attached(p)'
    PROVE  ExactOf(p)'
  <1>1. w # "whole"
    BY ConstantsAssumption DEF ConstantsAssumption
  <1>2. Exact(p)'
    BY <1>1 DEF Exact
  <1>3. Written(p)'
    BY DEF Written
  <1> QED
    BY <1>2, <1>3 DEF ExactOf

LEMMA OwnAttempt ==
    ASSUME TypeOK, Ledger, ModulesLedger, NEW p \in Project, ExactOf(p), NEW w \in Worker,
           Attempt(w), Target(w) = p, Sole(p)
    PROVE  ExactOf(p)'
  <1>1. StoreType /\ ProcessType /\ LocalType /\ HistoryType
    BY DEF TypeOK
  <1>2. /\ pc[w] # "idle"
        /\ \A v \in Worker \ {w} : pc'[v] = pc[v]
        /\ \A v \in Worker : pc'[v] # "idle" => pc[v] # "idle" /\ job'[v] = job[v]
    BY <1>1, AttemptGoesOn
  <1>3. Writers(p) = {w} /\ Writers(p)' \subseteq {w}
    <2>1. w \in Writers(p)
      BY <1>2 DEF Writers, Busy
    <2> QED BY <1>2, <2>1, FewerWriters DEF Sole
  <1>4. w # "whole"
    BY ConstantsAssumption DEF ConstantsAssumption
  <1>5. /\ pc[w] \notin BeforeEdges =>
             /\ edgeCleaner[p] = w
             /\ \A f \in File : edges[p][f] = IF f \in got[w] \ seen[w] THEN 1 ELSE 0
        /\ pc[w] \notin BeforeRows => symbolCleaner[p] = w /\ RowsOf(p) = Committed(w)
        /\ pc[w] \notin BeforePoints => pointCleaner[p] = w /\ PointsOf(p) = got[w] \ unsent[w]
    BY <1>3 DEF ExactOf, Written
  <1>6. Exact(p) /\ Attached(p)
    BY DEF ExactOf
  <1>7. seen[w] \subseteq File /\ unsent[w] \subseteq File /\ got[w] \subseteq File
    BY <1>1 DEF LocalType
  <1>8. unsent[w] \subseteq seen[w] /\ seen[w] \subseteq got[w]
    BY DEF ModulesLedger
  <1>9. \A f \in File : edges[p][f] \in Nat
    BY <1>1 DEF StoreType
  <1>10. CASE LoadProject(w) \/ StartClone(w) \/ FinishClone(w) \/ OpenClone(w)
    <2>1. UNCHANGED <<stores, cleaners>> /\ pc'[w] \in BeforeEdges
      BY <1>1, <1>10 DEF LoadProject, StartClone, FinishClone, OpenClone, Step, BeforeEdges,
         ProcessType
    <2>2. Exact(p)' /\ Attached(p)'
      BY <1>6, <2>1 DEF stores, cleaners, Exact, Attached, RowsOf, PointsOf
    <2> QED BY <1>3, <2>1, <2>2, OwnWritten DEF BeforeRows, BeforePoints
  <1>11. CASE DeleteEdges(w)
    <2>1. /\ pc[w] = "delete_edges" /\ pc'[w] = "delete_symbols" /\ got'[w] = got[w]
          /\ UNCHANGED symbols /\ edgeCleaner'[p] = w
          /\ \A f \in File : edges'[p][f] = IF symbols[IdOf(p, f)] = p THEN 0 ELSE edges[p][f]
      BY <1>1, <1>11 DEF DeleteEdges, Step, ProcessType, HistoryType, StoreType, local
    <2>2. got'[w] = {}
      BY <2>1 DEF Ledger
    <2>3. \A f \in File : edges'[p][f] = 0
      BY <1>6, <1>9, <2>1 DEF Attached, RowsOf
    <2>4. Attached(p)'
      BY <2>3 DEF Attached
    <2> QED BY <1>3, <2>1, <2>2, <2>3, <2>4, OwnWritten DEF BeforeRows, BeforePoints, BeforeEdges
  <1>12. CASE DeleteSymbols(w)
    <2>1. /\ pc[w] = "delete_symbols" /\ pc'[w] = "delete_points" /\ UNCHANGED <<local, edges>>
          /\ symbols' = Without(symbols, p) /\ symbolCleaner'[p] = w
          /\ UNCHANGED edgeCleaner
      BY <1>1, <1>12 DEF DeleteSymbols, Step, ProcessType, HistoryType
    <2>2. got[w] = {} /\ edgeCleaner[p] = w /\ \A f \in File : edges[p][f] = 0
      BY <1>5, <2>1 DEF Ledger, BeforeEdges
    <2>3. RowsOf(p)' = {}
      BY <2>1, OwnEmpty DEF RowsOf
    <2>4. Attached(p)'
      BY <2>1, <2>2 DEF Attached
    <2> QED BY <1>3, <2>1, <2>2, <2>3, <2>4, OwnWritten
            DEF BeforeRows, BeforePoints, BeforeEdges, Committed, local
  <1>13. CASE DeleteOldPoints(w)
    <2>1. /\ pc[w] = "delete_points" /\ pc'[w] = "detect" /\ UNCHANGED <<local, edges, symbols>>
          /\ points' = [points EXCEPT ![CollectionOf[p]] = Without(@, p)]
          /\ pointCleaner'[p] = w /\ UNCHANGED <<edgeCleaner, symbolCleaner>>
      BY <1>1, <1>13 DEF DeleteOldPoints, Step, ProcessType, HistoryType
    <2>2. /\ got[w] = {} /\ edgeCleaner[p] = w /\ \A f \in File : edges[p][f] = 0
          /\ symbolCleaner[p] = w /\ RowsOf(p) = {}
      BY <1>5, <2>1 DEF Ledger, BeforeRows, BeforeEdges, Committed
    <2>3. PointsOf(p)' = {}
      <3>1. points'[CollectionOf[p]] = Without(points[CollectionOf[p]], p)
        BY <1>1, <2>1, ConstantsAssumption DEF StoreType, ConstantsAssumption
      <3> QED BY <3>1, OwnEmpty DEF PointsOf
    <2>4. Attached(p)' /\ RowsOf(p)' = {}
      BY <2>1, <2>2 DEF Attached, RowsOf
    <2> QED BY <1>3, <2>1, <2>2, <2>3, <2>4, OwnWritten
            DEF BeforeRows, BeforePoints, BeforeEdges, Committed, local
  <1>14. CASE DetectModules(w)
    <2>1. /\ pc[w] = "detect" /\ pc'[w] = "parse"
          /\ UNCHANGED <<stores, cleaners, seen, unsent, got>>
      BY <1>1, <1>14 DEF DetectModules, Step, ProcessType
    <2>2. Committed(w)' = Committed(w) /\ Untouched(p) /\ SameCleaners(p)
      BY <2>1 DEF Committed, stores, cleaners, Untouched, SameCleaners, RowsOf, PointsOf
    <2>3. Attached(p)'
      BY <1>6, <2>2 DEF Attached, Untouched
    <2> QED BY <1>3, <1>5, <2>1, <2>2, <2>3, OwnWritten
            DEF BeforeRows, BeforePoints, BeforeEdges, Untouched, SameCleaners
  <1>15. CASE ParseModule(w)
    <2>1. PICK m \in todo[w] : \E parsed \in SUBSET Tree(Target(w)) :
             /\ \A f \in parsed : ModuleOf[f] = m
             /\ Step(w, "parse", IF parsed = {} THEN "parse" ELSE "upsert_symbols")
             /\ seen' = [seen EXCEPT ![w] = parsed]
             /\ unsent' = [unsent EXCEPT ![w] = parsed]
             /\ got' = [got EXCEPT ![w] = @ \cup parsed]
             /\ UNCHANGED <<stores, cleaners>>
      BY <1>15 DEF ParseModule
    <2>2. PICK parsed \in SUBSET Tree(Target(w)) :
             /\ \A f \in parsed : ModuleOf[f] = m
             /\ Step(w, "parse", IF parsed = {} THEN "parse" ELSE "upsert_symbols")
             /\ seen' = [seen EXCEPT ![w] = parsed]
             /\ unsent' = [unsent EXCEPT ![w] = parsed]
             /\ got' = [got EXCEPT ![w] = @ \cup parsed]
             /\ UNCHANGED <<stores, cleaners>>
      BY <2>1
    <2>3. /\ pc[w] = "parse" /\ pc'[w] \in {"parse", "upsert_symbols"}
          /\ pc'[w] = "parse" => parsed = {}
          /\ seen'[w] = parsed /\ unsent'[w] = parsed /\ got'[w] = got[w] \cup parsed
      BY <1>1, <2>2 DEF Step, ProcessType, LocalType
    <2>4. got[w] \cap parsed = {} /\ seen[w] = {} /\ unsent[w] = {}
      BY <2>2, <2>3 DEF ModulesLedger, Ledger
    <2>5. Untouched(p) /\ SameCleaners(p)
      BY <2>2 DEF stores, cleaners, Untouched, SameCleaners, RowsOf, PointsOf
    <2>6. Committed(w) = got[w] /\ Committed(w)' = got[w]
      BY <2>3, <2>4 DEF Committed
    <2>7. got'[w] \ seen'[w] = got[w] /\ got'[w] \ unsent'[w] = got[w]
      BY <2>3, <2>4
    <2>8. Attached(p)'
      BY <1>6, <2>5 DEF Attached, Untouched
    <2> QED BY <1>3, <1>5, <2>3, <2>4, <2>5, <2>6, <2>7, <2>8, OwnWritten
            DEF BeforeRows, BeforePoints, BeforeEdges, Untouched, SameCleaners
  <1>16. CASE UpsertSymbols(w)
    <2>1. /\ pc[w] = "upsert_symbols" /\ pc'[w] = "upsert_points"
          /\ symbols' = With(symbols, p, seen[w]) /\ UNCHANGED <<edges, points, local, cleaners>>
      BY <1>1, <1>16 DEF UpsertSymbols, Step, ProcessType
    <2>2. RowsOf(p)' = RowsOf(p) \cup seen[w]
      BY <1>7, <2>1, OwnTable DEF RowsOf
    <2>3. /\ PointsOf(p)' = PointsOf(p) /\ SameCleaners(p)
          /\ got'[w] = got[w] /\ seen'[w] = seen[w] /\ unsent'[w] = unsent[w]
      BY <2>1 DEF PointsOf, local, SameCleaners, cleaners
    <2>4. Committed(w) = got[w] \ seen[w] /\ Committed(w)' = got[w]
      BY <2>1, <2>3 DEF Committed
    <2>5. Attached(p)'
      BY <1>6, <2>1, <2>2 DEF Attached
    <2>6. RowsOf(p)' = Committed(w)'
      BY <1>5, <1>8, <2>1, <2>2, <2>4 DEF BeforeRows, BeforeEdges
    <2> QED BY <1>3, <1>5, <2>1, <2>3, <2>5, <2>6, OwnWritten
            DEF BeforeRows, BeforePoints, BeforeEdges, SameCleaners
  <1>17. CASE UpsertPoints(w)
    <2>1. PICK batch \in (SUBSET unsent[w]) \ {{}} :
             /\ Step(w, "upsert_points",
                     IF batch = unsent[w] THEN "insert_edges" ELSE "upsert_points")
             /\ points' = [points EXCEPT ![CollectionOf[p]] = With(@, p, batch)]
             /\ unsent' = [unsent EXCEPT ![w] = @ \ batch]
             /\ UNCHANGED <<symbols, edges, seen, got, cleaners>>
      BY <1>17 DEF UpsertPoints
    <2>2. /\ pc[w] = "upsert_points" /\ pc'[w] \in {"insert_edges", "upsert_points"}
          /\ unsent'[w] = unsent[w] \ batch
      BY <1>1, <2>1 DEF Step, ProcessType, LocalType
    <2>3. PointsOf(p)' = PointsOf(p) \cup batch
      <3>1. points'[CollectionOf[p]] = With(points[CollectionOf[p]], p, batch)
        BY <1>1, <2>1, ConstantsAssumption DEF StoreType, ConstantsAssumption
      <3>2. batch \in SUBSET File
        BY <1>7
      <3> QED BY <3>1, <3>2, OwnTable DEF PointsOf
    <2>4. RowsOf(p)' = RowsOf(p) /\ SameCleaners(p) /\ got'[w] = got[w] /\ seen'[w] = seen[w]
      BY <2>1 DEF RowsOf, SameCleaners, cleaners
    <2>5. Committed(w)' = Committed(w)
      BY <2>2, <2>4 DEF Committed
    <2>6. Attached(p)'
      BY <1>6, <2>1, <2>4 DEF Attached
    <2>7. got'[w] \ unsent'[w] = (got[w] \ unsent[w]) \cup batch
      BY <1>8, <2>2, <2>4
    <2> QED BY <1>3, <1>5, <2>1, <2>2, <2>3, <2>4, <2>5, <2>6, <2>7, OwnWritten
            DEF BeforeRows, BeforePoints, BeforeEdges, SameCleaners
  <1>18. CASE InsertEdges(w)
    <2>1. /\ pc[w] = "insert_edges" /\ pc'[w] = "parse"
          /\ edges' = [edges EXCEPT ![p] =
                         [f \in File |-> IF f \in seen[w] THEN @[f] + 1 ELSE @[f]]]
          /\ seen'[w] = {} /\ UNCHANGED <<symbols, points, unsent, got, cleaners>>
      BY <1>1, <1>18 DEF InsertEdges, Step, ProcessType, LocalType
    <2>2. \A f \in File : edges'[p][f] = IF f \in seen[w] THEN edges[p][f] + 1 ELSE edges[p][f]
      BY <1>1, <2>1 DEF StoreType
    <2>3. \A f \in File : edges'[p][f] = IF f \in got[w] THEN 1 ELSE 0
      BY <1>5, <1>8, <2>1, <2>2 DEF BeforeEdges
    <2>4. RowsOf(p)' = RowsOf(p) /\ PointsOf(p)' = PointsOf(p) /\ SameCleaners(p)
      BY <2>1 DEF RowsOf, PointsOf, SameCleaners, cleaners
    <2>5. Committed(w)' = got[w] /\ Committed(w) = got[w]
      BY <2>1 DEF Committed
    <2>6. Attached(p)'
      BY <1>5, <2>1, <2>3, <2>4, <2>5 DEF Attached, BeforeRows, BeforeEdges
    <2> QED BY <1>3, <1>5, <2>1, <2>3, <2>4, <2>5, <2>6, OwnWritten
            DEF BeforeRows, BeforePoints, BeforeEdges, SameCleaners
  <1>19. CASE Finish(w)
    <2> DEFINE how == IF \E v \in Version : got[w] = Content[v] THEN "whole" ELSE "partial"
    <2>1. /\ pc[w] = "parse" /\ Release(w) /\ Settle({w}, how) /\ UNCHANGED stores
      BY <1>19 DEF Finish
    <2>2. seen[w] = {} /\ unsent[w] = {} /\ Committed(w) = got[w] /\ pc'[w] = "idle"
      BY <1>1, <2>1 DEF Ledger, Committed, Release, ProcessType
    <2>3. Writers(p)' = {}
      BY <1>3, <2>2 DEF Writers, Busy
    <2>4. Untouched(p)
      BY <2>1 DEF stores, Untouched, RowsOf, PointsOf
    <2>5. CASE how = "whole"
      <3>1. PICK v \in Version : got[w] = Content[v]
        BY <2>5
      <3>2. edges[p] = [f \in File |-> edges[p][f]]
        BY <1>1 DEF StoreType
      <3>3. edges[p] = [f \in File |-> IF f \in Content[v] THEN 1 ELSE 0]
        BY <1>5, <2>1, <2>2, <3>1, <3>2 DEF BeforeEdges
      <3>4. RowsOf(p) = Content[v] /\ PointsOf(p) = Content[v]
        BY <1>5, <2>1, <2>2, <3>1 DEF BeforePoints, BeforeRows, BeforeEdges
      <3>5. Exact(p)'
        BY <2>4, <3>3, <3>4 DEF Exact, Untouched
      <3>6. Attached(p)'
        BY <1>6, <2>4 DEF Attached, Untouched
      <3> QED BY <2>3, <3>5, <3>6 DEF ExactOf, Written
    <2>6. CASE how # "whole"
      <3>1. Settle({w}, "partial")
        BY <2>1, <2>6
      <3>2. {w} \in SUBSET Worker /\ \A v \in Writers(p)' : v \in Writers(p) \ {w} /\ Same(v)
        BY <2>3
      <3> QED BY <2>4, <3>1, <3>2, EndExact
    <2> QED BY <2>5, <2>6
  <1> QED
    BY <1>10, <1>11, <1>12, <1>13, <1>14, <1>15, <1>16, <1>17, <1>18, <1>19 DEF Attempt

\* The steps of everybody else.
LEMMA ForeignExact ==
    ASSUME TypeOK, IndexInv, NEW p \in Project, UniqueRepo(p), ExactOf(p), NEW w \in Worker,
           Attempt(w), Target(w) # p
    PROVE  ExactOf(p)'
  <1>1. ProcessType /\ LocalType /\ HistoryType
    BY DEF TypeOK
  <1>2. Untouched(p)
    BY ForeignAttempt
  <1>3. /\ pc[w] # "idle"
        /\ \A v \in Worker \ {w} : pc'[v] = pc[v]
        /\ \A v \in Worker : pc'[v] # "idle" => pc[v] # "idle" /\ job'[v] = job[v]
    BY <1>1, AttemptGoesOn
  <1>4. Target(w) \in Project /\ edgeCleaner[p] # w /\ symbolCleaner[p] # w /\ pointCleaner[p] # w
    BY <1>1, <1>3, TargetType DEF IndexInv, RowsLedger, PointsLedger, EdgesLedger
  <1>5. SameCleaners(p)
    <2>1. CASE Finish(w)
      BY <1>4, <2>1 DEF Finish, Settle, Settled, SameCleaners
    <2>2. CASE DeleteEdges(w) \/ DeleteSymbols(w) \/ DeleteOldPoints(w)
      BY <1>1, <1>4, <2>2 DEF DeleteEdges, DeleteSymbols, DeleteOldPoints, SameCleaners, HistoryType
    <2>3. CASE LoadProject(w) \/ StartClone(w) \/ FinishClone(w) \/ OpenClone(w)
               \/ DetectModules(w) \/ ParseModule(w) \/ UpsertSymbols(w) \/ UpsertPoints(w)
               \/ InsertEdges(w)
      BY <2>3 DEF LoadProject, StartClone, FinishClone, OpenClone, DetectModules, ParseModule,
         UpsertSymbols, UpsertPoints, InsertEdges, SameCleaners, cleaners
    <2> QED BY <2>1, <2>2, <2>3 DEF Attempt
  <1>6. \A v \in Worker \ {w} : /\ seen'[v] = seen[v] /\ unsent'[v] = unsent[v] /\ got'[v] = got[v]
    BY <1>1 DEF Attempt, LoadProject, StartClone, FinishClone, OpenClone, DeleteEdges,
       DeleteSymbols, DeleteOldPoints, DetectModules, ParseModule, UpsertSymbols, UpsertPoints,
       InsertEdges, Finish, Release, local, LocalType
  <1>7. \A v \in Writers(p)' : v \in Writers(p) /\ v # w
    BY <1>3 DEF Writers, Busy, Target
  <1>8. \A v \in Writers(p)' : v \in Writers(p) /\ Same(v)
    BY <1>3, <1>6, <1>7 DEF Same, Writers, Busy
  <1> QED
    BY <1>2, <1>5, <1>8, KeepExact

\* The delete_project handler, which works alone.
LEMMA DeleteExact ==
    ASSUME TypeOK, NEW p \in Project, UniqueRepo(p), ExactOf(p), Sole(p), ~ overlap'[p],
           NEW q \in Project, DeletePoints(q) \/ DeleteRows(q)
    PROVE  ExactOf(p)'
  <1>1. StoreType /\ HistoryType
    BY DEF TypeOK
  <1>2. UNCHANGED <<pc, job, local>> /\ Writers(p)' = Writers(p)
    BY DEF DeletePoints, DeleteRows, Writers, Busy, Target
  <1>3. CASE q # p
    <2>1. Untouched(p) /\ SameCleaners(p)
      BY <1>3, ForeignDelete DEF SameCleaners
    <2>2. \A v \in Worker : Same(v)
      BY <1>2 DEF Same, local
    <2>3. \A v \in Writers(p)' : v \in Writers(p) /\ Same(v)
      BY <1>2, <2>2 DEF Writers
    <2> QED BY <2>1, <2>3, KeepExact
  <1>4. CASE q = p /\ DeletePoints(p)
    <2>1. Writers(p) = {} /\ UNCHANGED <<symbols, edges>> /\ pointCleaner'[p] \in {"deleted", "kept"}
      BY <1>1, <1>4 DEF DeletePoints, HistoryType
    <2>2. Exact(p)' /\ Attached(p)'
      BY <2>1 DEF Exact, ExactOf, Attached, RowsOf
    <2> QED BY <1>2, <2>1, <2>2 DEF ExactOf, Written
  <1>5. CASE q = p /\ DeleteRows(p)
    <2>1. Writers(p) = {}
      BY <1>5 DEF DeleteRows, Sole
    <2>2. CASE UNCHANGED <<edges, symbols, edgeCleaner, symbolCleaner>>
      <3>1. Untouched(p) /\ SameCleaners(p)
        BY <1>5, <2>2 DEF DeleteRows, Untouched, RowsOf, PointsOf, SameCleaners
      <3> QED BY <1>2, <2>1, <3>1, KeepExact
    <2>3. CASE /\ edges' = [edges EXCEPT ![p] = [f \in File |-> 0]]
               /\ edgeCleaner' = [edgeCleaner EXCEPT ![p] = "deleted"]
      <3>1. edgeCleaner'[p] = "deleted" /\ \A f \in File : edges'[p][f] = 0
        BY <1>1, <2>3 DEF StoreType, HistoryType
      <3>2. Exact(p)' /\ Attached(p)'
        BY <3>1 DEF Exact, Attached
      <3> QED BY <1>2, <2>1, <3>2 DEF ExactOf, Written
    <2> QED BY <1>5, <2>2, <2>3 DEF DeleteRows
  <1> QED
    BY <1>3, <1>4, <1>5

\* Attempts that fail or are killed.
LEMMA StopExact ==
    ASSUME TypeOK, NEW p \in Project, ExactOf(p),
           (\E w \in Worker : Fail(w) \/ Crash(w)) \/ Recreate
    PROVE  ExactOf(p)'
  <1>1. ProcessType /\ LocalType
    BY DEF TypeOK
  <1>2. Untouched(p)
    BY NoStoreStep DEF stores, Untouched, RowsOf, PointsOf
  <1>3. ASSUME NEW w \in Worker, Fail(w) \/ Crash(w) PROVE ExactOf(p)'
    <2>1. Release(w) /\ Settle({w}, "broken")
      BY <1>3 DEF Fail, Crash
    <2>2. \A v \in Worker \ {w} : Same(v)
      BY <1>1, <2>1 DEF Release, Same, ProcessType, LocalType
    <2>3. pc'[w] = "idle" /\ {w} \in SUBSET Worker
      BY <1>1, <2>1 DEF Release, ProcessType
    <2>4. \A v \in Writers(p)' : v \in Writers(p) \ {w} /\ Same(v)
      BY <2>2, <2>3 DEF Writers, Busy, Target, Same
    <2> QED BY <1>2, <2>1, <2>3, <2>4, EndExact
  <1>4. ASSUME Recreate PROVE ExactOf(p)'
    <2>1. Settle(Worker, "broken") /\ \A v \in Worker : pc'[v] = "idle"
      BY <1>4 DEF Recreate
    <2>2. Writers(p)' = {}
      BY <2>1 DEF Writers, Busy
    <2>3. Worker \in SUBSET Worker /\ \A v \in Writers(p)' : v \in Writers(p) \ Worker /\ Same(v)
      BY <2>2
    <2> QED BY <1>2, <2>1, <2>3, EndExact
  <1> QED
    BY <1>3, <1>4

\* A message is taken, or nothing happens to the stores and to the attempts.
LEMMA StartExact ==
    ASSUME TypeOK, Ledger, NEW p \in Project, ExactOf(p), NEW w \in Worker, Take(w)
    PROVE  ExactOf(p)'
  <1>1. ProcessType /\ LocalType
    BY DEF TypeOK
  <1>2. /\ UNCHANGED <<stores, cleaners, seen, unsent>> /\ pc[w] = "idle" /\ pc'[w] = "load"
        /\ got'[w] = {} /\ \A v \in Worker \ {w} : pc'[v] = pc[v] /\ job'[v] = job[v] /\ got'[v] = got[v]
    BY <1>1 DEF Take, ProcessType, LocalType
  <1>3. Untouched(p) /\ SameCleaners(p)
    BY <1>2 DEF stores, cleaners, Untouched, SameCleaners, RowsOf, PointsOf
  <1>4. \A v \in Worker \ {w} : Same(v) /\ Committed(v)' = Committed(v) /\ Target(v)' = Target(v)
    BY <1>2 DEF Same, Committed, Target
  <1>5. \A v \in Writers(p)' : v = w \/ v \in Writers(p)
    BY <1>2, <1>4 DEF Writers, Busy
  <1>6. Written(p)'
    <2> SUFFICES ASSUME NEW v \in Writers(p)'
                 PROVE  /\ pc'[v] \notin BeforeEdges =>
                             /\ edgeCleaner'[p] = v
                             /\ \A f \in File :
                                  edges'[p][f] = IF f \in got'[v] \ seen'[v] THEN 1 ELSE 0
                        /\ pc'[v] \notin BeforeRows =>
                             symbolCleaner'[p] = v /\ RowsOf(p)' = Committed(v)'
                        /\ pc'[v] \notin BeforePoints =>
                             pointCleaner'[p] = v /\ PointsOf(p)' = got'[v] \ unsent'[v]
      BY DEF Written
    <2>1. CASE v = w
      BY <1>2, <2>1 DEF BeforePoints, BeforeRows, BeforeEdges
    <2>2. CASE v # w
      <3>1. v \in Writers(p) /\ v \in Worker \ {w}
        BY <1>5, <2>2 DEF Writers
      <3> QED BY <1>3, <1>4, <3>1 DEF ExactOf, Written, Same, Untouched, SameCleaners
    <2> QED BY <2>1, <2>2
  <1>7. Exact(p)' /\ Attached(p)'
    BY <1>3 DEF ExactOf, Exact, Attached, Untouched, SameCleaners
  <1> QED
    BY <1>6, <1>7 DEF ExactOf

\* "Two writers have met" is never forgotten.
LEMMA OverlapStays ==
    ASSUME TypeOK, [Next]_vars, NEW p \in Project, ~ overlap'[p]
    PROVE  ~ overlap[p]
  <1>1. ProcessType /\ HistoryType
    BY DEF TypeOK
  <1>2. ASSUME NEW w \in Worker, Take(w) PROVE ~ overlap[p]
    <2>1. PICK q \in Project, b \in BOOLEAN : overlap' = [overlap EXCEPT ![q] = @ \/ b]
      <3>1. PICK m \in queue : overlap' = [overlap EXCEPT ![TaskProject[m[1]]] =
               @ \/ Writers(TaskProject[m[1]]) # {} \/ deleting[TaskProject[m[1]]] # "no"]
        BY <1>2 DEF Take
      <3>2. TaskProject[m[1]] \in Project
        BY ConstantsAssumption DEF ConstantsAssumption, TypeOK, BrokerType, Message
      <3>3. overlap' = [overlap EXCEPT ![TaskProject[m[1]]] =
               @ \/ (Writers(TaskProject[m[1]]) # {} \/ deleting[TaskProject[m[1]]] # "no")]
        BY <1>1, <3>1, <3>2 DEF HistoryType
      <3> QED BY <3>2, <3>3
    <2> QED BY <1>1, <2>1 DEF HistoryType
  <1>3. ASSUME NEW q \in Project, DeletePoints(q) \/ DeleteRows(q) PROVE ~ overlap[p]
    BY <1>1, <1>3 DEF DeletePoints, DeleteRows, HistoryType
  <1>4. UNCHANGED overlap => ~ overlap[p]
    OBVIOUS
  <1>5. /\ \A t \in Task : RequestIndex(t) => UNCHANGED overlap
        /\ \A q \in Project, v \in Version : Push(q, v) => UNCHANGED overlap
        /\ \A w \in Worker : Fail(w) \/ Crash(w) \/ Redeliver(w) => UNCHANGED overlap
        /\ Recreate => UNCHANGED overlap
        /\ UNCHANGED vars => UNCHANGED overlap
    BY DEF RequestIndex, Push, Fail, Crash, Redeliver, Recreate, vars, history
  <1>6. \A w \in Worker : Attempt(w) => UNCHANGED overlap
    BY <1>1, AttemptGoesOn
  <1> QED
    BY <1>2, <1>3, <1>4, <1>5, <1>6 DEF Next

LEMMA ExactStep ==
    ASSUME TypeOK, IndexInv, ExactInv, [Next]_vars
    PROVE  ExactInv'
  <1>1. SoleInv' /\ ModulesLedger'
    BY SoleStep, ModulesStep DEF ExactInv, IndexInv
  <1>2. Ledger /\ ModulesLedger
    BY DEF ExactInv, IndexInv
  <1>3. ASSUME NEW p \in Project, UniqueRepo(p), ~ overlap'[p] PROVE ExactOf(p)'
    <2>1. ExactOf(p) /\ Sole(p)
      BY <1>3, OverlapStays DEF ExactInv, ExactOf, SoleInv
    <2>2. ASSUME NEW w \in Worker, Attempt(w) PROVE ExactOf(p)'
      BY <1>2, <1>3, <2>1, <2>2, OwnAttempt, ForeignExact
    <2>3. ASSUME UNCHANGED <<stores, cleaners, pc, job, local>> PROVE ExactOf(p)'
      <3>1. Untouched(p) /\ SameCleaners(p) /\ Writers(p)' = Writers(p)
        BY <2>3 DEF stores, cleaners, Untouched, SameCleaners, RowsOf, PointsOf, Writers, Busy, Target
      <3>2. \A v \in Worker : Same(v)
        BY <2>3 DEF Same, local
      <3>3. \A v \in Writers(p)' : v \in Writers(p) /\ Same(v)
        BY <3>1, <3>2 DEF Writers
      <3> QED BY <2>1, <3>1, <3>3, KeepExact
    <2>4. /\ \A t \in Task : RequestIndex(t) => UNCHANGED <<stores, cleaners, pc, job, local>>
          /\ \A q \in Project, v \in Version :
                Push(q, v) => UNCHANGED <<stores, cleaners, pc, job, local>>
          /\ \A w \in Worker : Redeliver(w) => UNCHANGED <<stores, cleaners, pc, job, local>>
          /\ UNCHANGED vars => UNCHANGED <<stores, cleaners, pc, job, local>>
      BY DEF RequestIndex, Push, Redeliver, vars, history
    <2>5. ASSUME NEW q \in Project, DeletePoints(q) \/ DeleteRows(q) PROVE ExactOf(p)'
      BY <1>3, <2>1, <2>5, DeleteExact
    <2>6. ASSUME NEW w \in Worker, Take(w) PROVE ExactOf(p)'
      BY <1>2, <2>1, <2>6, StartExact
    <2>7. (\E w \in Worker : Fail(w) \/ Crash(w)) \/ Recreate => ExactOf(p)'
      BY <2>1, StopExact
    <2> QED
      BY <2>2, <2>3, <2>4, <2>5, <2>6, <2>7 DEF Next
  <1> QED
    BY <1>1, <1>3 DEF ExactInv, ExactOf

LEMMA ExactHolds == Spec => []ExactInv
<1>1. Init => ExactInv
  <2> SUFFICES ASSUME Init PROVE ExactInv
    OBVIOUS
  <2>1. \A p \in Project : Writers(p) = {} /\ RowsOf(p) = {} /\ edgeCleaner[p] = "none"
    BY ConstantsAssumption, IdType DEF Init, Writers, Busy, RowsOf, ConstantsAssumption
  <2>2. SoleInv /\ ModulesLedger
    BY <2>1 DEF Init, SoleInv, Sole, ModulesLedger
  <2>3. \A p \in Project : Written(p) /\ Exact(p)
    BY <2>1 DEF Written, Exact
  <2>4. \A p \in Project : Attached(p)
    BY DEF Init, Attached
  <2> QED
    BY <2>2, <2>3, <2>4 DEF ExactInv
<1>2. TypeOK /\ IndexInv /\ ExactInv /\ [Next]_vars => ExactInv'
  BY ExactStep
<1> QED
  BY <1>1, <1>2, TypeCorrect, IndexInductive, PTL DEF Spec

\* After a complete run that met no other writer the three stores hold exactly one commit,
\* each edge once, for any number of jobs, retries and crashes before it.
THEOREM IndexIsExact == Spec => []ExactIndex
<1>1. ExactInv => ExactIndex
  BY DEF ExactInv, Exact, ExactIndex
<1> QED
  BY <1>1, ExactHolds, PTL

\* Wherever an attempt that met no other writer is interrupted, no edge is left without its
\* symbols, and none is stored twice.
THEOREM EdgesAreAttached == Spec => []NoDanglingEdges
<1>1. ExactInv => NoDanglingEdges
  BY DEF ExactInv, Attached, NoDanglingEdges
<1> QED
  BY <1>1, ExactHolds, PTL
-----------------------------------------------------------------------------
(* Deletion. *)

\* The collection of a project after a step on the points of project q.
LEMMA TablePoints ==
    ASSUME NEW p \in Project, NEW q \in Project, NEW F, NEW t, NEW i \in Id, t[i] # p
    PROVE  Without(t, q)[i] # p /\ (p # q => With(t, q, F)[i] # p)
  BY ConstantsAssumption DEF Without, With, ConstantsAssumption

\* The three ways in which the points change.
LEMMA PointsChange ==
    ASSUME TypeOK, [Next]_vars
    PROVE  \/ UNCHANGED points
           \/ \E q \in Project : points' = [points EXCEPT ![CollectionOf[q]] = Without(@, q)]
           \/ \E w \in Worker : \E batch \in SUBSET File :
                /\ pc[w] = "upsert_points" /\ Target(w) \in Project
                /\ points' = [points EXCEPT ![CollectionOf[Target(w)]] = With(@, Target(w), batch)]
  <1>1. ProcessType /\ LocalType
    BY DEF TypeOK
  <1>2. UNCHANGED stores => UNCHANGED points
    BY DEF stores
  <1>3. ASSUME NEW w \in Worker, Attempt(w)
        PROVE  \/ UNCHANGED points
               \/ \E q \in Project : points' = [points EXCEPT ![CollectionOf[q]] = Without(@, q)]
               \/ \E batch \in SUBSET File :
                    /\ pc[w] = "upsert_points" /\ Target(w) \in Project
                    /\ points' = [points EXCEPT ![CollectionOf[Target(w)]] =
                                    With(@, Target(w), batch)]
    <2>1. pc[w] # "idle" /\ Target(w) \in Project
      BY <1>1, <1>3, AttemptGoesOn, TargetType
    <2>2. CASE UpsertPoints(w)
      <3>1. PICK batch \in (SUBSET unsent[w]) \ {{}} :
               /\ pc[w] = "upsert_points"
               /\ points' = [points EXCEPT ![CollectionOf[Target(w)]] = With(@, Target(w), batch)]
        BY <2>2 DEF UpsertPoints, Step
      <3>2. batch \in SUBSET File
        BY <1>1 DEF LocalType
      <3> QED BY <2>1, <3>1, <3>2
    <2>3. CASE DeleteOldPoints(w)
      BY <2>1, <2>3 DEF DeleteOldPoints
    <2>4. CASE LoadProject(w) \/ StartClone(w) \/ FinishClone(w) \/ OpenClone(w)
               \/ DeleteEdges(w) \/ DeleteSymbols(w) \/ DetectModules(w) \/ ParseModule(w)
               \/ UpsertSymbols(w) \/ InsertEdges(w) \/ Finish(w)
      BY <1>2, <2>4 DEF LoadProject, StartClone, FinishClone, OpenClone, DeleteEdges,
         DeleteSymbols, DetectModules, ParseModule, UpsertSymbols, InsertEdges, Finish
    <2> QED BY <1>3, <2>2, <2>3, <2>4 DEF Attempt
  <1>4. ASSUME NEW q \in Project, DeletePoints(q) \/ DeleteRows(q)
        PROVE  \/ UNCHANGED points
               \/ points' = [points EXCEPT ![CollectionOf[q]] = Without(@, q)]
    BY <1>4 DEF DeletePoints, DeleteRows
  <1> QED
    BY <1>2, <1>3, <1>4, NoStoreStep DEF Next

LEMMA AtHomeStep ==
    ASSUME TypeOK, PointsAtHome, [Next]_vars
    PROVE  PointsAtHome'
  <1>1. StoreType /\ \A q \in Project : CollectionOf[q] \in Collection
    BY ConstantsAssumption DEF TypeOK, ConstantsAssumption
  <1> SUFFICES ASSUME NEW p \in Project, NEW c \in Collection, c # CollectionOf[p], NEW i \in Id
               PROVE  points'[c][i] # p
    BY DEF PointsAtHome
  <1> DEFINE t == points[c]
  <1>2. t[i] # p
    BY DEF PointsAtHome
  <1>3. CASE UNCHANGED points
    BY <1>2, <1>3
  <1>4. ASSUME NEW q \in Project, NEW F,
               \/ points' = [points EXCEPT ![CollectionOf[q]] = Without(@, q)]
               \/ points' = [points EXCEPT ![CollectionOf[q]] = With(@, q, F)]
        PROVE  points'[c][i] # p
    <2>1. points'[c] = t \/ points'[c] = Without(t, q) \/ (points'[c] = With(t, q, F) /\ p # q)
      BY <1>1, <1>4 DEF StoreType
    <2> HIDE DEF t
    <2> QED BY <1>2, <2>1, TablePoints
  <1> QED
    BY <1>3, <1>4, PointsChange

\* Once its vectors are deleted nobody but an attempt of its own brings some back.
LEMMA PointlessStep ==
    ASSUME TypeOK, [Next]_vars, NEW p \in Project, Pointless(p),
           \A w \in Writers(p) : pc[w] # "upsert_points"
    PROVE  Pointless(p)'
  <1>1. StoreType /\ \A q \in Project : CollectionOf[q] \in Collection
    BY ConstantsAssumption DEF TypeOK, ConstantsAssumption
  <1> SUFFICES ASSUME NEW i \in Id PROVE points'[CollectionOf[p]][i] # p
    BY DEF Pointless
  <1> DEFINE t == points[CollectionOf[p]]
  <1>2. t[i] # p
    BY DEF Pointless
  <1>3. CASE UNCHANGED points
    BY <1>2, <1>3
  <1>4. ASSUME NEW q \in Project, points' = [points EXCEPT ![CollectionOf[q]] = Without(@, q)]
        PROVE  points'[CollectionOf[p]][i] # p
    <2>1. points'[CollectionOf[p]] = t \/ points'[CollectionOf[p]] = Without(t, q)
      BY <1>1, <1>4 DEF StoreType
    <2> HIDE DEF t
    <2> QED BY <1>2, <2>1, TablePoints
  <1>5. ASSUME NEW w \in Worker, NEW F, pc[w] = "upsert_points", NEW q \in Project, q = Target(w),
               points' = [points EXCEPT ![CollectionOf[q]] = With(@, q, F)]
        PROVE  points'[CollectionOf[p]][i] # p
    <2>1. q # p
      BY <1>5 DEF Writers, Busy
    <2>2. points'[CollectionOf[p]] = t \/ points'[CollectionOf[p]] = With(t, q, F)
      BY <1>1, <1>5 DEF StoreType
    <2> HIDE DEF t
    <2> QED BY <1>2, <2>1, <2>2, TablePoints
  <1> QED
    BY <1>3, <1>4, <1>5, PointsChange

LEMMA CleanStep ==
    ASSUME TypeOK, CleanInv, [Next]_vars
    PROVE  CleanInv'
  <1>1. StoreType /\ ProcessType /\ HistoryType
    BY DEF TypeOK
  <1>2. SoleInv' /\ PointsAtHome'
    BY SoleStep, AtHomeStep DEF CleanInv
  <1>3. ASSUME NEW p \in Project, ~ overlap'[p] PROVE Gone(p)'
    <2>1. Gone(p) /\ Sole(p)
      BY <1>3, OverlapStays DEF CleanInv, SoleInv
    <2>2. p \notin projects \/ deleting[p] = "rows" => \A w \in Writers(p) : pc[w] = "load"
      BY <2>1 DEF Gone, Sole
    <2>3. p \notin projects \/ deleting[p] = "rows" => pointCleaner[p] = "kept" \/ Pointless(p)'
      BY <2>1, <2>2, PointlessStep DEF Gone
    \* A step that neither deletes p nor lets an attempt on p pass get_project.
    <2>4. ASSUME p \notin projects' => p \notin projects, deleting'[p] = deleting[p],
                 p \notin projects => \A w \in Writers(p)' : pc'[w] = "load",
                 pointCleaner'[p] = pointCleaner[p]
                   \/ (pointCleaner[p] = "kept" => \E w \in Writers(p) : pc[w] # "load")
          PROVE  Gone(p)'
      BY <2>2, <2>3, <2>4 DEF Gone
    <2>5. ASSUME NEW w \in Worker, Attempt(w) PROVE Gone(p)'
      <3>1. /\ pc[w] # "idle" /\ UNCHANGED deleting
            /\ \A v \in Worker \ {w} : pc'[v] = pc[v]
            /\ \A v \in Worker : pc'[v] # "idle" => pc[v] # "idle" /\ job'[v] = job[v]
        BY <1>1, <2>5, AttemptGoesOn
      <3>2. UNCHANGED projects
        BY <2>5 DEF Attempt, LoadProject, StartClone, FinishClone, OpenClone, DeleteEdges,
           DeleteSymbols, DeleteOldPoints, DetectModules, ParseModule, UpsertSymbols,
           UpsertPoints, InsertEdges, Finish, stores
      <3>3. pc[w] = "load" => Target(w) \in projects
        BY <2>5 DEF Attempt, LoadProject, StartClone, FinishClone, OpenClone, DeleteEdges,
           DeleteSymbols, DeleteOldPoints, DetectModules, ParseModule, UpsertSymbols,
           UpsertPoints, InsertEdges, Finish, Step
      <3>4. p \notin projects => w \notin Writers(p)
        BY <2>2, <3>3 DEF Writers
      <3>5. Writers(p)' \subseteq Writers(p)
        BY <3>1, FewerWriters
      <3>6. p \notin projects => \A v \in Writers(p)' : pc'[v] = "load"
        BY <2>2, <3>1, <3>4, <3>5 DEF Writers
      <3>7. \/ pointCleaner'[p] = pointCleaner[p]
            \/ pointCleaner[p] = "kept" => \E v \in Writers(p) : pc[v] # "load"
        <4>1. CASE Finish(w)
          <5>1. "kept" # w
            BY ConstantsAssumption DEF ConstantsAssumption
          <5> QED BY <4>1, <5>1 DEF Finish, Settle, Settled
        <4>2. CASE DeleteOldPoints(w)
          BY <1>1, <4>2, <3>1 DEF DeleteOldPoints, Step, Writers, Busy, HistoryType
        <4>3. CASE ~ Finish(w) /\ ~ DeleteOldPoints(w)
          BY <2>5, <4>3 DEF Attempt, LoadProject, StartClone, FinishClone, OpenClone, DeleteEdges,
             DeleteSymbols, DetectModules, ParseModule, UpsertSymbols, UpsertPoints, InsertEdges,
             cleaners
        <4> QED BY <4>1, <4>2, <4>3
      <3> QED BY <2>4, <3>1, <3>2, <3>6, <3>7
    <2>6. ASSUME UNCHANGED <<projects, pc, job, deleting, pointCleaner>> PROVE Gone(p)'
      BY <2>2, <2>4, <2>6 DEF Writers, Busy, Target
    <2>7. ASSUME NEW q \in Project, DeletePoints(q) PROVE Gone(p)'
      <3>1. CASE q = p
        <4>1. Writers(p) = {} /\ Writers(p)' = Writers(p)
          BY <1>1, <1>3, <2>7, <3>1 DEF DeletePoints, HistoryType, Writers, Busy, Target
        <4>2. pointCleaner'[p] = "kept" \/ Pointless(p)'
          <5>1. CASE points' = [points EXCEPT ![CollectionOf[p]] = Without(@, p)]
            <6>1. points'[CollectionOf[p]] = Without(points[CollectionOf[p]], p)
              BY <1>1, <5>1, ConstantsAssumption DEF StoreType, ConstantsAssumption
            <6> QED BY <6>1, ConstantsAssumption DEF Pointless, Without, ConstantsAssumption
          <5>2. CASE pointCleaner' = [pointCleaner EXCEPT ![p] = "kept"]
            BY <1>1, <5>2 DEF HistoryType
          <5> QED BY <2>7, <3>1, <5>1, <5>2 DEF DeletePoints
        <4> QED BY <4>1, <4>2 DEF Gone
      <3>2. CASE q # p
        <4>1. /\ deleting'[p] = deleting[p] /\ pointCleaner'[p] = pointCleaner[p]
              /\ UNCHANGED <<projects, pc, job>>
          BY <1>1, <2>7, <3>2 DEF DeletePoints, HistoryType
        <4> QED BY <2>2, <2>4, <4>1 DEF Writers, Busy, Target
      <3> QED BY <3>1, <3>2
    <2>8. ASSUME NEW q \in Project, DeleteRows(q) PROVE Gone(p)'
      <3>1. UNCHANGED <<pc, job, points, pointCleaner>> /\ Writers(p)' = Writers(p)
        BY <2>8 DEF DeleteRows, Writers, Busy, Target
      <3>2. CASE q = p
        <4>1. deleting[p] = "rows" /\ Writers(p) = {}
          BY <2>1, <2>8, <3>2 DEF DeleteRows, Sole
        <4> QED BY <2>3, <3>1, <4>1 DEF Gone
      <3>3. CASE q # p
        <4>1. deleting'[p] = deleting[p] /\ (p \notin projects' => p \notin projects)
          BY <1>1, <2>8, <3>3 DEF DeleteRows, HistoryType
        <4> QED BY <2>2, <2>4, <3>1, <4>1
      <3> QED BY <3>2, <3>3
    <2>9. ASSUME NEW w \in Worker, Take(w) PROVE Gone(p)'
      <3>1. /\ UNCHANGED <<projects, deleting, pointCleaner>> /\ pc[w] = "idle" /\ pc'[w] = "load"
            /\ \A v \in Worker \ {w} : pc'[v] = pc[v] /\ job'[v] = job[v]
        BY <1>1, <2>9 DEF Take, stores, cleaners, ProcessType
      <3>2. \A v \in Writers(p)' : v = w \/ v \in Writers(p)
        BY <3>1 DEF Writers, Busy, Target
      <3>3. \A v \in Writers(p)' : v \in Worker
        BY DEF Writers
      <3> QED BY <2>2, <2>4, <3>1, <3>2, <3>3
    <2>10. ASSUME (\E w \in Worker : Fail(w) \/ Crash(w)) \/ Recreate PROVE Gone(p)'
      <3>1. /\ UNCHANGED deleting
            /\ \A v \in Worker : pc'[v] # "idle" => pc[v] # "idle" /\ job'[v] = job[v]
        BY <1>1, <2>10, EndsGoOn
      <3>2. UNCHANGED projects /\ \A v \in Worker : pc'[v] \in {pc[v], "idle"}
        BY <1>1, <2>10 DEF Fail, Crash, Release, Recreate, stores, ProcessType
      <3>3. "kept" \notin Worker /\ (pointCleaner[p] = "kept" => pointCleaner'[p] = "kept")
        BY <2>10, ConstantsAssumption DEF Fail, Crash, Recreate, Settle, Settled,
           ConstantsAssumption
      <3>4. Writers(p)' \subseteq Writers(p) /\ \A v \in Writers(p)' : pc'[v] = pc[v]
        BY <3>1, <3>2, FewerWriters DEF Writers, Busy
      <3> QED BY <2>2, <2>4, <3>1, <3>2, <3>3, <3>4
    <2>11. /\ \A t \in Task : RequestIndex(t) =>
                 UNCHANGED <<projects, pc, job, deleting, pointCleaner>>
           /\ \A q \in Project, v \in Version :
                 Push(q, v) => UNCHANGED <<projects, pc, job, deleting, pointCleaner>>
           /\ \A w \in Worker :
                 Redeliver(w) => UNCHANGED <<projects, pc, job, deleting, pointCleaner>>
           /\ UNCHANGED vars => UNCHANGED <<projects, pc, job, deleting, pointCleaner>>
      BY DEF RequestIndex, Push, Redeliver, vars, history, stores, cleaners
    <2> QED
      BY <2>5, <2>6, <2>7, <2>8, <2>9, <2>10, <2>11 DEF Next
  <1> QED
    BY <1>2, <1>3 DEF CleanInv

\* A deletion that reached the vector store and met no attempt leaves no vectors, and none of
\* the jobs that were queued, retried or redelivered brings them back.
THEOREM DeletionIsClean == Spec => []CleanDelete
<1>1. Init => CleanInv
  <2> SUFFICES ASSUME Init PROVE CleanInv
    OBVIOUS
  <2>1. \A p \in Project : Writers(p) = {} /\ deleting[p] = "no" /\ p \in projects
    BY DEF Init, Writers, Busy
  <2>2. PointsAtHome
    BY ConstantsAssumption DEF Init, PointsAtHome, ConstantsAssumption
  <2> QED
    BY <2>1, <2>2 DEF CleanInv, SoleInv, Sole, Gone
<1>2. TypeOK /\ CleanInv /\ [Next]_vars => CleanInv'
  BY CleanStep
<1>3. CleanInv => CleanDelete
  BY DEF CleanInv, Gone, Pointless, PointsAtHome, CleanDelete
<1> QED
  BY <1>1, <1>2, <1>3, TypeCorrect, PTL DEF Spec
=============================================================================
