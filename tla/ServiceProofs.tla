---------------------------- MODULE ServiceProofs ----------------------------
(***************************************************************************)
(* The service implements the scheduler's specification, for any number of *)
(* sarcophagi, connections, failures, restarts and pending handlers.       *)
(*                                                                         *)
(* A step of the service that touches the jobs does so by an action of     *)
(* Scheduler; what has to be shown is that it is one the scheduler allows: *)
(* that the resurrection time comes from an event or from the contract,    *)
(* and that the block timestamp, which the sync keeps over several awaits, *)
(* was a reading of the chain or of the clock.                             *)
(***************************************************************************)
EXTENDS ArchaeologistService, TLAPS

ChainInv ==
    /\ ContractTypeOK
    /\ \A s \in Sarcos : sarco[s].status # "absent" => sarco[s].res \in Times
    /\ \A s \in indexed : sarco[s].status # "absent"

InboxInv == inbox \in [Contexts -> Seq(Event)]

TaskOK(t) ==
    /\ t.block \in Sched!Readings
    /\ t.at \in {"createTime", "createArch", "rewrapTime", "syncArch"} => t.res \in Times
    /\ t.at = "syncSarco" => sarco[t.sarco].status # "absent"

GoodTask(t) == t \in TaskType /\ TaskOK(t)

FetchOK(f) ==
    /\ f \in [at : {"idle", "profile", "query", "page"}, ctx : Contexts, block : Int,
              page : SUBSET Sarcos]
    /\ f.block \in Sched!Readings
    /\ \A s \in f.page : sarco[s].status # "absent"

TaskInv ==
    /\ \A t \in tasks : GoodTask(t)
    /\ FetchOK(fetch)

ServiceInv == ChainInv /\ InboxInv /\ TaskInv

-----------------------------------------------------------------------------
(* Time only moves forward, and readings stay readings. *)
LEMMA ReadingsGrow ==
    ASSUME now \in Nat, now' = now \/ now' = now + 1
    PROVE  Sched!Readings \subseteq Sched!Readings'
  BY ServiceAssumption DEF Sched!Readings, Sched!SystemClock

(* A reading is an integer; zero stands for one not taken yet. *)
LEMMA ReadingsInt == ASSUME now \in Nat PROVE Sched!Readings \subseteq Int /\ 0 \in Sched!Readings
  BY ServiceAssumption DEF Sched!Readings, Sched!SystemClock

(* What getBlockTimestamp returns is one of Scheduler's readings. *)
LEMMA BlockTimestampReads ==
    ASSUME now \in Nat
    PROVE  BlockTimestamp \subseteq Sched!Readings
  BY ServiceAssumption DEF BlockTimestamp, Sched!Readings, Sched!SystemClock

-----------------------------------------------------------------------------
(* Who moves the chain. *)
LEMMA ChainFrame ==
    ASSUME [Next]_vars
    PROVE  \/ UNCHANGED contractVars
           \/ ContractEvent
           \/ SubgraphIndexes
           \/ Tick
           \/ \E r \in runs : RunPublishes(r)
<1> USE DEF contractVars
<1>1. CASE ProcessStep
  BY <1>1 DEF ProcessStep, Connected, DeliverEvent, StoreUnset, ProcessDies, Restart, HandlerStep,
              FetchProfile, QuerySubgraph, FetchSarcophagi, SyncStep, JobFires, PublishStep,
              RunDerivesKey, RunSucceeds, RunFails, RunEnds
<1>2. CASE EnvironmentStep
  BY <1>2 DEF EnvironmentStep, ConnectionClosed, ProviderError, Crash, ProcessDies, RefetchInterval
<1>3. CASE UNCHANGED vars
  BY <1>3 DEF vars
<1> QED BY <1>1, <1>2, <1>3 DEF Next

(* The contract keeps its types, an existing sarcophagus has a resurrection
   time, and only existing ones are indexed. *)
LEMMA ChainStep == ChainInv /\ [Next]_vars => ChainInv'
<1> SUFFICES ASSUME ChainInv, [Next]_vars
             PROVE  ChainInv'
  OBVIOUS
<1> USE DEF ChainInv, ContractTypeOK, Status
<1>1. CASE UNCHANGED contractVars
  BY <1>1 DEF contractVars
<1>2. CASE ContractEvent
  <2>1. PICK s \in Sarcos :
           /\ \/ \E r \in Times : Create(s, r) \/ Rewrap(s, r)
              \/ Bury(s) \/ Accuse(s) \/ Clean(s)
           /\ UNCHANGED now
    BY <1>2 DEF ContractEvent, Announce
  <2>2. CASE \E r \in Times : Create(s, r)
    BY <2>1, <2>2 DEF Create
  <2>3. CASE \E r \in Times : Rewrap(s, r)
    BY <2>1, <2>3 DEF Rewrap
  <2>4. CASE Bury(s)
    BY <2>1, <2>4 DEF Bury, Active
  <2>5. CASE Accuse(s)
    BY <2>1, <2>5 DEF Accuse, Active
  <2>6. CASE Clean(s)
    BY <2>1, <2>6 DEF Clean, Active
  <2> QED BY <2>1, <2>2, <2>3, <2>4, <2>5, <2>6
<1>3. CASE SubgraphIndexes
  BY <1>3 DEF SubgraphIndexes, Index
<1>4. CASE Tick
  BY <1>4 DEF Tick
<1>5. ASSUME NEW r \in runs, RunPublishes(r)
      PROVE  ChainInv'
  <2>1. sarco' = [sarco EXCEPT ![r.sarco].published = TRUE] /\ UNCHANGED <<now, indexed>>
    BY <1>5 DEF RunPublishes, Publish
  <2>2. CASE r.sarco \in Sarcos
    BY <2>1, <2>2
  <2>3. CASE r.sarco \notin Sarcos
    <3>1. sarco' = sarco
      BY <2>1, <2>3
    <3> QED BY <2>1, <3>1
  <2> QED BY <2>2, <2>3
<1> QED BY <1>1, <1>2, <1>3, <1>4, <1>5, ChainFrame

(* A sarcophagus that exists keeps existing, and time moves by single ticks. *)
LEMMA ChainMonotone ==
    ASSUME ChainInv, [Next]_vars
    PROVE  /\ now' = now \/ now' = now + 1
           /\ \A s \in Sarcos : sarco[s].status # "absent" => sarco'[s].status # "absent"
<1> USE DEF ChainInv, ContractTypeOK, Status
<1>1. CASE UNCHANGED contractVars
  BY <1>1 DEF contractVars
<1>2. CASE ContractEvent
  <2>1. PICK s \in Sarcos :
           /\ \/ \E r \in Times : Create(s, r) \/ Rewrap(s, r)
              \/ Bury(s) \/ Accuse(s) \/ Clean(s)
           /\ UNCHANGED now
    BY <1>2 DEF ContractEvent, Announce
  <2>2. CASE \E r \in Times : Create(s, r)
    BY <2>1, <2>2 DEF Create
  <2>3. CASE \E r \in Times : Rewrap(s, r)
    BY <2>1, <2>3 DEF Rewrap
  <2>4. CASE Bury(s)
    BY <2>1, <2>4 DEF Bury
  <2>5. CASE Accuse(s)
    BY <2>1, <2>5 DEF Accuse
  <2>6. CASE Clean(s)
    BY <2>1, <2>6 DEF Clean
  <2> QED BY <2>1, <2>2, <2>3, <2>4, <2>5, <2>6
<1>3. CASE SubgraphIndexes
  BY <1>3 DEF SubgraphIndexes, Index
<1>4. CASE Tick
  BY <1>4 DEF Tick
<1>5. ASSUME NEW r \in runs, RunPublishes(r)
      PROVE  /\ now' = now \/ now' = now + 1
             /\ \A s \in Sarcos : sarco[s].status # "absent" => sarco'[s].status # "absent"
  BY <1>5 DEF RunPublishes, Publish
<1> QED BY <1>1, <1>2, <1>3, <1>4, <1>5, ChainFrame

-----------------------------------------------------------------------------
(* Events carry what the contract announced. *)
LEMMA InboxStep == InboxInv /\ [Next]_vars => InboxInv'
<1> SUFFICES ASSUME InboxInv, [Next]_vars
             PROVE  InboxInv'
  OBVIOUS
<1> USE DEF InboxInv
<1>1. CASE UNCHANGED inbox
  BY <1>1
<1>2. ASSUME NEW kind, NEW s \in Sarcos, NEW r, Announce(kind, s, r),
             [kind |-> kind, sarco |-> s, res |-> r] \in Event
      PROVE  InboxInv'
  BY <1>2 DEF Announce
<1>3. CASE ContractEvent
  BY <1>2, <1>3 DEF ContractEvent, Event
<1>4. ASSUME NEW c \in Contexts, DeliverEvent(c)
      PROVE  InboxInv'
  BY <1>4 DEF DeliverEvent
<1>5. CASE inbox' = [c \in Contexts |-> <<>>]
  BY <1>5
<1>6. ASSUME NEW c \in Contexts, inbox' = [inbox EXCEPT ![c] = <<>>]
      PROVE  InboxInv'
  BY <1>6
<1>7. CASE ProcessStep
  BY <1>1, <1>4, <1>5, <1>7
     DEF ProcessStep, Connected, StoreUnset, ProcessDies, Restart, HandlerStep, linkVars,
         FetchProfile, QuerySubgraph, FetchSarcophagi, SyncStep, JobFires, PublishStep
<1>8. CASE EnvironmentStep
  BY <1>1, <1>3, <1>5, <1>6, <1>8
     DEF EnvironmentStep, SubgraphIndexes, ConnectionClosed, ProviderError, Crash, ProcessDies,
         RefetchInterval, linkVars
<1>9. CASE Tick \/ UNCHANGED vars
  BY <1>1, <1>9 DEF Tick, vars, linkVars
<1> QED BY <1>7, <1>8, <1>9 DEF Next

-----------------------------------------------------------------------------
(* Pending handlers and the sync in flight. *)

(* Unlinking a sync callback from the store's array changes nothing it acts on. *)
LEMMA UnlinkedTasks ==
    ASSUME NEW T, \A t \in T : GoodTask(t)
    PROVE  \A t \in Unlinked(T) : GoodTask(t)
<1> SUFFICES ASSUME NEW t \in T
             PROVE  GoodTask([t EXCEPT !.linked = FALSE])
  BY DEF Unlinked
<1>1. t \in TaskType /\ TaskOK(t)
  BY DEF GoodTask
<1> QED BY <1>1 DEF GoodTask, TaskType, TaskOK

(* The sync before it has read anything. *)
LEMMA FirstFetchOK == ASSUME now \in Nat PROVE FetchOK(FirstFetch) /\ FetchOK(NoFetch)
  BY ReadingsInt, ServiceAssumption DEF FetchOK, FirstFetch, NoFetch, Contexts

(* What was right before a step is right after it. *)
LEMMA TasksStayGood ==
    ASSUME ChainInv, [Next]_vars
    PROVE  /\ \A t : GoodTask(t) => GoodTask(t)'
           /\ \A f : FetchOK(f) => FetchOK(f)'
<1>1. Sched!Readings \subseteq Sched!Readings'
  BY ChainMonotone, ReadingsGrow DEF ChainInv, ContractTypeOK
<1>2. \A s \in Sarcos : sarco[s].status # "absent" => sarco'[s].status # "absent"
  BY ChainMonotone
<1>3. ASSUME NEW t, GoodTask(t)
      PROVE  GoodTask(t)'
  <2>1. t.sarco \in Sarcos
    BY <1>3 DEF GoodTask, TaskType
  <2> QED BY <1>1, <1>2, <1>3, <2>1 DEF GoodTask, TaskOK
<1>4. ASSUME NEW f, FetchOK(f)
      PROVE  FetchOK(f)'
  BY <1>1, <1>2, <1>4 DEF FetchOK
<1> QED BY <1>3, <1>4

(* What a handler remembers when it starts to wait comes from its event. *)
LEMMA DeliveredTasks ==
    ASSUME ChainInv, InboxInv, \A t \in tasks : GoodTask(t),
           NEW c \in Contexts, DeliverEvent(c)
    PROVE  \A t \in tasks' : GoodTask(t)
<1> DEFINE e == Head(inbox[c])
<1>1. e \in Event
  BY DEF DeliverEvent, InboxInv
<1>2. 0 \in Sched!Readings
  BY ReadingsInt DEF ChainInv, ContractTypeOK
<1>3. ASSUME NEW at \in {"createTime", "rewrapTime"}, e.kind \in {"create", "rewrap"}
      PROVE  GoodTask(Task(at, e.sarco, c, e.res, 0))
  BY <1>1, <1>2, <1>3 DEF Event, Task, GoodTask, TaskOK, TaskType
<1>4. GoodTask(Task("accuseRead", e.sarco, c, 0, 0))
  BY <1>1, <1>2 DEF Event, Task, GoodTask, TaskOK, TaskType
<1>5. CASE CreateSarcoHandler(c, e)
  BY <1>3, <1>5 DEF CreateSarcoHandler
<1>6. CASE IgnoredEvent(e)
  BY <1>6 DEF IgnoredEvent
<1>7. CASE RewrapHandler(c, e)
  BY <1>3, <1>7 DEF RewrapHandler
<1>8. CASE RemoveHandler(e)
  BY <1>8, UnlinkedTasks DEF RemoveHandler
<1>9. CASE AccuseHandler(c, e)
  BY <1>4, <1>9 DEF AccuseHandler
<1> QED BY <1>5, <1>6, <1>7, <1>8, <1>9 DEF DeliverEvent

(* The create handler goes on with the resurrection time of its event. *)
LEMMA HandledTasks ==
    ASSUME \A t \in tasks : GoodTask(t), HandlerStep
    PROVE  \A t \in tasks' : GoodTask(t)
<1>1. PICK t \in tasks : CreateTime(t) \/ CreateArch(t) \/ RewrapTime(t) \/ AccuseRead(t)
  BY DEF HandlerStep
<1>2. CASE CreateTime(t)
  <2>1. GoodTask([t EXCEPT !.at = "createArch"])
    BY <1>2 DEF CreateTime, GoodTask, TaskOK, TaskType
  <2> QED BY <1>2, <2>1 DEF CreateTime
<1>3. CASE CreateArch(t)
  BY <1>3 DEF CreateArch
<1>4. CASE RewrapTime(t)
  BY <1>4 DEF RewrapTime
<1>5. CASE AccuseRead(t)
  <2>1. \A u \in Unlinked(tasks \ {t}) : GoodTask(u)
    BY UnlinkedTasks
  <2> QED BY <1>5, <2>1 DEF AccuseRead
<1> QED BY <1>1, <1>2, <1>3, <1>4, <1>5

(* The sync's callbacks are about sarcophagi the subgraph returned, which exist. *)
LEMMA FetchedTasks ==
    ASSUME \A t \in tasks : GoodTask(t), FetchOK(fetch),
           NEW P \in SUBSET fetch.page, Fetched(P)
    PROVE  \A t \in tasks' : GoodTask(t)
<1>1. tasks' = Unlinked(tasks) \cup
                 {Task("syncSarco", s, fetch.ctx, 0, fetch.block) : s \in P \ dead}
  BY DEF Fetched
<1>2. ASSUME NEW s \in P
      PROVE  GoodTask(Task("syncSarco", s, fetch.ctx, 0, fetch.block))
  <2>1. s \in Sarcos /\ sarco[s].status # "absent"
    BY DEF FetchOK
  <2> QED BY <2>1 DEF FetchOK, Task, GoodTask, TaskOK, TaskType
<1> QED BY <1>1, <1>2, UnlinkedTasks

(* The page holds only what exists. *)
LEMMA PageOK ==
    ASSUME ChainInv, FetchOK(fetch), NEW P \in SUBSET indexed
    PROVE  FetchOK([fetch EXCEPT !.at = "page", !.page = P])
BY DEF ChainInv, ContractTypeOK, FetchOK

(* A sync callback goes on with the resurrection time the contract answered. *)
LEMMA SyncedTasks ==
    ASSUME ChainInv, \A t \in tasks : GoodTask(t), SyncStep
    PROVE  \A t \in tasks' : GoodTask(t)
<1>1. PICK t \in tasks : SyncSarco(t) \/ SyncArch(t) \/ SyncFails(t)
  BY DEF SyncStep
<1>2. CASE SyncSarco(t)
  <2> DEFINE u == [t EXCEPT !.at = "syncArch", !.res = sarco[t.sarco].res]
  <2>1. t \in TaskType /\ TaskOK(t) /\ t.at = "syncSarco"
    BY <1>2 DEF SyncSarco, GoodTask
  <2>2. sarco[t.sarco].res \in Times
    BY <2>1 DEF ChainInv, TaskOK, TaskType
  <2>3. GoodTask(u)
    BY <2>1, <2>2 DEF GoodTask, TaskOK, TaskType
  <2> QED BY <1>2, <2>3 DEF SyncSarco
<1>3. CASE SyncArch(t)
  BY <1>3 DEF SyncArch
<1>4. CASE SyncFails(t)
  BY <1>4 DEF SyncFails
<1> QED BY <1>1, <1>2, <1>3, <1>4

(* One case per action that changes what is pending. *)
LEMMA TaskStep == ServiceInv /\ [Next]_vars => TaskInv'
<1> SUFFICES ASSUME ServiceInv, [Next]_vars
             PROVE  TaskInv'
  OBVIOUS
<1> USE DEF ServiceInv, TaskInv
<1>1. ASSUME \A t \in tasks' : GoodTask(t), FetchOK(fetch')
      PROVE  TaskInv'
  BY <1>1, TasksStayGood
<1>2. FetchOK(FirstFetch) /\ FetchOK(NoFetch)
  BY FirstFetchOK DEF ChainInv, ContractTypeOK
<1>3. ASSUME NEW c \in Contexts, DeliverEvent(c)
      PROVE  TaskInv'
  BY <1>1, <1>3, DeliveredTasks DEF DeliverEvent
<1>4. CASE HandlerStep
  BY <1>1, <1>4, HandledTasks DEF HandlerStep
<1>5. CASE FetchProfile
  <2>1. PICK b \in BlockTimestamp : fetch' = [fetch EXCEPT !.at = "query", !.block = b]
    BY <1>5 DEF FetchProfile
  <2>2. b \in Sched!Readings /\ b \in Int
    BY BlockTimestampReads, ReadingsInt DEF ChainInv, ContractTypeOK
  <2>3. FetchOK(fetch')
    BY <2>1, <2>2 DEF FetchOK
  <2> QED BY <1>1, <1>5, <2>3 DEF FetchProfile
<1>6. CASE QuerySubgraph \/ FetchSarcophagi
  <2>1. ASSUME NEW P \in SUBSET fetch.page, Fetched(P)
        PROVE  TaskInv'
    BY <1>1, <1>2, <2>1, FetchedTasks DEF Fetched
  <2>2. ASSUME NEW P \in SUBSET indexed, tasks' = tasks,
               fetch' \in {[fetch EXCEPT !.at = "page", !.page = P], NoFetch}
        PROVE  TaskInv'
    BY <1>1, <1>2, <2>2, PageOK
  <2> QED BY <1>6, <2>1, <2>2 DEF QuerySubgraph, FetchSarcophagi
<1>7. CASE SyncStep
  BY <1>1, <1>7, SyncedTasks DEF SyncStep
<1>8. CASE PublishStep
  <2>1. fetch' = fetch /\ (tasks' = tasks \/ tasks' = Unlinked(tasks))
    BY <1>8 DEF PublishStep, RunDerivesKey, RunPublishes, RunSucceeds, RunFails
  <2> QED BY <1>1, <2>1, UnlinkedTasks
<1>9. ASSUME NEW c \in Contexts, ConnectionClosed(c)
      PROVE  TaskInv'
  BY <1>1, <1>2, <1>9 DEF ConnectionClosed
<1>10. CASE tasks' = {} /\ fetch' = NoFetch
  BY <1>1, <1>2, <1>10
<1>11. CASE tasks' = tasks /\ fetch' \in {fetch, FirstFetch}
  BY <1>1, <1>2, <1>11
<1>12. CASE ProcessStep
  BY <1>3, <1>4, <1>5, <1>6, <1>7, <1>8, <1>10, <1>11, <1>12
     DEF ProcessStep, Connected, StoreUnset, ProcessDies, Restart, JobFires
<1>13. CASE EnvironmentStep
  BY <1>9, <1>10, <1>11, <1>13
     DEF EnvironmentStep, ContractEvent, Announce, SubgraphIndexes, ProviderError, Crash,
         ProcessDies, RefetchInterval
<1>14. CASE Tick \/ UNCHANGED vars
  BY <1>11, <1>14 DEF Tick, vars
<1> QED BY <1>12, <1>13, <1>14 DEF Next

(* The process starts with nothing pending but the sync. *)
LEMMA ServiceInvInit == Init => ServiceInv
<1> SUFFICES ASSUME Init
             PROVE  ServiceInv
  OBVIOUS
<1>1. ChainInv
  BY DEF Init, ContractInit, ChainInv, ContractTypeOK, Status
<1>2. InboxInv
  BY DEF Init, InboxInv
<1>3. TaskInv
  BY <1>1, FirstFetchOK DEF Init, TaskInv, ChainInv, ContractTypeOK
<1> QED BY <1>1, <1>2, <1>3 DEF ServiceInv

(* The inductive invariant holds in every state. *)
LEMMA ServiceInvariant == Spec => []ServiceInv
<1>1. ServiceInv /\ [Next]_vars => ServiceInv'
  BY ChainStep, InboxStep, TaskStep DEF ServiceInv
<1> QED BY <1>1, ServiceInvInit, PTL DEF Spec

-----------------------------------------------------------------------------
(* Every step of the service is a step of the scheduler, or leaves the jobs
   and the clock alone. *)

SchedStep == [Sched!Next]_(Sched!vars)

(* Handlers schedule from their event and a fresh reading. *)
LEMMA HandlerMaps ==
    ASSUME ServiceInv, HandlerStep
    PROVE  SchedStep
<1>1. PICK t \in tasks : CreateTime(t) \/ CreateArch(t) \/ RewrapTime(t) \/ AccuseRead(t)
  BY DEF HandlerStep
<1>2. now' = now
  BY DEF HandlerStep, contractVars
<1>3. t \in TaskType /\ TaskOK(t)
  BY DEF ServiceInv, TaskInv, GoodTask
<1>4. ASSUME CreateTime(t) \/ RewrapTime(t)
      PROVE  SchedStep
  <2>1. PICK b \in BlockTimestamp : Sched!SchedulePublish(t.sarco, b, t.res, t.ctx)
    BY <1>4 DEF CreateTime, RewrapTime
  <2>2. b \in Sched!Readings
    BY BlockTimestampReads DEF ServiceInv, ChainInv, ContractTypeOK
  <2>3. t.sarco \in Sarcos /\ t.res \in Times /\ t.ctx \in Contexts
    BY <1>3, <1>4 DEF TaskType, TaskOK, CreateTime, RewrapTime
  <2> QED BY <1>2, <2>1, <2>2, <2>3 DEF SchedStep, Sched!Next, Sched!Step
<1>5. CASE CreateArch(t)
  BY <1>2, <1>5 DEF CreateArch, jobVars, SchedStep, Sched!vars
<1>6. CASE AccuseRead(t)
  <2>1. t.sarco \in Sarcos
    BY <1>3 DEF TaskType
  <2> QED BY <1>2, <1>6, <2>1 DEF AccuseRead, jobVars, SchedStep, Sched!Next, Sched!Step, Sched!vars
<1> QED BY <1>1, <1>4, <1>5, <1>6

(* The sync schedules from the contract's answer and the reading it kept. *)
LEMMA SyncMaps ==
    ASSUME ServiceInv, SyncStep
    PROVE  SchedStep
<1>1. PICK t \in tasks : SyncSarco(t) \/ SyncArch(t) \/ SyncFails(t)
  BY DEF SyncStep
<1>2. now' = now
  BY DEF SyncStep, contractVars
<1>3. CASE UNCHANGED jobVars
  BY <1>2, <1>3 DEF jobVars, SchedStep, Sched!vars
<1>4. ASSUME SyncArch(t), Sched!SchedulePublish(t.sarco, t.block, t.res, t.ctx)
      PROVE  SchedStep
  <2>1. /\ t.sarco \in Sarcos /\ t.res \in Times /\ t.ctx \in Contexts
        /\ t.block \in Sched!Readings
    BY <1>4 DEF SyncArch, ServiceInv, TaskInv, GoodTask, TaskType, TaskOK
  <2> QED BY <1>2, <1>4, <2>1 DEF SchedStep, Sched!Next, Sched!Step
<1> QED BY <1>1, <1>3, <1>4 DEF SyncSarco, SyncArch, SyncFails

(* A publication starts and ends as the scheduler says. *)
LEMMA PublishMaps ==
    ASSUME JobFires \/ PublishStep
    PROVE  SchedStep
<1>1. CASE JobFires
  BY <1>1 DEF JobFires, contractVars, SchedStep, Sched!Next, Sched!Step
<1>2. CASE PublishStep
  <2>1. PICK r \in runs : RunDerivesKey(r) \/ RunPublishes(r) \/ RunSucceeds(r) \/ RunFails(r)
    BY <1>2 DEF PublishStep
  <2>2. CASE RunDerivesKey(r) \/ RunPublishes(r)
    BY <2>2 DEF RunDerivesKey, RunPublishes, contractVars, jobVars, SchedStep, Sched!vars
  <2>3. CASE RunSucceeds(r) \/ RunFails(r)
    BY <2>3 DEF RunSucceeds, RunFails, RunEnds, contractVars, SchedStep, Sched!Next, Sched!Step
  <2> QED BY <2>1, <2>2, <2>3
<1> QED BY <1>1, <1>2

(* All steps. *)
LEMMA StepMaps == ServiceInv /\ [Next]_vars => SchedStep
<1> SUFFICES ASSUME ServiceInv, [Next]_vars
             PROVE  SchedStep
  OBVIOUS
<1>1. CASE UNCHANGED <<now, jobVars>>
  BY <1>1 DEF jobVars, SchedStep, Sched!vars
<1>2. CASE ProcessDies
  BY <1>2 DEF ProcessDies, contractVars, SchedStep, Sched!Next, Sched!Step
<1>3. CASE Tick
  <2>1. now \in Nat
    BY DEF ServiceInv, ChainInv, ContractTypeOK
  <2>2. Sched!Tick
    BY <1>3, <2>1 DEF Tick, jobVars, Sched!Tick
  <2> QED BY <2>2 DEF SchedStep, Sched!Next
<1>4. CASE ProcessStep
  BY <1>1, <1>2, <1>4, HandlerMaps, SyncMaps, PublishMaps
     DEF ProcessStep, Connected, DeliverEvent, StoreUnset, Restart, FetchProfile,
         QuerySubgraph, FetchSarcophagi, contractVars
<1>5. CASE EnvironmentStep
  BY <1>1, <1>2, <1>5
     DEF EnvironmentStep, ContractEvent, Announce, SubgraphIndexes, ConnectionClosed,
         ProviderError, Crash, RefetchInterval, contractVars
<1>6. CASE UNCHANGED vars
  BY <1>1, <1>6 DEF vars, contractVars
<1> QED BY <1>3, <1>4, <1>5, <1>6 DEF Next

(* The service implements the scheduler: whatever the events, failures,
   reconnections and restarts, it only uses jobs in the ways Scheduler
   allows, so all that is proved of Scheduler holds of the service. *)
THEOREM ServiceRefinesScheduler == Spec => RefinesScheduler
<1>1. Init => Sched!Init
  BY DEF Init, ContractInit, Sched!Init
<1>2. ServiceInv /\ [Next]_vars => [Sched!Next]_(Sched!vars)
  BY StepMaps DEF SchedStep
<1> QED BY <1>1, <1>2, ServiceInvariant, PTL DEF Spec, RefinesScheduler, Sched!Spec

-----------------------------------------------------------------------------
(* The service's constants satisfy what Scheduler assumes of its own, so what
   is proved of Scheduler applies to the instance Sched. *)
LEMMA SchedulerAssumptionHolds ==
    /\ Times \subseteq Nat
    /\ Skew \in Int /\ 0 \in Nat
    /\ Buffer \in Nat \ {0} /\ SoonDelay \in Nat \ {0}
    /\ ("timestamp" \in Faults) \in BOOLEAN
    /\ MaxTime \in Nat
    /\ NoJob \notin [sarco : Sarcos, at : Int, res : Times, ctx : Contexts]
  BY ContractAssumption, ServiceAssumption DEF Contexts

=============================================================================
