------------------------ MODULE ServiceSafetyProofs ------------------------
(***************************************************************************)
(* Invariants of the service for all values of its constants: the types of *)
(* what the process holds, what the scheduler promises of jobs and         *)
(* publications, and that a sarcophagus written off never is one whose key *)
(* is still owed.                                                          *)
(***************************************************************************)
EXTENDS ServiceProofs

(* What ServiceInv leaves out of TypeOK, but for the jobs. *)
ProcessInv ==
    /\ socket \in [Contexts -> {"unused", "connecting", "open", "closed"}]
    /\ up \in BOOLEAN /\ storeSet \in BOOLEAN
    /\ tracked \subseteq Sarcos /\ dead \subseteq Sarcos
    /\ mined \subseteq publishing /\ publishing \subseteq runs
    /\ crashes \in 0..MaxCrashes

TypeInv == ServiceInv /\ Sched!TypeOK /\ ProcessInv

-----------------------------------------------------------------------------
(* The jobs.  What Scheduler's own proof shows of its steps is shown here of
   the instance, whose latest block is the present. *)

(* A scheduled job has an integer date. *)
LEMMA ScheduledJob ==
    ASSUME now \in Nat, NEW b \in Sched!Readings, NEW s \in Sarcos, NEW r \in Times,
           NEW c \in Contexts
    PROVE  [sarco |-> s, at |-> Sched!ScheduledTime(b, r), res |-> r, ctx |-> c] \in Sched!Job
<1>1. b \in Int /\ r \in Int
  BY ReadingsInt, ContractAssumption
<1>2. Sched!ScheduledTime(b, r) \in Int
  BY <1>1, ServiceAssumption DEF Sched!ScheduledTime, Sched!SystemClock
<1> QED BY <1>2 DEF Sched!Job

(* Every step of the scheduler keeps the types of the jobs. *)
LEMMA JobsStep == Sched!TypeOK /\ SchedStep => Sched!TypeOK'
<1> SUFFICES ASSUME Sched!TypeOK, SchedStep
             PROVE  Sched!TypeOK'
  OBVIOUS
<1> USE DEF Sched!TypeOK
<1>1. ASSUME NEW s \in Sarcos, NEW r \in Times, NEW c \in Contexts, NEW b \in Sched!Readings,
             Sched!SchedulePublish(s, b, r, c), now' = now
      PROVE  Sched!TypeOK'
  <2> DEFINE job == [sarco |-> s, at |-> Sched!ScheduledTime(b, r), res |-> r, ctx |-> c]
  <2>1. job \in Sched!Job
    BY ScheduledJob
  <2>2. \/ UNCHANGED <<timers, slot>>
        \/ timers' = Sched!WithoutSlot(s) \cup {job} /\ slot' = [slot EXCEPT ![s] = job]
    BY <1>1 DEF Sched!SchedulePublish
  <2>3. UNCHANGED <<inProcess, runs>>
    BY <1>1 DEF Sched!SchedulePublish
  <2> HIDE DEF job
  <2> QED BY <1>1, <2>1, <2>2, <2>3 DEF Sched!WithoutSlot
<1>2. ASSUME NEW s \in Sarcos, Sched!CancelScheduledPublish(s), now' = now
      PROVE  Sched!TypeOK'
  BY <1>2 DEF Sched!CancelScheduledPublish, Sched!WithoutSlot
<1>3. ASSUME NEW t \in timers, Sched!StartPublish(t), now' = now
      PROVE  Sched!TypeOK'
  BY <1>3 DEF Sched!StartPublish, Sched!Job
<1>4. ASSUME NEW r \in runs, Sched!EndPublish(r), now' = now
      PROVE  Sched!TypeOK'
  BY <1>4 DEF Sched!EndPublish
<1>5. ASSUME Sched!ProcessLost, now' = now
      PROVE  Sched!TypeOK'
  BY <1>5 DEF Sched!ProcessLost
<1>6. CASE Sched!Tick
  BY <1>6 DEF Sched!Tick
<1>7. CASE UNCHANGED Sched!vars
  BY <1>7 DEF Sched!vars
<1> QED BY <1>1, <1>2, <1>3, <1>4, <1>5, <1>6, <1>7 DEF SchedStep, Sched!Next, Sched!Step

-----------------------------------------------------------------------------
(* One publisher per sarcophagus, and no publication before the time its job
   was scheduled for: the invariants of Scheduler's proofs, of the instance. *)

JobInv ==
    /\ \A t \in timers : t = slot[t.sarco]
    /\ \A s \in Sarcos : slot[s] # NoJob => slot[s].sarco = s
    /\ \A t \in timers : t.sarco \notin inProcess
    /\ \A r, q \in runs : r.sarco = q.sarco => r = q
    /\ Sched!InProcessIsRunning

(* A job replaces that of its slot, a firing one leaves none of its sarcophagus
   behind, and none is added while a run is in flight. *)
LEMMA JobInvStep == Sched!TypeOK /\ JobInv /\ SchedStep => JobInv'
<1> SUFFICES ASSUME Sched!TypeOK, JobInv, SchedStep
             PROVE  JobInv'
  OBVIOUS
<1> USE DEF Sched!TypeOK, JobInv, Sched!InProcessIsRunning
<1>1. ASSUME NEW s \in Sarcos, NEW r \in Times, NEW c \in Contexts, NEW b \in Sched!Readings,
             Sched!SchedulePublish(s, b, r, c)
      PROVE  JobInv'
  <2> DEFINE job == [sarco |-> s, at |-> Sched!ScheduledTime(b, r), res |-> r, ctx |-> c]
  <2>1. job.sarco = s
    OBVIOUS
  <2>2. \/ UNCHANGED <<timers, slot>>
        \/ /\ s \notin inProcess
           /\ timers' = (timers \ {slot[s]}) \cup {job}
           /\ slot' = [slot EXCEPT ![s] = job]
    BY <1>1 DEF Sched!SchedulePublish, Sched!WithoutSlot
  <2>3. UNCHANGED <<inProcess, runs>>
    BY <1>1 DEF Sched!SchedulePublish
  <2> HIDE DEF job
  <2>4. (\A t \in timers : t = slot[t.sarco])'
    BY <2>1, <2>2 DEF Sched!Job
  <2>5. (\A u \in Sarcos : slot[u] # NoJob => slot[u].sarco = u)'
    BY <2>1, <2>2
  <2> QED BY <2>1, <2>2, <2>3, <2>4, <2>5
<1>2. ASSUME NEW s \in Sarcos, Sched!CancelScheduledPublish(s)
      PROVE  JobInv'
  BY <1>2 DEF Sched!CancelScheduledPublish, Sched!WithoutSlot
<1>3. ASSUME NEW t \in timers, Sched!StartPublish(t)
      PROVE  JobInv'
  BY <1>3 DEF Sched!StartPublish
<1>4. ASSUME NEW r \in runs, Sched!EndPublish(r)
      PROVE  JobInv'
  BY <1>4 DEF Sched!EndPublish
<1>5. CASE Sched!ProcessLost
  BY <1>5 DEF Sched!ProcessLost
<1>6. CASE Sched!Tick \/ UNCHANGED Sched!vars
  BY <1>6 DEF Sched!Tick, Sched!vars
<1> QED BY <1>1, <1>2, <1>3, <1>4, <1>5, <1>6 DEF SchedStep, Sched!Next, Sched!Step

(* getBlockTimestamp may stand in for the chain with a system clock, which must
   not be ahead then. *)
ClockNotAhead == "timestamp" \in Faults => Skew <= 0

(* What the clock must be like for jobs not to fire early: it is not ahead, or
   by no more than the margins of Scheduler absorb. *)
ClockSafe == ClockNotAhead \/ Sched!ClockTrusted

(* The chain has reached the job's resurrection time, or it will have when the
   system clock shows the job's date. *)
InTime(t) == t.res <= now \/ t.res <= t.at - Skew

EarlyInv ==
    /\ \A t \in timers : InTime(t)
    /\ Sched!NeverBeforeResurrection

(* Any reading gives a date that is not too early. *)
LEMMA ScheduledInTime ==
    ASSUME ClockSafe, now \in Nat, NEW b \in Sched!Readings, NEW r \in Times
    PROVE  r <= now \/ r <= Sched!ScheduledTime(b, r) - Skew
<1> USE ContractAssumption, ServiceAssumption
    DEF Sched!ScheduledTime, Sched!SystemClock, Sched!Readings
<1>1. CASE ClockNotAhead
  BY <1>1 DEF ClockNotAhead
<1>2. CASE Sched!ClockTrusted
  BY <1>2 DEF Sched!ClockTrusted
<1> QED BY <1>1, <1>2 DEF ClockSafe

(* Resurrection times and dates are integers to compare. *)
LEMMA JobDates == \A t \in Sched!Job : t.res \in Nat /\ t.at \in Int
<1> SUFFICES ASSUME NEW t \in Sched!Job
             PROVE  t.res \in Nat /\ t.at \in Int
  OBVIOUS
<1>1. t.res \in Times /\ t.at \in Int
  BY DEF Sched!Job
<1> QED BY <1>1, ContractAssumption

(* Only a job whose date has come becomes a publication. *)
LEMMA EarlyStep ==
    ASSUME ClockSafe
    PROVE  Sched!TypeOK /\ EarlyInv /\ SchedStep => EarlyInv'
<1> SUFFICES ASSUME Sched!TypeOK, EarlyInv, SchedStep
             PROVE  EarlyInv'
  OBVIOUS
<1> USE DEF Sched!TypeOK, EarlyInv, InTime, Sched!NeverBeforeResurrection
<1>1. ASSUME NEW s \in Sarcos, NEW r \in Times, NEW c \in Contexts, NEW b \in Sched!Readings,
             Sched!SchedulePublish(s, b, r, c), now' = now
      PROVE  EarlyInv'
  <2> DEFINE job == [sarco |-> s, at |-> Sched!ScheduledTime(b, r), res |-> r, ctx |-> c]
  <2>1. job.res <= now \/ job.res <= job.at - Skew
    BY ScheduledInTime
  <2>2. timers' \subseteq timers \cup {job} /\ UNCHANGED runs
    BY <1>1 DEF Sched!SchedulePublish, Sched!WithoutSlot
  <2> HIDE DEF job
  <2> QED BY <1>1, <2>1, <2>2
<1>2. ASSUME NEW s \in Sarcos, Sched!CancelScheduledPublish(s), now' = now
      PROVE  EarlyInv'
  BY <1>2 DEF Sched!CancelScheduledPublish, Sched!WithoutSlot
<1>3. ASSUME NEW t \in timers, Sched!StartPublish(t), now' = now
      PROVE  EarlyInv'
  <2>1. t.res \in Nat /\ t.at \in Int
    BY JobDates
  <2>2. t.res <= now
    BY <1>3, <2>1, ServiceAssumption DEF Sched!StartPublish, Sched!SystemClock
  <2> QED BY <1>3, <2>2 DEF Sched!StartPublish
<1>4. ASSUME NEW r \in runs, Sched!EndPublish(r), now' = now
      PROVE  EarlyInv'
  BY <1>4 DEF Sched!EndPublish
<1>5. ASSUME Sched!ProcessLost, now' = now
      PROVE  EarlyInv'
  BY <1>5 DEF Sched!ProcessLost
<1>6. CASE Sched!Tick
  <2>1. now' = now + 1 /\ UNCHANGED <<timers, runs>>
    BY <1>6 DEF Sched!Tick
  <2>2. \A t \in timers \cup runs : t.res \in Nat /\ t.at \in Int
    BY JobDates
  <2> QED BY <2>1, <2>2
<1>7. CASE UNCHANGED Sched!vars
  BY <1>7 DEF Sched!vars
<1> QED BY <1>1, <1>2, <1>3, <1>4, <1>5, <1>6, <1>7 DEF SchedStep, Sched!Next, Sched!Step

-----------------------------------------------------------------------------
(* The rest of the process. *)

(* A run is only dropped together with what is recorded of it. *)
LEMMA PublishKeepsProcess ==
    ASSUME TypeInv, PublishStep
    PROVE  ProcessInv'
<1> USE DEF TypeInv, ProcessInv
<1>1. PICK r \in runs : RunDerivesKey(r) \/ RunPublishes(r) \/ RunSucceeds(r) \/ RunFails(r)
  BY DEF PublishStep
<1>2. UNCHANGED <<socket, up, crashes>>
  BY DEF PublishStep, linkVars
<1>3. r.sarco \in Sarcos
  BY DEF Sched!TypeOK, Sched!Job
<1>4. CASE RunDerivesKey(r)
  BY <1>1, <1>2, <1>4 DEF RunDerivesKey, storeVars, jobVars
<1>5. CASE RunPublishes(r)
  BY <1>2, <1>5 DEF RunPublishes, storeVars, jobVars
<1>6. CASE RunSucceeds(r)
  BY <1>2, <1>3, <1>6 DEF RunSucceeds, RunEnds, Sched!EndPublish, Untrack
<1>7. CASE RunFails(r)
  BY <1>2, <1>7 DEF RunFails, RunEnds, Sched!EndPublish, storeVars
<1> QED BY <1>1, <1>4, <1>5, <1>6, <1>7

(* Handlers and sync callbacks track and write off sarcophagi that exist. *)
LEMMA StoreKeepsProcess ==
    ASSUME TypeInv,
           \/ HandlerStep
           \/ SyncStep
           \/ QuerySubgraph \/ FetchSarcophagi
           \/ \E c \in Contexts : DeliverEvent(c)
    PROVE  ProcessInv'
<1> USE DEF TypeInv, ProcessInv
<1>1. \A t \in tasks : t.sarco \in Sarcos
  BY DEF ServiceInv, TaskInv, GoodTask, TaskType
<1>2. CASE HandlerStep
  <2>1. PICK t \in tasks : CreateTime(t) \/ CreateArch(t) \/ RewrapTime(t) \/ AccuseRead(t)
    BY <1>2 DEF HandlerStep
  <2>2. UNCHANGED <<socket, up, crashes, mined, publishing>>
    BY <1>2 DEF HandlerStep, linkVars, runVars
  <2>3. runs' = runs
    BY <2>1 DEF CreateTime, CreateArch, RewrapTime, AccuseRead, jobVars,
                Sched!SchedulePublish, Sched!CancelScheduledPublish
  <2>4. storeSet' = storeSet /\ tracked' \subseteq Sarcos /\ dead' \subseteq Sarcos
    BY <1>1, <2>1 DEF CreateTime, CreateArch, RewrapTime, AccuseRead, storeVars, Untrack
  <2> QED BY <2>2, <2>3, <2>4
<1>3. CASE SyncStep
  <2>1. PICK t \in tasks : SyncSarco(t) \/ SyncArch(t) \/ SyncFails(t)
    BY <1>3 DEF SyncStep
  <2>2. UNCHANGED <<socket, up, crashes, mined, publishing>>
    BY <1>3 DEF SyncStep, linkVars, runVars
  <2>3. runs' = runs
    BY <2>1 DEF SyncSarco, SyncArch, SyncFails, jobVars, Sched!SchedulePublish
  <2>4. storeSet' = storeSet /\ tracked' \subseteq Sarcos /\ dead' \subseteq Sarcos
    BY <1>1, <2>1 DEF SyncSarco, SyncArch, SyncFails, storeVars
  <2> QED BY <2>2, <2>3, <2>4
<1>4. CASE QuerySubgraph \/ FetchSarcophagi
  BY <1>4 DEF QuerySubgraph, FetchSarcophagi, Fetched, linkVars, storeVars, runVars, jobVars
<1>5. ASSUME NEW c \in Contexts, DeliverEvent(c)
      PROVE  ProcessInv'
  <2> DEFINE e == Head(inbox[c])
  <2>1. e.sarco \in Sarcos
    BY <1>5 DEF DeliverEvent, ServiceInv, InboxInv, Event
  <2>2. UNCHANGED <<socket, up, crashes, mined, publishing, runs>>
    BY <1>5 DEF DeliverEvent, jobVars, runVars
  <2>3. UNCHANGED storeVars \/ Untrack(e.sarco)
    BY <1>5 DEF DeliverEvent, CreateSarcoHandler, IgnoredEvent, RewrapHandler, RemoveHandler,
                AccuseHandler
  <2> QED BY <2>1, <2>2, <2>3 DEF storeVars, Untrack
<1> QED BY <1>2, <1>3, <1>4, <1>5

(* Connections come and go, and the process with them. *)
LEMMA LinksKeepProcess ==
    ASSUME TypeInv,
           \/ Crash \/ StoreUnset \/ Restart
           \/ \E c \in Contexts : Connected(c) \/ ConnectionClosed(c) \/ ProviderError(c)
    PROVE  ProcessInv'
<1> USE DEF TypeInv, ProcessInv
<1>1. CASE Crash \/ StoreUnset
  <2>1. ProcessDies
    BY <1>1 DEF Crash, StoreUnset
  <2>2. crashes' \in 0..MaxCrashes
    BY <1>1, ServiceAssumption DEF Crash, StoreUnset
  <2> QED BY <2>1, <2>2 DEF ProcessDies, Sched!ProcessLost
<1>2. CASE Restart
  BY <1>2 DEF Restart, FirstSocket, storeVars, jobVars, runVars
<1>3. ASSUME NEW c \in Contexts, Connected(c)
      PROVE  ProcessInv'
  BY <1>3 DEF Connected, storeVars, jobVars, runVars
<1>4. ASSUME NEW c \in Contexts, ConnectionClosed(c)
      PROVE  ProcessInv'
  BY <1>4 DEF ConnectionClosed, ResetNetworkContext, storeVars, jobVars, runVars
<1>5. ASSUME NEW c \in Contexts, ProviderError(c)
      PROVE  ProcessInv'
  BY <1>5 DEF ProviderError, ResetNetworkContext, storeVars, jobVars, runVars
<1> QED BY <1>1, <1>2, <1>3, <1>4, <1>5

(* All steps. *)
LEMMA ProcessInvStep == TypeInv /\ [Next]_vars => ProcessInv'
<1> SUFFICES ASSUME TypeInv, [Next]_vars
             PROVE  ProcessInv'
  OBVIOUS
<1>1. CASE UNCHANGED <<socket, up, storeVars, runs, runVars, crashes>>
  BY <1>1 DEF TypeInv, ProcessInv, storeVars, runVars
<1>2. CASE JobFires
  BY <1>2 DEF JobFires, Sched!StartPublish, linkVars, storeVars, runVars, TypeInv, ProcessInv
<1>3. CASE ProcessStep
  BY <1>1, <1>2, <1>3, PublishKeepsProcess, StoreKeepsProcess, LinksKeepProcess
     DEF ProcessStep, FetchProfile, linkVars, jobVars
<1>4. CASE EnvironmentStep
  BY <1>1, <1>4, LinksKeepProcess
     DEF EnvironmentStep, ContractEvent, Announce, SubgraphIndexes, RefetchInterval, linkVars,
         jobVars
<1>5. CASE Tick \/ UNCHANGED vars
  BY <1>1, <1>5 DEF Tick, vars, linkVars, jobVars
<1> QED BY <1>3, <1>4, <1>5 DEF Next

(* Everything the service holds is well typed, in every state. *)
LEMMA TypeInvariant == Spec => []TypeInv
<1>1. Init => TypeInv
  <2> SUFFICES ASSUME Init
               PROVE  TypeInv
    OBVIOUS
  <2>1. Sched!TypeOK
    BY DEF Init, Sched!Init, Sched!TypeOK, ContractInit
  <2>2. ProcessInv
    <3>1. socket \in [Contexts -> {"unused", "connecting", "open", "closed"}]
      BY DEF Init, FirstSocket
    <3>2. 0 \in 0..MaxCrashes
      BY ServiceAssumption
    <3> QED BY <3>1, <3>2 DEF Init, ProcessInv
  <2> QED BY <2>1, <2>2, ServiceInvInit DEF TypeInv
<1>2. TypeInv /\ [Next]_vars => TypeInv'
  BY StepMaps, JobsStep, ProcessInvStep, ChainStep, InboxStep, TaskStep DEF TypeInv, ServiceInv
<1> QED BY <1>1, <1>2, PTL DEF Spec

(* The types of the service's state, for any numbers of sarcophagi, contexts
   and pending handlers. *)
THEOREM ServiceTypeCorrect == Spec => []TypeOK
<1>1. TypeInv => TypeOK
  BY DEF TypeInv, ServiceInv, ChainInv, InboxInv, TaskInv, GoodTask, FetchOK, ProcessInv, TypeOK
<1> QED BY <1>1, TypeInvariant, PTL

(* Both invariants hold in every state. *)
LEMMA JobInvariant == Spec => []JobInv
<1>1. Init => JobInv
  BY DEF Init, Sched!Init, JobInv, Sched!InProcessIsRunning
<1>2. TypeInv /\ JobInv /\ [Next]_vars => JobInv'
  BY JobInvStep, StepMaps DEF TypeInv
<1> QED BY <1>1, <1>2, TypeInvariant, PTL DEF Spec

LEMMA EarlyInvariant == ClockSafe => (Spec => []EarlyInv)
<1> SUFFICES ASSUME ClockSafe
             PROVE  Spec => []EarlyInv
  OBVIOUS
<1>1. Init => EarlyInv
  BY DEF Init, Sched!Init, EarlyInv, Sched!NeverBeforeResurrection
<1>2. TypeInv /\ EarlyInv /\ [Next]_vars => EarlyInv'
  BY EarlyStep, StepMaps DEF TypeInv
<1> QED BY <1>1, <1>2, TypeInvariant, PTL DEF Spec

(* Whatever the events, syncs, reconnections, duplicate listeners and restarts, a
   sarcophagus has at most one live job or publication in flight, and the
   in-process list names exactly those in flight. *)
THEOREM ServiceOnePublisher == Spec => [](Sched!SinglePublisher /\ Sched!InProcessIsRunning)
<1>1. JobInv => Sched!SinglePublisher /\ Sched!InProcessIsRunning
  BY DEF JobInv, Sched!SinglePublisher, Sched!InProcessIsRunning
<1> QED BY <1>1, JobInvariant, PTL

(* No key goes out before the chain has reached the resurrection time its job was
   scheduled for, as long as a system clock that may stand in for the chain's is
   not ahead by more than the margins absorb. *)
THEOREM ServiceNeverEarly == ClockSafe => (Spec => []Sched!NeverBeforeResurrection)
<1>1. EarlyInv => Sched!NeverBeforeResurrection
  BY DEF EarlyInv
<1> QED BY <1>1, EarlyInvariant, PTL

-----------------------------------------------------------------------------
(* Writing off.  DeadIsFinal is not inductive: what a handler, a sync callback
   or a publication acts on was learned earlier.  It rests on what they have
   learned being final, or only ever more true: a buried or cleaned
   sarcophagus stays so, a published key stays published, and a block timestamp
   that was beyond the grace period has been passed by the chain. *)

PublishedExists ==
    \A s \in Sarcos : sarco[s].published => sarco[s].status # "absent"

EventsHappened ==
    \A c \in Contexts : \A i \in 1..Len(inbox[c]) :
        LET e == inbox[c][i]
        IN  /\ e.kind = "bury" => sarco[e.sarco].status = "buried"
            /\ e.kind = "clean" => sarco[e.sarco].status = "cleaned"

MinedPublished == \A r \in mined : sarco[r.sarco].published

ReadingsPassed == fetch.block <= now /\ \A t \in tasks : t.block <= now

DeadInv ==
    /\ PublishedExists
    /\ EventsHappened
    /\ MinedPublished
    /\ ReadingsPassed
    /\ \A s \in dead : sarco[s].status # "absent" /\ ~Owed(s)

(* What the chain never takes back. *)
LEMMA ChainIsFinal ==
    ASSUME ChainInv, PublishedExists, [Next]_vars
    PROVE  /\ PublishedExists'
           /\ \A s \in Sarcos :
                 /\ sarco[s].published => sarco'[s].published
                 /\ sarco[s].status = "buried" => sarco'[s].status = "buried"
                 /\ sarco[s].status = "cleaned" => sarco'[s].status = "cleaned"
                 /\ sarco[s].status # "absent" /\ ~Owed(s) => ~Owed(s)'
<1> USE ContractAssumption DEF ChainInv, ContractTypeOK, Status, PublishedExists, Owed, GraceOver, Active
<1> DEFINE Final ==
      /\ PublishedExists'
      /\ \A s \in Sarcos :
            /\ sarco[s].published => sarco'[s].published
            /\ sarco[s].status = "buried" => sarco'[s].status = "buried"
            /\ sarco[s].status = "cleaned" => sarco'[s].status = "cleaned"
            /\ sarco[s].status # "absent" /\ ~Owed(s) => ~Owed(s)'
<1>0. \A s \in Sarcos : sarco[s].status # "absent" => sarco[s].res \in Nat
  OBVIOUS
<1>1. CASE UNCHANGED contractVars
  BY <1>1 DEF contractVars
<1>2. CASE ContractEvent
  <2>1. PICK s \in Sarcos :
           /\ \/ \E r \in Times : Create(s, r) \/ Rewrap(s, r)
              \/ Bury(s) \/ Accuse(s) \/ Clean(s)
           /\ UNCHANGED now
    BY <1>2 DEF ContractEvent, Announce
  <2>2. ASSUME NEW r \in Times, Create(s, r)
        PROVE  Final
    BY <2>1, <2>2 DEF Create
  <2>3. ASSUME NEW r \in Times, Rewrap(s, r)
        PROVE  Final
    <3>1. sarco' = [sarco EXCEPT ![s].res = r] /\ sarco[s].status = "active"
      BY <2>3 DEF Rewrap
    <3>2. ~Owed(s) => sarco[s].published
      BY <2>3, <1>0, <3>1 DEF Rewrap
    <3> QED BY <2>1, <3>1, <3>2
  <2>4. CASE Bury(s)
    BY <2>1, <2>4 DEF Bury
  <2>5. CASE Accuse(s)
    BY <2>1, <2>5 DEF Accuse
  <2>6. CASE Clean(s)
    BY <2>1, <2>6 DEF Clean
  <2> QED BY <2>1, <2>2, <2>3, <2>4, <2>5, <2>6
<1>3. CASE SubgraphIndexes
  BY <1>3 DEF SubgraphIndexes, Index
<1>4. CASE Tick
  BY <1>0, <1>4 DEF Tick
<1>5. ASSUME NEW r \in runs, RunPublishes(r)
      PROVE  Final
  <2>1. sarco' = [sarco EXCEPT ![r.sarco].published = TRUE] /\ UNCHANGED now
    BY <1>5 DEF RunPublishes, Publish
  <2>2. sarco[r.sarco].status = "active"
    BY <1>5 DEF RunPublishes, Publish, PublishAccepted
  <2> QED BY <2>1, <2>2
<1> QED BY <1>1, <1>2, <1>3, <1>4, <1>5, ChainFrame

(* A bury or clean event is sent when the sarcophagus is buried or cleaned. *)
LEMMA EventsStep == TypeInv /\ DeadInv /\ [Next]_vars => EventsHappened'
<1> SUFFICES ASSUME TypeInv, DeadInv, [Next]_vars
             PROVE  EventsHappened'
  OBVIOUS
<1> USE DEF EventsHappened
<1> DEFINE Happened(e) ==
      /\ e.kind = "bury" => sarco[e.sarco].status = "buried"
      /\ e.kind = "clean" => sarco[e.sarco].status = "cleaned"
<1> DEFINE StillHappened(e) ==
      /\ e.kind = "bury" => sarco'[e.sarco].status = "buried"
      /\ e.kind = "clean" => sarco'[e.sarco].status = "cleaned"
<1>1. inbox \in [Contexts -> Seq(Event)]
  BY DEF TypeInv, ServiceInv, InboxInv
<1>2. \A e \in Event : Happened(e) => StillHappened(e)
  BY ChainIsFinal DEF TypeInv, ServiceInv, DeadInv, Event
<1>3. ASSUME NEW c \in Contexts, NEW i \in 1..Len(inbox[c])
      PROVE  StillHappened(inbox[c][i])
  <2>1. inbox[c][i] \in Event
    BY <1>1
  <2>2. Happened(inbox[c][i])
    BY DEF DeadInv
  <2> QED BY <1>2, <2>1, <2>2
<1>4. ASSUME \A c \in Contexts : \A i \in 1..Len(inbox'[c]) : StillHappened(inbox'[c][i])
      PROVE  EventsHappened'
  BY <1>4
<1> HIDE DEF EventsHappened
<1>5. CASE UNCHANGED inbox
  BY <1>3, <1>4, <1>5
<1>6. ASSUME NEW kind, NEW s, NEW r, Announce(kind, s, r),
             StillHappened([kind |-> kind, sarco |-> s, res |-> r])
      PROVE  EventsHappened'
  <2> DEFINE e == [kind |-> kind, sarco |-> s, res |-> r]
  <2>1. \A c \in Contexts : inbox'[c] \in {inbox[c], Append(inbox[c], e)}
    BY <1>1, <1>6 DEF Announce
  <2> HIDE DEF e
  <2>2. ASSUME NEW c \in Contexts, NEW i \in 1..Len(inbox'[c])
        PROVE  inbox'[c][i] = e \/ (i \in 1..Len(inbox[c]) /\ inbox'[c][i] = inbox[c][i])
    BY <1>1, <2>1
  <2>3. StillHappened(e)
    BY <1>6 DEF e
  <2> QED BY <1>3, <1>4, <2>2, <2>3
<1>7. CASE ContractEvent
  <2>1. PICK s \in Sarcos :
          \/ \E r \in Times : Announce("create", s, r) \/ Announce("rewrap", s, r)
          \/ Bury(s) /\ Announce("bury", s, 0)
          \/ Announce("accuse", s, 0)
          \/ Clean(s) /\ Announce("clean", s, 0)
    BY <1>7 DEF ContractEvent
  <2>2. CASE Bury(s) /\ Announce("bury", s, 0)
    <3>1. sarco'[s].status = "buried"
      BY <2>2 DEF Bury, TypeInv, ServiceInv, ChainInv, ContractTypeOK
    <3> QED BY <1>6, <2>2, <3>1
  <2>3. CASE Clean(s) /\ Announce("clean", s, 0)
    <3>1. sarco'[s].status = "cleaned"
      BY <2>3 DEF Clean, TypeInv, ServiceInv, ChainInv, ContractTypeOK
    <3> QED BY <1>6, <2>3, <3>1
  <2> QED BY <1>6, <2>1, <2>2, <2>3
<1>8. ASSUME NEW c \in Contexts, DeliverEvent(c)
      PROVE  EventsHappened'
  <2>1. inbox[c] # <<>> /\ inbox' = [inbox EXCEPT ![c] = Tail(@)]
    BY <1>8 DEF DeliverEvent
  <2>2. ASSUME NEW d \in Contexts, NEW i \in 1..Len(inbox'[d])
        PROVE  \E j \in 1..Len(inbox[d]) : inbox'[d][i] = inbox[d][j]
    <3>1. CASE d = c
      <4>1. inbox'[d] = Tail(inbox[d]) /\ inbox[d] \in Seq(Event) /\ inbox[d] # <<>>
        BY <1>1, <2>1, <3>1
      <4>2. i + 1 \in 1..Len(inbox[d]) /\ inbox'[d][i] = inbox[d][i + 1]
        BY <4>1
      <4> QED BY <4>2
    <3>2. CASE d # c
      BY <1>1, <2>1, <3>2
    <3> QED BY <3>1, <3>2
  <2> QED BY <1>3, <1>4, <2>2
<1>9. ASSUME NEW c \in Contexts, ConnectionClosed(c)
      PROVE  EventsHappened'
  <2>1. \A d \in Contexts : inbox'[d] \in {<<>>, inbox[d]}
    BY <1>1, <1>9 DEF ConnectionClosed
  <2> QED BY <1>3, <1>4, <2>1
<1>10. CASE inbox' = [c \in Contexts |-> <<>>]
  BY <1>4, <1>10
<1>11. CASE ProcessStep
  BY <1>5, <1>8, <1>10, <1>11
     DEF ProcessStep, Connected, StoreUnset, ProcessDies, Restart, HandlerStep, linkVars,
         FetchProfile, QuerySubgraph, FetchSarcophagi, SyncStep, JobFires, PublishStep
<1>12. CASE EnvironmentStep
  BY <1>5, <1>7, <1>9, <1>10, <1>12
     DEF EnvironmentStep, SubgraphIndexes, ProviderError, Crash, ProcessDies, RefetchInterval,
         linkVars
<1>13. CASE Tick \/ UNCHANGED vars
  BY <1>5, <1>13 DEF Tick, vars, linkVars
<1> QED BY <1>11, <1>12, <1>13 DEF Next

(* A run is mined when its transaction publishes the key. *)
LEMMA MinedStep == TypeInv /\ DeadInv /\ [Next]_vars => MinedPublished'
<1> SUFFICES ASSUME TypeInv, DeadInv, [Next]_vars
             PROVE  MinedPublished'
  OBVIOUS
<1> USE DEF MinedPublished
<1>1. \A r \in runs : r.sarco \in Sarcos
  BY DEF TypeInv, Sched!TypeOK, Sched!Job
<1>2. \A r \in mined : sarco'[r.sarco].published
  BY <1>1, ChainIsFinal DEF TypeInv, ServiceInv, ProcessInv, DeadInv
<1>3. CASE mined' \subseteq mined
  BY <1>2, <1>3
<1>4. ASSUME NEW r \in runs, RunPublishes(r)
      PROVE  MinedPublished'
  <2>1. sarco'[r.sarco].published
    BY <1>1, <1>4
       DEF RunPublishes, Publish, TypeInv, ServiceInv, ChainInv, ContractTypeOK
  <2> QED BY <1>2, <1>4, <2>1 DEF RunPublishes
<1>5. CASE PublishStep
  BY <1>3, <1>4, <1>5 DEF PublishStep, RunDerivesKey, RunSucceeds, RunFails, RunEnds
<1>6. CASE ProcessStep
  BY <1>3, <1>5, <1>6
     DEF ProcessStep, Connected, DeliverEvent, StoreUnset, ProcessDies, Restart, HandlerStep,
         FetchProfile, QuerySubgraph, FetchSarcophagi, SyncStep, JobFires, runVars
<1>7. CASE EnvironmentStep
  BY <1>3, <1>7
     DEF EnvironmentStep, ContractEvent, Announce, SubgraphIndexes, ConnectionClosed,
         ProviderError, Crash, ProcessDies, RefetchInterval, runVars
<1>8. CASE Tick \/ UNCHANGED vars
  BY <1>3, <1>8 DEF Tick, vars, runVars
<1> QED BY <1>6, <1>7, <1>8 DEF Next

(* A pending handler holds no block timestamp, the one it held, or the sync's. *)
LEMMA BlocksKept ==
    ASSUME ServiceInv, [Next]_vars
    PROVE  /\ fetch'.block \in BlockTimestamp \cup {0, fetch.block}
           /\ \A t \in tasks' : t.block \in {0, fetch.block} \cup {u.block : u \in tasks}
<1> DEFINE Kept(t) == t.block \in {0, fetch.block} \cup {u.block : u \in tasks}
<1> DEFINE Blocks ==
      /\ fetch'.block \in BlockTimestamp \cup {0, fetch.block}
      /\ \A t \in tasks' : Kept(t)
<1> SUFFICES Blocks
  OBVIOUS
<1>1. /\ \A t \in tasks : t \in TaskType
      /\ fetch \in [at : {"idle", "profile", "query", "page"}, ctx : Contexts, block : Int,
                page : SUBSET Sarcos]
  BY DEF ServiceInv, TaskInv, GoodTask, FetchOK
<1>2. \A t \in tasks : Kept(t)
  OBVIOUS
<1>3. \A T \in SUBSET tasks : \A t \in Unlinked(T) : Kept(t)
  BY <1>1 DEF Unlinked, TaskType
<1>4. \A at, s, c, r : Kept(Task(at, s, c, r, 0)) /\ Kept(Task(at, s, c, r, fetch.block))
  BY DEF Task
<1>5. \A t \in tasks : Kept([t EXCEPT !.at = "createArch"])
  BY <1>1 DEF TaskType
<1>6. \A t \in tasks : \A r : Kept([t EXCEPT !.at = "syncArch", !.res = r])
  BY <1>1 DEF TaskType
<1>7. FirstFetch.block = 0 /\ NoFetch.block = 0
  BY DEF FirstFetch, NoFetch
<1> HIDE DEF Kept
<1>8. ASSUME fetch' \in {fetch, FirstFetch, NoFetch}, \A t \in tasks' : Kept(t)
      PROVE  Blocks
  BY <1>7, <1>8
<1>9. ASSUME fetch' \in {fetch, FirstFetch, NoFetch}, tasks' \subseteq tasks
      PROVE  Blocks
  BY <1>2, <1>8, <1>9
<1> HIDE DEF Blocks
<1>10. ASSUME NEW c \in Contexts, DeliverEvent(c)
       PROVE  Blocks
  <2>1. fetch' = fetch
    BY <1>10 DEF DeliverEvent
  <2>2. \A t \in tasks' : Kept(t)
    BY <1>2, <1>3, <1>4, <1>10
       DEF DeliverEvent, CreateSarcoHandler, IgnoredEvent, RewrapHandler, RemoveHandler,
           AccuseHandler
  <2> QED BY <1>8, <2>1, <2>2
<1>11. CASE HandlerStep
  <2>1. PICK t \in tasks : CreateTime(t) \/ CreateArch(t) \/ RewrapTime(t) \/ AccuseRead(t)
    BY <1>11 DEF HandlerStep
  <2>2. \/ tasks' = tasks \ {t}
        \/ tasks' = Unlinked(tasks \ {t})
        \/ tasks' = (tasks \ {t}) \cup {[t EXCEPT !.at = "createArch"]}
    BY <2>1 DEF CreateTime, CreateArch, RewrapTime, AccuseRead
  <2>3. \A u \in tasks' : Kept(u)
    BY <1>2, <1>3, <1>5, <2>2
  <2> QED BY <1>8, <1>11, <2>3 DEF HandlerStep
<1>12. CASE FetchProfile
  <2>1. PICK b \in BlockTimestamp : fetch' = [fetch EXCEPT !.at = "query", !.block = b]
    BY <1>12 DEF FetchProfile
  <2>2. fetch'.block = b
    BY <1>1, <2>1
  <2>3. tasks' = tasks
    BY <1>12 DEF FetchProfile
  <2> QED BY <1>2, <2>2, <2>3 DEF Blocks
<1>13. CASE QuerySubgraph \/ FetchSarcophagi
  <2>1. ASSUME NEW P, Fetched(P)
        PROVE  Blocks
    <3>1. \A t \in tasks' : Kept(t)
      BY <1>3, <1>4, <2>1 DEF Fetched
    <3> QED BY <1>8, <2>1, <3>1 DEF Fetched
  <2>2. ASSUME NEW P, fetch' = [fetch EXCEPT !.at = "page", !.page = P], tasks' = tasks
        PROVE  Blocks
    <3>1. fetch'.block = fetch.block
      BY <1>1, <2>2
    <3> QED BY <1>2, <2>2, <3>1 DEF Blocks
  <2>3. CASE fetch' = NoFetch /\ tasks' = tasks
    BY <1>9, <2>3
  <2> QED BY <1>13, <2>1, <2>2, <2>3 DEF QuerySubgraph, FetchSarcophagi
<1>14. CASE SyncStep
  <2>1. PICK t \in tasks : SyncSarco(t) \/ SyncArch(t) \/ SyncFails(t)
    BY <1>14 DEF SyncStep
  <2> DEFINE next == [t EXCEPT !.at = "syncArch", !.res = sarco[t.sarco].res]
  <2>2. tasks' \subseteq tasks \cup {next}
    BY <2>1 DEF SyncSarco, SyncArch, SyncFails
  <2>3. Kept(next)
    BY <1>6
  <2> HIDE DEF next
  <2>4. \A u \in tasks' : Kept(u)
    BY <1>2, <2>2, <2>3
  <2> QED BY <1>8, <1>14, <2>4 DEF SyncStep
<1>15. CASE PublishStep
  <2>1. fetch' = fetch /\ (tasks' = tasks \/ tasks' = Unlinked(tasks))
    BY <1>15 DEF PublishStep, RunDerivesKey, RunPublishes, RunSucceeds, RunFails
  <2> QED BY <1>2, <1>3, <1>8, <2>1
<1>16. ASSUME NEW c \in Contexts, ConnectionClosed(c)
       PROVE  Blocks
  BY <1>9, <1>16 DEF ConnectionClosed
<1>17. CASE ProcessStep
  BY <1>9, <1>10, <1>11, <1>12, <1>13, <1>14, <1>15, <1>17
     DEF ProcessStep, Connected, StoreUnset, ProcessDies, Restart, JobFires
<1>18. CASE EnvironmentStep
  BY <1>9, <1>16, <1>18
     DEF EnvironmentStep, ContractEvent, Announce, SubgraphIndexes, ProviderError, Crash,
         ProcessDies, RefetchInterval
<1>19. CASE Tick \/ UNCHANGED vars
  BY <1>9, <1>19 DEF Tick, vars
<1> QED BY <1>17, <1>18, <1>19 DEF Next

(* The sync's block timestamp was not ahead of the chain when it was read. *)
LEMMA ReadingsStep ==
    ASSUME ClockNotAhead, TypeInv, ReadingsPassed, [Next]_vars
    PROVE  ReadingsPassed'
<1>1. now \in Nat
  BY DEF TypeInv, Sched!TypeOK
<1>2. now' \in Nat /\ now <= now'
  BY <1>1, ChainMonotone DEF TypeInv, ServiceInv
<1>3. fetch.block \in Int /\ \A t \in tasks : t.block \in Int
  BY DEF TypeInv, ServiceInv, TaskInv, GoodTask, TaskType, FetchOK
<1>4. \A b \in BlockTimestamp : b \in Int /\ b <= now
  BY <1>1, ServiceAssumption DEF ClockNotAhead, BlockTimestamp, Sched!SystemClock
<1>5. \A b \in BlockTimestamp \cup {0, fetch.block} \cup {u.block : u \in tasks} : b <= now'
  BY <1>1, <1>2, <1>3, <1>4 DEF ReadingsPassed
<1> QED BY <1>5, BlocksKept DEF ReadingsPassed, TypeInv

(* Whoever writes a sarcophagus off knows that it is buried, compromised or
   cleaned, that its key is on chain, or that its grace period is over. *)
LEMMA WrittenOff ==
    ASSUME TypeInv, DeadInv, [Next]_vars, NEW s \in dead', s \notin dead
    PROVE  s \in Sarcos /\ sarco[s].status # "absent" /\ ~Owed(s)
<1> USE DEF Owed, Active
<1> DEFINE Settled(u) == u \in Sarcos /\ sarco[u].status # "absent" /\ ~Owed(u)
<1> SUFFICES Settled(s)
  OBVIOUS
<1>1. \A t \in tasks : t \in TaskType /\ TaskOK(t) /\ t.block <= now
  BY DEF TypeInv, ServiceInv, TaskInv, GoodTask, DeadInv, ReadingsPassed
<1>2. ASSUME NEW c \in Contexts, DeliverEvent(c)
      PROVE  Settled(s)
  <2> DEFINE e == inbox[c][1]
  <2>1. e = Head(inbox[c]) /\ e \in Event /\ 1 \in 1..Len(inbox[c])
    BY <1>2 DEF DeliverEvent, TypeInv, ServiceInv, InboxInv
  <2>2. RemoveHandler(e) /\ s = e.sarco
    BY <1>2, <2>1 DEF DeliverEvent, CreateSarcoHandler, IgnoredEvent, RewrapHandler,
                      RemoveHandler, AccuseHandler, storeVars, Untrack
  <2>3. sarco[s].status \in {"buried", "cleaned"}
    BY <2>1, <2>2 DEF RemoveHandler, DeadInv, EventsHappened
  <2> QED BY <2>1, <2>2, <2>3 DEF Event
<1>3. CASE HandlerStep
  <2>1. PICK t \in tasks : CreateTime(t) \/ CreateArch(t) \/ RewrapTime(t) \/ AccuseRead(t)
    BY <1>3 DEF HandlerStep
  <2>2. s = t.sarco /\ sarco[s].status = "compromised"
    BY <2>1 DEF CreateTime, CreateArch, RewrapTime, AccuseRead, storeVars, Untrack
  <2> QED BY <1>1, <2>2 DEF TaskType
<1>4. CASE SyncStep
  <2>1. PICK t \in tasks : SyncSarco(t) \/ SyncArch(t) \/ SyncFails(t)
    BY <1>4 DEF SyncStep
  <2>2. s = t.sarco /\ s \in Sarcos
    BY <1>1, <2>1 DEF SyncSarco, SyncArch, SyncFails, storeVars, TaskType
  <2>3. CASE SyncSarco(t)
    <3>1. Inactive(s) \/ TooLateToUnwrap(s, t.block)
      BY <2>2, <2>3 DEF SyncSarco
    <3>2. sarco[s].status # "absent"
      BY <1>1, <2>2, <2>3 DEF SyncSarco, TaskOK
    <3>3. TooLateToUnwrap(s, t.block) => GraceOver(s)
      <4>1. now \in Int /\ t.block \in Int /\ t.block <= now
        BY <1>1 DEF TaskType, TypeInv, Sched!TypeOK
      <4>2. sarco[s].res \in Times
        BY <2>2, <3>2 DEF TypeInv, ServiceInv, ChainInv
      <4>3. Times \subseteq Int /\ Grace \in Int
        BY ContractAssumption
      <4>4. sarco[s].res \in Int
        BY <4>2, <4>3
      <4> QED BY <4>1, <4>3, <4>4 DEF TooLateToUnwrap, GraceOver
    <3> QED BY <2>2, <3>1, <3>2, <3>3 DEF Inactive
  <2>4. CASE SyncArch(t)
    BY <2>2, <2>4 DEF SyncArch, DeadInv, PublishedExists
  <2>5. CASE SyncFails(t)
    BY <2>5 DEF SyncFails, storeVars
  <2> QED BY <2>1, <2>3, <2>4, <2>5
<1>5. CASE PublishStep
  <2>1. PICK r \in runs : RunDerivesKey(r) \/ RunPublishes(r) \/ RunSucceeds(r) \/ RunFails(r)
    BY <1>5 DEF PublishStep
  <2>2. r \in mined /\ s = r.sarco
    BY <2>1 DEF RunDerivesKey, RunPublishes, RunSucceeds, RunFails, storeVars, Untrack
  <2>3. s \in Sarcos
    BY <2>2 DEF TypeInv, Sched!TypeOK, Sched!Job
  <2> QED BY <2>2, <2>3 DEF DeadInv, MinedPublished, PublishedExists
<1>6. dead' \subseteq dead => Settled(s)
  OBVIOUS
<1>7. CASE ProcessStep
  BY <1>2, <1>3, <1>4, <1>5, <1>6, <1>7
     DEF ProcessStep, Connected, StoreUnset, ProcessDies, Restart, FetchProfile,
         QuerySubgraph, FetchSarcophagi, Fetched, JobFires, storeVars
<1>8. CASE EnvironmentStep
  BY <1>6, <1>8
     DEF EnvironmentStep, ContractEvent, Announce, SubgraphIndexes, ConnectionClosed,
         ProviderError, Crash, ProcessDies, RefetchInterval, storeVars
<1>9. CASE Tick \/ UNCHANGED vars
  BY <1>6, <1>9 DEF Tick, vars, storeVars
<1> QED BY <1>7, <1>8, <1>9 DEF Next

(* What is remembered stays true, and so does what was written off. *)
LEMMA DeadInvariant == ClockNotAhead => (Spec => []DeadInv)
<1> SUFFICES ASSUME ClockNotAhead
             PROVE  Spec => []DeadInv
  OBVIOUS
<1>1. Init => DeadInv
  <2> SUFFICES ASSUME Init
               PROVE  DeadInv
    OBVIOUS
  <2>1. PublishedExists
    BY DEF Init, ContractInit, PublishedExists
  <2>2. EventsHappened
    BY DEF Init, EventsHappened
  <2>3. ReadingsPassed
    BY DEF Init, ContractInit, FirstFetch, ReadingsPassed
  <2> QED BY <2>1, <2>2, <2>3 DEF Init, DeadInv, MinedPublished
<1>2. TypeInv /\ DeadInv /\ [Next]_vars => DeadInv'
  <2> SUFFICES ASSUME TypeInv, DeadInv, [Next]_vars
               PROVE  DeadInv'
    OBVIOUS
  <2>1. PublishedExists'
    BY ChainIsFinal DEF TypeInv, ServiceInv, DeadInv
  <2>2. EventsHappened' /\ MinedPublished' /\ ReadingsPassed'
    BY EventsStep, MinedStep, ReadingsStep DEF DeadInv
  <2>3. ASSUME NEW s \in dead'
        PROVE  sarco'[s].status # "absent" /\ ~Owed(s)'
    <3>1. s \in Sarcos /\ sarco[s].status # "absent" /\ ~Owed(s)
      BY WrittenOff DEF TypeInv, ProcessInv, DeadInv
    <3> QED BY <3>1, ChainIsFinal, ChainMonotone DEF TypeInv, ServiceInv, DeadInv
  <2> QED BY <2>1, <2>2, <2>3 DEF DeadInv
<1> QED BY <1>1, <1>2, TypeInvariant, PTL DEF Spec

(* A sarcophagus the service has written off, and every later sync skips, never
   is one whose key it still owes, provided the system clock is not ahead where
   getBlockTimestamp may fall back on it. *)
THEOREM WrittenOffIsFinal == ClockNotAhead => (Spec => []DeadIsFinal)
<1>1. DeadInv => DeadIsFinal
  BY DEF DeadInv, DeadIsFinal
<1> QED BY <1>1, DeadInvariant, PTL

=============================================================================
