------------------------ MODULE ArchaeologistService ------------------------
(***************************************************************************)
(* The service process on one network: the startup sync with subgraph and  *)
(* contract, the contract event handlers, the in-memory store, the jobs of *)
(* the scheduler and the publications they start, over websocket provider  *)
(* connections that break and a process that dies and is restarted.        *)
(*                                                                         *)
(* JavaScript runs one segment at a time, so each stretch of code between  *)
(* two awaits is one action; a handler waiting for an answer is a member   *)
(* of `tasks'.  A connection that closes never answers: what waits for it  *)
(* waits for ever, and is dropped from the model.                          *)
(***************************************************************************)
EXTENDS SarcophagusContract, Sequences, FiniteSets

CONSTANTS
    Skew, Buffer, SoonDelay, NoJob,   \* see Scheduler
    Faults,      \* which calls may fail, of AllFaults
    ThirdPartyDecoded, \* does EmbalmerFacet's ABI know ThirdPartyFacet's events?
    Calm,        \* the world only moves when the service is at rest
    Refetch,     \* REFETCH_CONTRACT_DATA is set
    PageSize,    \* the subgraph query's `first' argument, 100
    MaxResets, MaxCrashes,
    MaxPending   \* bound on the events and handlers pending on a context

AllFaults == {"rpc", "subgraph", "timestamp"}

ASSUME ServiceAssumption ==
    /\ Skew \in Int
    /\ Buffer \in Nat \ {0} /\ SoonDelay \in Nat \ {0}
    /\ Faults \subseteq AllFaults
    /\ {ThirdPartyDecoded, Calm, Refetch} \subseteq BOOLEAN
    /\ {PageSize, MaxResets, MaxCrashes, MaxPending} \subseteq Nat
    /\ NoJob \notin [sarco : Sarcos, at : Int, res : Times, ctx : 0..MaxResets]

Contexts == 0..MaxResets    \* network contexts in the order they are created

VARIABLES
    socket,     \* websocket of each network context
    inbox,      \* contract events on their way to a context's listeners
    up,         \* is the process running?
    storeSet,   \* has inMemoryStore an entry for this chain?
    tracked,    \* .sarcophagi
    dead,       \* .deadSarcophagusIds
    fetch,      \* the fetchProfileAndSchedulePublish call in flight
    tasks,      \* handlers and sync callbacks waiting for an answer
    timers, slot, inProcess, runs,   \* see Scheduler
    publishing, \* runs that have derived the private key
    mined,      \* runs whose transaction is on chain, waiting for the receipt
    crashes

linkVars == <<socket, inbox, up>>
storeVars == <<storeSet, tracked, dead>>
jobVars == <<timers, slot, inProcess, runs>>
runVars == <<publishing, mined>>
vars == <<contractVars, linkVars, storeVars, fetch, tasks, jobVars, runVars, crashes>>

Sched == INSTANCE Scheduler WITH
            blockTime <- now, BlockLag <- 0,
            TimestampFallback <- "timestamp" \in Faults

NoFetch == [at |-> "idle", ctx |-> 0, block |-> 0, page |-> {}]

Task(at, s, c, r, b) ==
    [at |-> at, sarco |-> s, ctx |-> c, res |-> r, block |-> b, linked |-> at = "syncSarco"]

Event ==
    [kind : {"create", "rewrap"}, sarco : Sarcos, res : Times]
        \cup [kind : {"bury", "clean", "accuse"}, sarco : Sarcos, res : {0}]

TaskType ==
    [at : {"createTime", "createArch", "rewrapTime", "accuseRead", "syncSarco", "syncArch"},
     sarco : Sarcos, ctx : Contexts, res : Times \cup {0}, block : Int, linked : BOOLEAN]

(* Types of everything the process holds, and that a run whose transaction is
   mined has derived its key, and one that has derived its key is in flight. *)
TypeOK ==
    /\ ContractTypeOK
    /\ Sched!TypeOK
    /\ socket \in [Contexts -> {"unused", "connecting", "open", "closed"}]
    /\ inbox \in [Contexts -> Seq(Event)]
    /\ up \in BOOLEAN /\ storeSet \in BOOLEAN
    /\ tracked \subseteq Sarcos /\ dead \subseteq Sarcos
    /\ fetch \in [at : {"idle", "profile", "query", "page"}, ctx : Contexts, block : Int,
                 page : SUBSET Sarcos]
    /\ tasks \subseteq TaskType
    /\ mined \subseteq publishing /\ publishing \subseteq runs
    /\ crashes \in 0..MaxCrashes

-----------------------------------------------------------------------------
(* The state of a process that has just started: startService calls
   fetchProfileAndSchedulePublish without awaiting it, then subscribes. *)
FirstSocket == [c \in Contexts |-> IF c = 0 THEN "connecting" ELSE "unused"]
FirstFetch == [at |-> "profile", ctx |-> 0, block |-> 0, page |-> {}]

Init ==
    /\ ContractInit
    /\ Sched!Init
    /\ socket = FirstSocket
    /\ inbox = [c \in Contexts |-> <<>>]
    /\ up = TRUE
    /\ storeSet = FALSE /\ tracked = {} /\ dead = {}
    /\ fetch = FirstFetch
    /\ tasks = {}
    /\ publishing = {} /\ mined = {}
    /\ crashes = 0

IsOpen(c) == socket[c] = "open"

(* getBlockTimestamp: the latest block, or on an RPC error Date.now(). *)
BlockTimestamp ==
    {now} \cup (IF "timestamp" \in Faults THEN {Sched!SystemClock} \cap Nat ELSE {})

(* Every `sarcophagi = sarcophagi.filter(...)' makes a new array: the sync
   callbacks still in flight push onto the old one. *)
Unlinked(T) == {[t EXCEPT !.linked = FALSE] : t \in T}

Untrack(s) ==
    /\ tracked' = tracked \ {s}
    /\ dead' = dead \cup {s}
    /\ UNCHANGED storeSet

(* Nothing in flight, no job due, and a listener on the chain. *)
Quiescent ==
    /\ up /\ storeSet
    /\ fetch = NoFetch
    /\ tasks = {} /\ runs = {}
    /\ \A c \in Contexts : inbox[c] = <<>> /\ socket[c] # "connecting"
    /\ \A t \in timers : t.at > Sched!SystemClock

WorldMayMove == Calm => Quiescent \/ ~up

-----------------------------------------------------------------------------
(* The chain moves, and every connected context is told.  What happens while
   a context is not connected is not sent again. *)
Announce(kind, s, r) ==
    /\ \A c \in Contexts :
          Len(inbox[c]) + Cardinality({t \in tasks : t.ctx = c}) < MaxPending
    /\ inbox' = [c \in Contexts |->
                    IF IsOpen(c) /\ up
                    THEN Append(inbox[c], [kind |-> kind, sarco |-> s, res |-> r])
                    ELSE inbox[c]]
    /\ UNCHANGED <<now, socket, up, storeVars, fetch, tasks, jobVars, runVars, crashes>>

ContractEvent ==
    /\ WorldMayMove
    /\ \E s \in Sarcos :
          \/ \E r \in Times : Create(s, r) /\ Announce("create", s, r)
          \/ \E r \in Times : Rewrap(s, r) /\ Announce("rewrap", s, r)
          \/ Bury(s) /\ Announce("bury", s, 0)
          \/ Accuse(s) /\ Announce("accuse", s, 0)
          \/ Clean(s) /\ Announce("clean", s, 0)

SubgraphIndexes ==
    /\ \E s \in Sarcos : Index(s)
    /\ UNCHANGED <<now, linkVars, storeVars, fetch, tasks, jobVars, runVars, crashes>>

Tick ==
    /\ Calm => Quiescent
    /\ now < MaxTime
    /\ now' = now + 1
    /\ UNCHANGED <<sarco, indexed, linkVars, storeVars, fetch, tasks, jobVars, runVars, crashes>>

(* resetNetworkContext: a context with a fresh provider, which connects; jobs
   and handlers of the old context keep using the old one. *)
ResetNetworkContext(sockets) ==
    \E n \in Contexts :
        /\ sockets[n] = "unused"
        /\ \A m \in Contexts : sockets[m] = "unused" => n <= m
        /\ socket' = [sockets EXCEPT ![n] = "connecting"]

(* The websocket's "close" handler.  What waits for that connection is never
   answered; a query to the subgraph goes over HTTP. *)
ConnectionClosed(c) ==
    /\ WorldMayMove
    /\ socket[c] \in {"connecting", "open"}
    /\ ResetNetworkContext([socket EXCEPT ![c] = "closed"])
    /\ inbox' = [inbox EXCEPT ![c] = <<>>]
    /\ fetch' = IF fetch.ctx = c /\ fetch.at # "query" THEN NoFetch ELSE fetch
    /\ tasks' = {t \in tasks : t.ctx # c}
    /\ UNCHANGED <<contractVars, up, storeVars, jobVars, runVars, crashes>>

(* The provider's "error" handler: the old listeners stay subscribed. *)
ProviderError(c) ==
    /\ "rpc" \in Faults
    /\ WorldMayMove
    /\ IsOpen(c)
    /\ ResetNetworkContext(socket)
    /\ UNCHANGED <<contractVars, inbox, up, storeVars, fetch, tasks, jobVars, runVars, crashes>>

Connected(c) ==
    /\ socket[c] = "connecting"
    /\ socket' = [socket EXCEPT ![c] = "open"]
    /\ UNCHANGED <<contractVars, inbox, up, storeVars, fetch, tasks, jobVars, runVars, crashes>>

ProcessDies ==
    /\ up' = FALSE
    /\ socket' = [c \in Contexts |-> "unused"]
    /\ inbox' = [c \in Contexts |-> <<>>]
    /\ storeSet' = FALSE /\ tracked' = {} /\ dead' = {}
    /\ fetch' = NoFetch
    /\ tasks' = {}
    /\ Sched!ProcessLost
    /\ publishing' = {} /\ mined' = {}
    /\ UNCHANGED contractVars

(* Killed, or an error nothing catches: a failed call for the grace period
   or the profile, or in a handler (Node exits on an unhandled rejection). *)
Crash ==
    /\ up
    /\ crashes < MaxCrashes
    /\ crashes' = crashes + 1
    /\ ProcessDies

(* docker-compose.yml: restart on failure. *)
Restart ==
    /\ ~up
    /\ up' = TRUE
    /\ socket' = FirstSocket
    /\ fetch' = FirstFetch
    /\ UNCHANGED <<contractVars, inbox, storeVars, tasks, jobVars, runVars, crashes>>

-----------------------------------------------------------------------------
(* Handlers of contract events, from the call to the first await. *)

CreateSarcoHandler(c, e) ==
    /\ e.kind = "create"
    /\ tasks' = tasks \cup {Task("createTime", e.sarco, c, e.res, 0)}
    /\ UNCHANGED storeVars

IgnoredEvent(e) ==
    /\ storeSet
    /\ \/ e.kind # "create" /\ e.sarco \notin tracked
       \/ e.kind \in {"clean", "accuse"} /\ ~ThirdPartyDecoded
    /\ UNCHANGED <<tasks, storeVars>>

RewrapHandler(c, e) ==
    /\ e.kind = "rewrap"
    /\ storeSet /\ e.sarco \in tracked
    /\ tasks' = tasks \cup {Task("rewrapTime", e.sarco, c, e.res, 0)}
    /\ UNCHANGED storeVars

(* The clean and the bury handler; neither touches the job. *)
RemoveHandler(e) ==
    /\ \/ e.kind = "bury"
       \/ e.kind = "clean" /\ ThirdPartyDecoded
    /\ storeSet /\ e.sarco \in tracked
    /\ Untrack(e.sarco)
    /\ tasks' = Unlinked(tasks)

AccuseHandler(c, e) ==
    /\ e.kind = "accuse" /\ ThirdPartyDecoded
    /\ storeSet /\ e.sarco \in tracked
    /\ tasks' = tasks \cup {Task("accuseRead", e.sarco, c, 0, 0)}
    /\ UNCHANGED storeVars

DeliverEvent(c) ==
    /\ inbox[c] # <<>>
    /\ LET e == Head(inbox[c])
       IN  \/ CreateSarcoHandler(c, e)
           \/ IgnoredEvent(e)
           \/ RewrapHandler(c, e)
           \/ RemoveHandler(e)
           \/ AccuseHandler(c, e)
    /\ inbox' = [inbox EXCEPT ![c] = Tail(@)]
    /\ UNCHANGED <<contractVars, socket, up, fetch, jobVars, runVars, crashes>>

(* inMemoryStore.get(chainId)!. before the first sync has set the entry. *)
StoreUnset ==
    /\ ~storeSet
    /\ \/ \E c \in Contexts : inbox[c] # <<>> /\ Head(inbox[c]).kind # "create"
       \/ \E t \in tasks : t.at = "createTime"
    /\ ProcessDies
    /\ UNCHANGED crashes

(* The rest of the handlers, one answer at a time. *)

CreateTime(t) ==
    /\ t.at = "createTime"
    /\ storeSet
    /\ \E b \in BlockTimestamp : Sched!SchedulePublish(t.sarco, b, t.res, t.ctx)
    /\ tasks' = (tasks \ {t}) \cup {[t EXCEPT !.at = "createArch"]}
    /\ UNCHANGED storeVars

CreateArch(t) ==
    /\ t.at = "createArch"
    /\ tracked' = tracked \cup {t.sarco}
    /\ tasks' = tasks \ {t}
    /\ UNCHANGED <<storeSet, dead, jobVars>>

(* Mutant: the new resurrection time is only logged. *)
RewrapTimeUnscheduled(t) ==
    /\ t.at = "rewrapTime"
    /\ tasks' = tasks \ {t}
    /\ UNCHANGED <<storeVars, jobVars>>

RewrapTime(t) ==
    /\ t.at = "rewrapTime"
    /\ \E b \in BlockTimestamp : Sched!SchedulePublish(t.sarco, b, t.res, t.ctx)
    /\ tasks' = tasks \ {t}
    /\ UNCHANGED storeVars

(* Mutant: cancelSheduledPublish is forgotten. *)
AccuseReadUncancelled(t) ==
    /\ t.at = "accuseRead"
    /\ IF sarco[t.sarco].status = "compromised"
       THEN Untrack(t.sarco) /\ tasks' = Unlinked(tasks \ {t})
       ELSE UNCHANGED storeVars /\ tasks' = tasks \ {t}
    /\ UNCHANGED jobVars

AccuseRead(t) ==
    /\ t.at = "accuseRead"
    /\ \/ /\ sarco[t.sarco].status = "compromised"
          /\ Untrack(t.sarco)
          /\ Sched!CancelScheduledPublish(t.sarco)
          /\ tasks' = Unlinked(tasks \ {t})
       \/ /\ sarco[t.sarco].status # "compromised"
          /\ tasks' = tasks \ {t}
          /\ UNCHANGED <<storeVars, jobVars>>

HandlerStep ==
    /\ \E t \in tasks :
          /\ IsOpen(t.ctx)
          /\ CreateTime(t) \/ (CreateArch(t) \/ (RewrapTime(t) \/ AccuseRead(t)))
    /\ UNCHANGED <<contractVars, linkVars, fetch, runVars, crashes>>

-----------------------------------------------------------------------------
(* fetchProfileAndSchedulePublish and fetchSarcophagiAndSchedulePublish. *)

(* The refetch interval was set up with the context of the start. *)
RefetchInterval ==
    /\ Refetch /\ up
    /\ WorldMayMove
    /\ fetch = NoFetch /\ IsOpen(0)
    /\ fetch' = FirstFetch
    /\ UNCHANGED <<contractVars, linkVars, storeVars, tasks, jobVars, runVars, crashes>>

(* Grace period and profile, then the one block timestamp of this sync. *)
FetchProfile ==
    /\ fetch.at = "profile"
    /\ IsOpen(fetch.ctx)
    /\ \E b \in BlockTimestamp : fetch' = [fetch EXCEPT !.at = "query", !.block = b]
    /\ UNCHANGED <<contractVars, linkVars, storeVars, tasks, jobVars, runVars, crashes>>

(* The first page, latest resurrection first. *)
Page(P) ==
    /\ P \subseteq indexed
    /\ Cardinality(P) = IF Cardinality(indexed) < PageSize THEN Cardinality(indexed)
                                                           ELSE PageSize
    /\ \A s \in P, u \in indexed \ P : sarco[s].res >= sarco[u].res

(* What getSarcophagi returns is looked up one by one, next to whatever else runs,
   and the store gets an array of its own. *)
Fetched(P) ==
    /\ tasks' = Unlinked(tasks) \cup
                  {Task("syncSarco", s, fetch.ctx, 0, fetch.block) : s \in P \ dead}
    /\ storeSet' = TRUE
    /\ tracked' = {}
    /\ fetch' = NoFetch
    /\ UNCHANGED dead

(* getSarcophagi: the query, which finds nothing when it fails.  The calls that
   follow wait for ever when the connection has closed meanwhile ... *)
QuerySubgraph ==
    /\ fetch.at = "query"
    /\ \/ /\ \E P \in SUBSET indexed :
                /\ Page(P)
                /\ fetch' = IF IsOpen(fetch.ctx) THEN [fetch EXCEPT !.at = "page", !.page = P]
                                                ELSE NoFetch
          /\ UNCHANGED <<storeVars, tasks>>
       \/ "subgraph" \in Faults /\ Fetched({})
    /\ UNCHANGED <<contractVars, linkVars, jobVars, runVars, crashes>>

(* ... and otherwise the block timestamp and the grace period, for the status of
   what the page shows; a failure loses the page. *)
FetchSarcophagi ==
    /\ fetch.at = "page"
    /\ IsOpen(fetch.ctx)
    /\ Fetched(fetch.page) \/ ("rpc" \in Faults /\ Fetched({}))
    /\ UNCHANGED <<contractVars, linkVars, jobVars, runVars, crashes>>

(* Mutant: the grace period is left out. *)
TooLateIgnoringGrace(s, b) == b > sarco[s].res

(* isSarcoInactive; a buried sarcophagus has resurrection time MaxUint256. *)
Inactive(s) == sarco[s].status \in {"buried", "compromised", "cleaned"}
TooLateToUnwrap(s, b) == b > sarco[s].res + Grace

SyncSarco(t) ==
    /\ t.at = "syncSarco"
    /\ \/ /\ Inactive(t.sarco) \/ TooLateToUnwrap(t.sarco, t.block)
          /\ dead' = dead \cup {t.sarco}
          /\ tasks' = tasks \ {t}
       \/ /\ ~Inactive(t.sarco) /\ ~TooLateToUnwrap(t.sarco, t.block)
          /\ tasks' = (tasks \ {t}) \cup
                        {[t EXCEPT !.at = "syncArch", !.res = sarco[t.sarco].res]}
          /\ UNCHANGED dead
    /\ UNCHANGED <<storeSet, tracked, jobVars>>

SyncArch(t) ==
    /\ t.at = "syncArch"
    /\ \/ /\ ~sarco[t.sarco].published
          /\ Sched!SchedulePublish(t.sarco, t.block, t.res, t.ctx)
          /\ tracked' = IF t.linked THEN tracked \cup {t.sarco} ELSE tracked
          /\ UNCHANGED dead
       \/ /\ sarco[t.sarco].published
          /\ dead' = dead \cup {t.sarco}
          /\ UNCHANGED <<tracked, jobVars>>
    /\ tasks' = tasks \ {t}
    /\ UNCHANGED storeSet

(* A failed call is logged: the sarcophagus is skipped until another sync. *)
SyncFails(t) ==
    /\ "rpc" \in Faults
    /\ t.at \in {"syncSarco", "syncArch"}
    /\ tasks' = tasks \ {t}
    /\ UNCHANGED <<storeVars, jobVars>>

SyncStep ==
    /\ \E t \in tasks :
          /\ IsOpen(t.ctx)
          /\ SyncSarco(t) \/ SyncArch(t) \/ SyncFails(t)
    /\ UNCHANGED <<contractVars, linkVars, fetch, runVars, crashes>>

-----------------------------------------------------------------------------
(* publishPrivateKey.  The job captured the context it was scheduled with.  *)

JobFires ==
    /\ \E t \in timers : Sched!StartPublish(t)
    /\ UNCHANGED <<contractVars, linkVars, storeVars, fetch, tasks, runVars, crashes>>

RunDerivesKey(r) ==
    /\ r \notin publishing
    /\ IsOpen(r.ctx)
    /\ publishing' = publishing \cup {r}
    /\ UNCHANGED <<contractVars, mined, storeVars, tasks, jobVars>>

RunPublishes(r) ==
    /\ r \in publishing \ mined
    /\ IsOpen(r.ctx)
    /\ Publish(r.sarco) /\ UNCHANGED now
    /\ mined' = mined \cup {r}
    /\ UNCHANGED <<publishing, storeVars, tasks, jobVars>>

(* Mutant: the in-process entry survives the run. *)
RunEndsInProcess(r) ==
    /\ runs' = runs \ {r}
    /\ publishing' = publishing \ {r}
    /\ mined' = mined \ {r}
    /\ UNCHANGED <<contractVars, timers, slot, inProcess>>

(* Mutant: the derived key outlives the run. *)
RunEndsWithKey(r) ==
    /\ Sched!EndPublish(r)
    /\ mined' = mined \ {r}
    /\ UNCHANGED <<contractVars, publishing>>

RunEnds(r) ==
    /\ Sched!EndPublish(r)
    /\ publishing' = publishing \ {r}
    /\ mined' = mined \ {r}
    /\ UNCHANGED contractVars

RunSucceeds(r) ==
    /\ r \in mined
    /\ IsOpen(r.ctx)
    /\ Untrack(r.sarco)
    /\ tasks' = Unlinked(tasks)
    /\ RunEnds(r)

(* rpcCallWithTimeout gives up on a lookup; the contract keeps reverting or
   the calls keep failing until retryFn gives up; or the wait fails.  None of
   these but the lookup has a timeout: on a dead connection they hang. *)
RunFails(r) ==
    /\ \/ r \notin publishing /\ (~IsOpen(r.ctx) \/ "rpc" \in Faults)
       \/ /\ r \in publishing \ mined /\ IsOpen(r.ctx)
          /\ ~PublishAccepted(r.sarco) \/ "rpc" \in Faults
       \/ r \in mined /\ IsOpen(r.ctx) /\ "rpc" \in Faults
    /\ RunEnds(r)
    /\ UNCHANGED <<storeVars, tasks>>

PublishStep ==
    /\ \E r \in runs :
          RunDerivesKey(r) \/ RunPublishes(r) \/ RunSucceeds(r) \/ RunFails(r)
    /\ UNCHANGED <<linkVars, fetch, crashes>>

-----------------------------------------------------------------------------
ProcessStep ==
    \/ \E c \in Contexts : Connected(c) \/ DeliverEvent(c)
    \/ StoreUnset \/ Restart
    \/ HandlerStep
    \/ FetchProfile \/ QuerySubgraph \/ FetchSarcophagi \/ SyncStep
    \/ JobFires \/ PublishStep

EnvironmentStep ==
    \/ ContractEvent \/ SubgraphIndexes
    \/ \E c \in Contexts : ConnectionClosed(c) \/ ProviderError(c)
    \/ Crash \/ RefetchInterval

Next == ProcessStep \/ EnvironmentStep \/ Tick

Spec == Init /\ [][Next]_vars

(* The event loop runs whatever is ready, calls on an open connection are
   answered, docker restarts the process, and time passes. *)
FairSpec == Spec /\ WF_vars(ProcessStep) /\ SF_vars(Tick)

-----------------------------------------------------------------------------
(* The service only ever uses jobs the way the scheduler specifies. *)
RefinesScheduler == Sched!Spec

(* A sarcophagus in deadSarcophagusIds is skipped by every later sync, so it
   must not be one whose key still has to be published: of the handlers, the
   sync callbacks and the publications, none may enter it early, on whatever
   old answers it acts and however they interleave. *)
DeadIsFinal == \A s \in dead : ~Owed(s)

(* At rest, every sarcophagus whose key is owed has a job for the current
   resurrection time, on a connection that still works.  ("Automatically
   schedule a profile publish when the relevant event is received".) *)
ScheduleTracksChain ==
    Quiescent => \A s \in Sarcos :
        Owed(s) => \E t \in timers :
            t.sarco = s /\ t.res = sarco[s].res /\ IsOpen(t.ctx)

(* At rest, no job is left for a compromised sarcophagus. *)
CompromisedIsCancelled ==
    Quiescent => \A t \in timers : sarco[t.sarco].status # "compromised"

(* The bond is never lost: the grace period of an active sarcophagus does not end
   without its key on chain.  However the process died, the jobs it lost were made
   anew in time; however often they were made anew, they were not put off; and no
   publication came so early that the contract refused it. *)
NoKeyOverdue == \A s \in Sarcos : Active(s) /\ ~sarco[s].published => ~GraceOver(s)

(* publishPrivateKey is not repeated: what failed is logged.  So a publication
   that ends, other than by the end of the process, must not leave its key owed. *)
PublicationsSettle ==
    [][\A r \in runs : r \notin runs' /\ up' => ~Owed(r.sarco)']_vars

(* At rest, only active sarcophagi have a job. *)
InactiveUnscheduled ==
    Quiescent => \A t \in timers : ~Inactive(t.sarco)

(* What the archaeologist is there for: a sarcophagus that is neither buried
   nor compromised gets its key published, before the grace period is over
   as the contract accepts no other. *)
EveryKeyPublished ==
    \A s \in Sarcos :
        Active(s) ~> (sarco[s].published \/ sarco[s].status \in {"buried", "compromised"})

=============================================================================
