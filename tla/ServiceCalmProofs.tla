-------------------------- MODULE ServiceCalmProofs --------------------------
(***************************************************************************)
(* The service in a calm deployment: when nothing fails but the process    *)
(* itself, connections last, and the world leaves the service the time to  *)
(* finish what it does, every key that is owed keeps a job, for any        *)
(* numbers of sarcophagi, crashes and refetches.                           *)
(***************************************************************************)
EXTENDS ServiceSafetyProofs, FiniteSetTheorems, SequenceTheorems

(* What the runs service_busy, service_page and service_reconnect do without,
   and what no code of the service could make up for: an index that lags and
   calls that fail during the sync. *)
CalmDeployment ==
    /\ Calm
    /\ MaxResets = 0
    /\ ~SubgraphLags /\ Faults \subseteq {"timestamp"}
    /\ ClockNotAhead
    /\ IsFiniteSet(Sarcos) /\ Cardinality(Sarcos) <= PageSize

-----------------------------------------------------------------------------
(* The service at rest in between: it does one thing at a time. *)

Synced(t) == t.at \in {"syncSarco", "syncArch"}
NoneDue == \A t \in timers : t.at > Sched!SystemClock
Busy == fetch # NoFetch \/ tasks # {} \/ inbox[0] # <<>>

OneAtATime ==
    /\ Busy => up /\ runs = {} /\ NoneDue
    /\ ~up => timers = {} /\ runs = {}
    /\ up => socket[0] \in {"connecting", "open"}
    /\ up => fetch # NoFetch \/ (storeSet /\ socket[0] = "open")
    /\ fetch # NoFetch => tasks = {} /\ inbox[0] = <<>>
    /\ inbox[0] # <<>> => Len(inbox[0]) = 1 /\ tasks = {}
    /\ \A t \in tasks : Synced(t) \/ tasks = {t}

(* What the chain guarantees of the sarcophagi. *)
ChainCalm ==
    /\ \A s \in Sarcos : sarco[s].status # "absent" => s \in indexed
    /\ \A s \in Sarcos : sarco[s].published => sarco[s].res <= now

(* A pending event, or a handler or callback waiting for an answer, carries
   what is on chain, for nothing moves while it is pending. *)
EventRight(e) ==
    /\ e.kind \in {"create", "rewrap"} =>
          /\ sarco[e.sarco].status = "active"
          /\ e.res = sarco[e.sarco].res /\ now < e.res
    /\ e.kind \in {"rewrap", "accuse"} => e.sarco \in tracked

TaskRight(t) ==
    /\ t.at \in {"createTime", "createArch", "rewrapTime", "syncArch"} =>
          /\ sarco[t.sarco].status # "compromised"
          /\ t.res = sarco[t.sarco].res
    /\ t.at \in {"createTime", "rewrapTime"} => now < t.res
    /\ t.at \in {"rewrapTime", "accuseRead"} => t.sarco \in tracked
    /\ t.at = "createArch" => \E j \in timers : j.sarco = t.sarco /\ j.res = t.res
    /\ Synced(t) => t.linked /\ t.block \in BlockTimestamp

PendingRight ==
    /\ inbox[0] # <<>> => EventRight(inbox[0][1])
    /\ \A t \in tasks : TaskRight(t)
    /\ fetch.at \in {"query", "page"} => fetch.block \in BlockTimestamp /\ socket[0] = "open"
    /\ fetch.at = "page" => \A s \in Sarcos : sarco[s].status # "absent" => s \in fetch.page

(* A new resurrection time is on its way to the scheduler. *)
NewTime(s) ==
    \/ inbox[0] # <<>> /\ inbox[0][1].kind \in {"create", "rewrap"} /\ inbox[0][1].sarco = s
    \/ \E t \in tasks : t.at \in {"createTime", "rewrapTime"} /\ t.sarco = s

Accused(s) ==
    \/ inbox[0] # <<>> /\ inbox[0][1].kind = "accuse" /\ inbox[0][1].sarco = s
    \/ \E t \in tasks : t.at = "accuseRead" /\ t.sarco = s

(* Jobs, and the publications they became. *)
JobsRight ==
    /\ \A t \in timers : Owed(t.sarco) => t.res = sarco[t.sarco].res \/ NewTime(t.sarco)
    /\ \A r \in runs : Owed(r.sarco) => sarco[r.sarco].res <= now

CompromisedRight ==
    ThirdPartyDecoded =>
        \A t \in timers : sarco[t.sarco].status = "compromised" => Accused(t.sarco)

Scheduled(s) ==
    /\ s \in tracked
    /\ \E t \in timers : t.sarco = s /\ t.res = sarco[s].res

(* Somebody will see to the key: a job, the sync, the handler that was told, or
   a publication. *)
Covered(s) ==
    \/ Scheduled(s)
    \/ fetch # NoFetch
    \/ \E t \in tasks : t.sarco = s /\ Synced(t)
    \/ NewTime(s)
    \/ \E t \in tasks : t.sarco = s /\ t.at = "createArch"
    \/ \E r \in runs : r.sarco = s

OwedCovered == up => \A s \in Sarcos : Owed(s) => Covered(s)

CalmInv ==
    /\ OneAtATime
    /\ ChainCalm
    /\ PendingRight
    /\ JobsRight
    /\ CompromisedRight
    /\ OwedCovered

(* What holds of any deployment whose system clock is not ahead. *)
Known == TypeInv /\ DeadInv /\ JobInv /\ EarlyInv

-----------------------------------------------------------------------------
LEMMA KnownInvariant == ClockNotAhead => (Spec => []Known)
<1> SUFFICES ASSUME ClockNotAhead
             PROVE  Spec => []Known
  OBVIOUS
<1>1. ClockSafe
  BY DEF ClockSafe
<1>2. TypeInv /\ DeadInv /\ JobInv /\ EarlyInv => Known
  BY DEF Known
<1> QED BY <1>1, <1>2, TypeInvariant, DeadInvariant, JobInvariant, EarlyInvariant, PTL

(* There is but one network context, and its connection lasts. *)
LEMMA OneContext ==
    ASSUME CalmDeployment
    PROVE  /\ Contexts = {0}
           /\ \A c \in Contexts : ~ProviderError(c)
           /\ OneAtATime => \A c \in Contexts : ~ConnectionClosed(c)
<1>1. Contexts = {0}
  BY DEF CalmDeployment, Contexts
<1>2. \A c \in Contexts : ~ProviderError(c)
  BY DEF CalmDeployment, ProviderError
<1>3. ASSUME OneAtATime, NEW c \in Contexts, ConnectionClosed(c)
      PROVE  FALSE
  <2>1. PICK n \in Contexts : [socket EXCEPT ![c] = "closed"][n] = "unused"
    BY <1>3 DEF ConnectionClosed, ResetNetworkContext
  <2>2. n = 0 /\ c = 0
    BY <1>1, <2>1
  <2>3. socket[n] = "unused"
    BY <2>1, <2>2
  <2> QED BY <1>3, <2>2, <2>3 DEF ConnectionClosed
<1> QED BY <1>1, <1>2, <1>3

(* At rest every key that is owed has a job, and every job is right. *)
LEMMA AtRest ==
    ASSUME CalmInv, Quiescent
    PROVE  /\ up /\ storeSet
           /\ fetch = NoFetch /\ tasks = {} /\ runs = {} /\ inbox[0] = <<>>
           /\ socket[0] = "open"
           /\ NoneDue
           /\ \A s \in Sarcos : Owed(s) => Scheduled(s)
           /\ \A t \in timers : Owed(t.sarco) => t.res = sarco[t.sarco].res
           /\ ThirdPartyDecoded => \A t \in timers : sarco[t.sarco].status # "compromised"
<1>0. 0 \in Contexts
  BY ServiceAssumption DEF Contexts
<1>1. /\ up /\ storeSet /\ socket[0] = "open" /\ NoneDue
      /\ fetch = NoFetch /\ tasks = {} /\ runs = {} /\ inbox[0] = <<>>
  BY <1>0 DEF Quiescent, CalmInv, OneAtATime, NoneDue
<1>2. \A s : ~NewTime(s) /\ ~Accused(s)
  BY <1>1 DEF NewTime, Accused
<1> QED BY <1>1, <1>2 DEF CalmInv, OwedCovered, Covered, JobsRight, CompromisedRight

(* Only what exists is indexed, and all of it; a key is on chain only after the
   resurrection time, which is then fixed. *)
LEMMA ChainCalmStep ==
    ASSUME CalmDeployment, TypeInv, DeadInv, ChainCalm, [Next]_vars
    PROVE  ChainCalm'
<1>0. ChainInv /\ PublishedExists
  BY DEF TypeInv, ServiceInv, DeadInv
<1>00. now \in Nat /\ \A s \in Sarcos : sarco[s].res \in Nat
  <2>1. Times \cup {0} \subseteq Nat
    BY ContractAssumption
  <2> QED BY <1>0, <2>1 DEF ChainInv, ContractTypeOK
<1>4. CASE Tick
  BY <1>00, <1>4 DEF Tick, ChainCalm
<1> USE <1>0, <1>00 DEF ChainCalm, ChainInv, ContractTypeOK, Status, PublishedExists
<1>1. CASE UNCHANGED contractVars
  BY <1>1 DEF contractVars
<1>2. CASE ContractEvent
  <2>1. PICK s \in Sarcos :
           /\ \/ \E r \in Times : Create(s, r) \/ Rewrap(s, r)
              \/ Bury(s) \/ Accuse(s) \/ Clean(s)
           /\ UNCHANGED now
    BY <1>2 DEF ContractEvent, Announce
  <2>2. ASSUME NEW r \in Times, Create(s, r)
        PROVE  ChainCalm'
    BY <2>1, <2>2 DEF Create, CalmDeployment
  <2>3. ASSUME NEW r \in Times, Rewrap(s, r)
        PROVE  ChainCalm'
    <3>1. ~sarco[s].published
      BY <2>3 DEF Rewrap
    <3> QED BY <2>1, <2>3, <3>1 DEF Rewrap, Active
  <2>4. CASE Bury(s)
    BY <2>1, <2>4 DEF Bury, Active
  <2>5. CASE Accuse(s)
    BY <2>1, <2>5 DEF Accuse, Active
  <2>6. CASE Clean(s)
    BY <2>1, <2>6 DEF Clean, Active
  <2> QED BY <2>1, <2>2, <2>3, <2>4, <2>5, <2>6
<1>3. CASE SubgraphIndexes
  BY <1>3 DEF SubgraphIndexes, Index
<1>5. ASSUME NEW r \in runs, RunPublishes(r)
      PROVE  ChainCalm'
  BY <1>5 DEF RunPublishes, Publish, PublishAccepted
<1> QED BY <1>1, <1>2, <1>3, <1>4, <1>5, ChainFrame

-----------------------------------------------------------------------------
(* The world moves.  Nobody is told while the service is down. *)
LEMMA DownEvent ==
    ASSUME CalmDeployment, Known, CalmInv, ContractEvent, ~up, ChainCalm'
    PROVE  CalmInv'
<1>1. /\ ~Busy /\ timers = {} /\ runs = {}
      /\ inbox[0] = <<>> /\ tasks = {} /\ fetch = NoFetch
  BY DEF CalmInv, OneAtATime, Busy
<1>2. 0 \in Contexts
  BY ServiceAssumption DEF Contexts
<1>3. UNCHANGED <<socket, up, storeVars, fetch, tasks, jobVars>> /\ inbox'[0] = inbox[0]
  BY <1>2 DEF ContractEvent, Announce
<1> QED BY <1>1, <1>3 DEF CalmInv, OneAtATime, Busy, PendingRight, JobsRight, CompromisedRight,
           OwedCovered, storeVars, jobVars, NoFetch

(* At rest, the event is all there is to do. *)
LEMMA Announced ==
    ASSUME CalmDeployment, Known, CalmInv, Quiescent,
           NEW kind, NEW s, NEW r, Announce(kind, s, r)
    PROVE  /\ inbox'[0] = <<[kind |-> kind, sarco |-> s, res |-> r]>>
           /\ UNCHANGED <<now, socket, up, storeVars, fetch, tasks, jobVars>>
           /\ OneAtATime'
<1> DEFINE e == [kind |-> kind, sarco |-> s, res |-> r]
<1>0. 0 \in Contexts
  BY ServiceAssumption DEF Contexts
<1>1. inbox[0] = <<>> /\ up /\ socket[0] = "open"
  BY AtRest
<1>2. inbox'[0] = <<e>>
  <2>1. inbox'[0] = Append(inbox[0], e)
    BY <1>0, <1>1 DEF Announce, IsOpen
  <2> HIDE DEF e
  <2> QED BY <1>1, <2>1
<1>3. UNCHANGED <<now, socket, up, storeVars, fetch, tasks, jobVars>>
  BY DEF Announce
<1>4. OneAtATime'
  <2>1. Len(inbox'[0]) = 1
    BY <1>2
  <2> QED BY <1>3, <2>1, AtRest
          DEF OneAtATime, NoneDue, storeVars, jobVars, Sched!SystemClock, Busy
<1> QED BY <1>2, <1>3, <1>4

(* An event leaves the invariant to its handler, if it carries what is on chain
   and, unless it brings a new resurrection time, makes no job wrong. *)
LEMMA AnnouncedCalm ==
    ASSUME CalmDeployment, Known, CalmInv, Quiescent, ChainCalm',
           NEW kind, NEW s \in Sarcos, NEW r, Announce(kind, s, r),
           \A u \in Sarcos \ {s} : sarco'[u] = sarco[u],
           kind \in {"create", "rewrap"} =>
              sarco'[s].status = "active" /\ r = sarco'[s].res /\ now < r,
           kind \in {"rewrap", "accuse"} => s \in tracked,
           kind \notin {"create", "rewrap"} =>
              (Owed(s)' => Owed(s) /\ sarco'[s].res = sarco[s].res),
           sarco'[s].status = "compromised" => kind = "accuse"
    PROVE  CalmInv'
<1>1. /\ inbox'[0] = <<[kind |-> kind, sarco |-> s, res |-> r]>>
      /\ UNCHANGED <<now, socket, up, storeVars, fetch, tasks, jobVars>>
      /\ OneAtATime'
  BY Announced
<1>2. /\ inbox'[0] # <<>> /\ inbox'[0][1].kind = kind
      /\ inbox'[0][1].sarco = s /\ inbox'[0][1].res = r
  BY <1>1
<1>3. /\ tasks' = {} /\ runs' = {} /\ fetch' = NoFetch
      /\ timers' = timers /\ tracked' = tracked /\ now' = now
  BY <1>1, AtRest DEF storeVars, jobVars
<1>4. \A t \in timers : t.sarco \in Sarcos
  BY DEF Known, TypeInv, Sched!TypeOK, Sched!Job
<1>5. \A u \in Sarcos \ {s} : Owed(u)' <=> Owed(u)
  BY <1>3 DEF Owed, Active, GraceOver
<1>6. PendingRight'
  BY <1>2, <1>3 DEF PendingRight, EventRight, NoFetch
<1>7. kind \in {"create", "rewrap"} => NewTime(s)'
  BY <1>2 DEF NewTime
<1>8. JobsRight'
  <2>1. ASSUME NEW t \in timers, Owed(t.sarco)'
        PROVE  t.res = sarco'[t.sarco].res \/ NewTime(t.sarco)'
    BY <1>4, <1>5, <1>7, <2>1, AtRest
  <2> QED BY <1>3, <2>1 DEF JobsRight
<1>9. CompromisedRight'
  <2>1. kind = "accuse" => Accused(s)'
    BY <1>2 DEF Accused
  <2>2. ASSUME ThirdPartyDecoded, NEW t \in timers, sarco'[t.sarco].status = "compromised"
        PROVE  Accused(t.sarco)'
    BY <1>4, <2>1, <2>2, AtRest
  <2> QED BY <1>3, <2>2 DEF CompromisedRight
<1>10. OwedCovered'
  <2>1. ASSUME NEW u \in Sarcos, Owed(u)'
        PROVE  Covered(u)'
    <3>1. CASE u = s /\ kind \in {"create", "rewrap"}
      BY <1>7, <3>1 DEF Covered
    <3>2. CASE ~(u = s /\ kind \in {"create", "rewrap"})
      <4>1. Owed(u) /\ sarco'[u].res = sarco[u].res
        BY <1>5, <2>1, <3>2
      <4>2. Scheduled(u)
        BY <4>1, AtRest
      <4> QED BY <1>3, <4>1, <4>2 DEF Covered, Scheduled
    <3> QED BY <3>1, <3>2
  <2> QED BY <2>1 DEF OwedCovered
<1> QED BY <1>1, <1>6, <1>8, <1>9, <1>10 DEF CalmInv

(* What is rewrapped or accused is owed, so it is tracked: its handler will not
   take it for another archaeologist's. *)
LEMMA BeforeItsTime ==
    ASSUME Known, CalmInv, Quiescent, NEW s \in Sarcos, Active(s), now < sarco[s].res
    PROVE  Owed(s) /\ s \in tracked
<1>1. /\ now \in Nat /\ sarco[s].published \in BOOLEAN
      /\ sarco[s].res \in Times
  BY DEF Known, TypeInv, ServiceInv, ChainInv, ContractTypeOK, Active
<1>2. sarco[s].res \in Nat /\ Grace \in Nat
  BY <1>1, ContractAssumption
<1>3. ~sarco[s].published
  BY <1>1, <1>2 DEF CalmInv, ChainCalm
<1>4. Owed(s)
  BY <1>1, <1>2, <1>3 DEF Owed, GraceOver
<1> QED BY <1>4, AtRest DEF Scheduled

LEMMA EventCalm ==
    ASSUME CalmDeployment, Known, CalmInv, ContractEvent, ChainCalm'
    PROVE  CalmInv'
<1>1. CASE ~up
  BY <1>1, DownEvent
<1>2. CASE Quiescent
  <2>0. /\ ChainInv /\ sarco \in [Sarcos -> [status : Status, res : Times \cup {0},
                                          published : BOOLEAN]]
    BY DEF Known, TypeInv, ServiceInv, ChainInv, ContractTypeOK
  <2>1. PICK s \in Sarcos :
          \/ \E r \in Times : Create(s, r) /\ Announce("create", s, r)
          \/ \E r \in Times : Rewrap(s, r) /\ Announce("rewrap", s, r)
          \/ Bury(s) /\ Announce("bury", s, 0)
          \/ Accuse(s) /\ Announce("accuse", s, 0)
          \/ Clean(s) /\ Announce("clean", s, 0)
    BY DEF ContractEvent
  <2>2. ASSUME NEW r \in Times, Create(s, r), Announce("create", s, r)
        PROVE  CalmInv'
    <3>1. sarco' = [sarco EXCEPT ![s] = [status |-> "active", res |-> r, published |-> FALSE]]
          /\ now < r
      BY <2>2, ContractAssumption DEF Create, Known, TypeInv, ServiceInv, ChainInv, ContractTypeOK
    <3>2. sarco'[s].status = "active" /\ sarco'[s].res = r
      BY <2>0, <3>1
    <3>3. \A u \in Sarcos \ {s} : sarco'[u] = sarco[u]
      BY <2>0, <3>1
    <3> QED BY <1>2, <2>2, <3>1, <3>2, <3>3, AnnouncedCalm
  <2>3. ASSUME NEW r \in Times, Rewrap(s, r), Announce("rewrap", s, r)
        PROVE  CalmInv'
    <3>1. sarco' = [sarco EXCEPT ![s].res = r] /\ now < r /\ Active(s) /\ now < sarco[s].res
      BY <2>3, ContractAssumption DEF Rewrap, Known, TypeInv, ServiceInv, ChainInv, ContractTypeOK
    <3>2. sarco'[s].status = "active" /\ sarco'[s].res = r
      BY <2>0, <3>1 DEF Active
    <3>3. \A u \in Sarcos \ {s} : sarco'[u] = sarco[u]
      BY <2>0, <3>1
    <3>4. s \in tracked
      BY <1>2, <3>1, BeforeItsTime
    <3> QED BY <1>2, <2>3, <3>1, <3>2, <3>3, <3>4, AnnouncedCalm
  <2>4. ASSUME NEW kind \in {"bury", "clean", "accuse"}, Announce(kind, s, 0), Active(s),
               \A u \in Sarcos \ {s} : sarco'[u] = sarco[u],
               sarco'[s].res = sarco[s].res, sarco'[s].published = sarco[s].published,
               sarco'[s].status = "compromised" => kind = "accuse",
               kind = "accuse" => s \in tracked
        PROVE  CalmInv'
    <3>1. now' = now
      BY <2>4 DEF Announce
    <3>2. Owed(s)' => Owed(s)
      BY <2>4, <3>1 DEF Owed, Active, GraceOver
    <3> QED BY <1>2, <2>4, <3>2, AnnouncedCalm
  <2>5. CASE Bury(s) /\ Announce("bury", s, 0)
    <3>1. Active(s) /\ sarco' = [sarco EXCEPT ![s].status = "buried"]
      BY <2>5 DEF Bury
    <3>2. /\ sarco'[s].res = sarco[s].res /\ sarco'[s].published = sarco[s].published
          /\ \A u \in Sarcos \ {s} : sarco'[u] = sarco[u]
          /\ sarco'[s].status = "buried"
      BY <2>0, <3>1
    <3> QED BY <2>4, <2>5, <3>1, <3>2
  <2>6. CASE Accuse(s) /\ Announce("accuse", s, 0)
    <3>1. PICK status \in {"active", "compromised"} : sarco' = [sarco EXCEPT ![s].status = status]
      BY <2>6 DEF Accuse
    <3>2. /\ sarco'[s].res = sarco[s].res /\ sarco'[s].published = sarco[s].published
          /\ \A u \in Sarcos \ {s} : sarco'[u] = sarco[u]
      BY <2>0, <3>1
    <3>3. Active(s) /\ s \in tracked
      BY <1>2, <2>6, BeforeItsTime DEF Accuse
    <3> QED BY <2>4, <2>6, <3>2, <3>3
  <2>7. CASE Clean(s) /\ Announce("clean", s, 0)
    <3>1. Active(s) /\ sarco' = [sarco EXCEPT ![s].status = "cleaned"]
      BY <2>7 DEF Clean
    <3>2. /\ sarco'[s].res = sarco[s].res /\ sarco'[s].published = sarco[s].published
          /\ \A u \in Sarcos \ {s} : sarco'[u] = sarco[u]
          /\ sarco'[s].status = "cleaned"
      BY <2>0, <3>1
    <3> QED BY <2>4, <2>7, <3>1, <3>2
  <2> QED BY <2>1, <2>2, <2>3, <2>5, <2>6, <2>7
<1> QED BY <1>1, <1>2 DEF ContractEvent, WorldMayMove, CalmDeployment

-----------------------------------------------------------------------------
(* The process comes and goes. *)
LEMMA ChainStands ==
    ASSUME UNCHANGED contractVars
    PROVE  /\ now' = now /\ sarco' = sarco /\ indexed' = indexed
           /\ \A s : Owed(s)' <=> Owed(s)
           /\ BlockTimestamp' = BlockTimestamp
           /\ Sched!SystemClock' = Sched!SystemClock
  BY DEF contractVars, Owed, Active, GraceOver, BlockTimestamp, Sched!SystemClock

(* Nothing is left that could be wrong. *)
LEMMA DeathCalm ==
    ASSUME ProcessDies, ChainCalm'
    PROVE  CalmInv'
<1>1. 0 \in Contexts
  BY ServiceAssumption DEF Contexts
<1>2. /\ ~up' /\ timers' = {} /\ runs' = {} /\ tasks' = {} /\ fetch' = NoFetch
      /\ inbox'[0] = <<>>
  BY <1>1 DEF ProcessDies, Sched!ProcessLost
<1> QED BY <1>2 DEF CalmInv, OneAtATime, Busy, PendingRight, JobsRight, CompromisedRight,
                    OwedCovered, NoFetch

(* The sync of the start sees to all keys. *)
LEMMA RestartCalm ==
    ASSUME CalmInv, Restart, ChainCalm'
    PROVE  CalmInv'
<1>1. 0 \in Contexts
  BY ServiceAssumption DEF Contexts
<1>2. timers = {} /\ runs = {} /\ tasks = {} /\ inbox[0] = <<>>
  BY DEF Restart, CalmInv, OneAtATime, Busy
<1>3. /\ up' /\ timers' = {} /\ runs' = {} /\ tasks' = {} /\ inbox'[0] = <<>>
      /\ socket'[0] = "connecting" /\ fetch' = FirstFetch
  BY <1>1, <1>2 DEF Restart, FirstSocket, jobVars
<1>4. fetch'.at = "profile" /\ fetch' # NoFetch
  BY <1>3 DEF FirstFetch, NoFetch
<1> QED BY <1>3, <1>4 DEF CalmInv, OneAtATime, NoneDue, PendingRight, JobsRight,
                          CompromisedRight, OwedCovered, Covered

LEMMA ConnectedCalm ==
    ASSUME CalmDeployment, Known, CalmInv, NEW c \in Contexts, Connected(c), ChainCalm'
    PROVE  CalmInv'
<1>1. c = 0 /\ 0 \in Contexts
  BY OneContext
<1>2. socket \in [Contexts -> {"unused", "connecting", "open", "closed"}]
  BY DEF Known, TypeInv, ProcessInv
<1>3. socket'[0] = "open"
  BY <1>1, <1>2 DEF Connected
<1>4. UNCHANGED <<contractVars, inbox, up, storeVars, fetch, tasks, jobVars>>
  BY DEF Connected
<1>5. UNCHANGED <<now, sarco, timers, runs, tracked, storeSet>>
  BY <1>4 DEF contractVars, jobVars, storeVars
<1>6. OneAtATime'
  BY <1>3, <1>4, <1>5 DEF CalmInv, OneAtATime, Busy, NoneDue, Sched!SystemClock
<1>7. PendingRight' /\ CompromisedRight'
  BY <1>3, <1>4, <1>5 DEF CalmInv, PendingRight, EventRight, TaskRight, BlockTimestamp,
                    Sched!SystemClock, CompromisedRight, Accused
<1>8. JobsRight' /\ OwedCovered'
  BY <1>4, <1>5, ChainStands DEF CalmInv, JobsRight, OwedCovered, Covered, Scheduled, NewTime
<1> QED BY <1>6, <1>7, <1>8 DEF CalmInv

-----------------------------------------------------------------------------
(* Fetching the contract's data, once more. *)
LEMMA RefetchCalm ==
    ASSUME CalmDeployment, CalmInv, RefetchInterval, ChainCalm'
    PROVE  CalmInv'
<1>1. Quiescent
  BY DEF RefetchInterval, WorldMayMove, CalmDeployment
<1>2. UNCHANGED <<contractVars, linkVars, storeVars, tasks, jobVars>> /\ fetch' = FirstFetch
  BY DEF RefetchInterval
<1>3. UNCHANGED <<now, sarco, socket, inbox, up, storeSet, tracked, timers, runs>>
  BY <1>2 DEF contractVars, linkVars, storeVars, jobVars
<1>4. fetch'.at = "profile" /\ fetch' # NoFetch
  BY <1>2 DEF FirstFetch, NoFetch
<1>5. OneAtATime'
  BY <1>1, <1>2, <1>3, <1>4, AtRest DEF OneAtATime, NoneDue, Sched!SystemClock
<1>6. JobsRight' /\ CompromisedRight'
  BY <1>1, <1>2, <1>3, AtRest, ChainStands DEF JobsRight, CompromisedRight
<1>7. PendingRight' /\ OwedCovered'
  BY <1>1, <1>2, <1>3, <1>4, AtRest DEF PendingRight, OwedCovered, Covered
<1> QED BY <1>5, <1>6, <1>7 DEF CalmInv

(* While the sync reads, nothing else is going on. *)
LEMMA Fetching ==
    ASSUME CalmInv, fetch # NoFetch
    PROVE  /\ up /\ tasks = {} /\ runs = {} /\ NoneDue /\ inbox[0] = <<>>
           /\ \A s : ~NewTime(s) /\ ~Accused(s)
<1>1. up /\ tasks = {} /\ runs = {} /\ NoneDue /\ inbox[0] = <<>>
  BY DEF CalmInv, OneAtATime, Busy
<1> QED BY <1>1 DEF NewTime, Accused

LEMMA ProfileCalm ==
    ASSUME CalmDeployment, CalmInv, Known, FetchProfile, ChainCalm'
    PROVE  CalmInv'
<1>1. PICK b \in BlockTimestamp : fetch' = [fetch EXCEPT !.at = "query", !.block = b]
  BY DEF FetchProfile
<1>2. fetch \in [at : {"idle", "profile", "query", "page"}, ctx : Contexts, block : Int,
                page : SUBSET Sarcos]
  BY DEF Known, TypeInv, ServiceInv, TaskInv, FetchOK
<1>3. fetch'.at = "query" /\ fetch'.block = b /\ fetch' # NoFetch
  BY <1>1, <1>2 DEF NoFetch
<1>4. fetch # NoFetch /\ socket[0] = "open"
  <2>1. fetch.ctx = 0
    BY <1>2, OneContext
  <2> QED BY <2>1 DEF FetchProfile, IsOpen, NoFetch
<1>5. UNCHANGED <<contractVars, linkVars, storeVars, tasks, jobVars>>
  BY DEF FetchProfile
<1>6. UNCHANGED <<socket, inbox, up, timers, runs, tracked>>
  BY <1>5 DEF linkVars, jobVars, storeVars
<1>7. OneAtATime'
  BY <1>3, <1>4, <1>5, <1>6, Fetching, ChainStands DEF CalmInv, OneAtATime, NoneDue
<1>8. PendingRight' /\ OwedCovered'
  BY <1>3, <1>4, <1>5, <1>6, Fetching, ChainStands DEF PendingRight, OwedCovered, Covered
<1>9. JobsRight' /\ CompromisedRight'
  BY <1>4, <1>5, <1>6, Fetching, ChainStands DEF CalmInv, JobsRight, CompromisedRight
<1> QED BY <1>7, <1>8, <1>9 DEF CalmInv

(* All that is indexed is on the page. *)
LEMMA PageIsAll ==
    ASSUME CalmDeployment, ChainInv, NEW P \in SUBSET indexed, Page(P)
    PROVE  P = indexed
<1>1. indexed \subseteq Sarcos
  BY DEF ChainInv, ContractTypeOK
<1>2. IsFiniteSet(indexed) /\ Cardinality(indexed) <= Cardinality(Sarcos)
  BY <1>1, FS_Subset DEF CalmDeployment
<1>3. Cardinality(indexed) \in Nat /\ Cardinality(Sarcos) \in Nat /\ PageSize \in Nat
  BY <1>2, FS_CardinalityType, ServiceAssumption DEF CalmDeployment
<1>4. Cardinality(P) = Cardinality(indexed)
  BY <1>2, <1>3 DEF Page, CalmDeployment
<1> QED BY <1>2, <1>4, FS_Subset

(* Nothing is missing from the page. *)
LEMMA QueryCalm ==
    ASSUME CalmDeployment, CalmInv, Known, QuerySubgraph, ChainCalm'
    PROVE  CalmInv'
<1>1. fetch \in [at : {"idle", "profile", "query", "page"}, ctx : Contexts, block : Int,
                page : SUBSET Sarcos]
  BY DEF Known, TypeInv, ServiceInv, TaskInv, FetchOK
<1>2. fetch.at = "query" /\ fetch # NoFetch /\ IsOpen(fetch.ctx)
  <2>1. fetch.at = "query" /\ socket[0] = "open"
    BY DEF QuerySubgraph, CalmInv, PendingRight
  <2> QED BY <1>1, <2>1, OneContext DEF NoFetch, IsOpen
<1>3. PICK P \in SUBSET indexed : Page(P) /\ fetch' = [fetch EXCEPT !.at = "page", !.page = P]
  BY <1>2 DEF QuerySubgraph, CalmDeployment
<1>4. P = indexed
  BY <1>3, PageIsAll DEF Known, TypeInv, ServiceInv
<1>5. fetch'.at = "page" /\ fetch'.block = fetch.block /\ fetch'.page = indexed /\ fetch' # NoFetch
  BY <1>1, <1>3, <1>4 DEF NoFetch
<1>6. UNCHANGED <<contractVars, linkVars, storeVars, tasks, jobVars>>
  BY <1>2 DEF QuerySubgraph, CalmDeployment
<1>7. UNCHANGED <<now, sarco, socket, inbox, up, timers, runs, tracked>>
  BY <1>6 DEF contractVars, linkVars, jobVars, storeVars
<1>8. OneAtATime'
  BY <1>2, <1>5, <1>6, <1>7, Fetching, ChainStands DEF CalmInv, OneAtATime, NoneDue
<1>9. PendingRight'
  BY <1>2, <1>5, <1>6, <1>7, Fetching, ChainStands DEF CalmInv, ChainCalm, PendingRight
<1>10. OwedCovered'
  BY <1>5 DEF OwedCovered, Covered
<1>11. JobsRight' /\ CompromisedRight'
  BY <1>2, <1>6, <1>7, Fetching, ChainStands DEF CalmInv, JobsRight, CompromisedRight
<1> QED BY <1>8, <1>9, <1>10, <1>11 DEF CalmInv

(* Every key that is owed gets a callback: its sarcophagus is on the page, and
   was not written off. *)
LEMMA FetchCalm ==
    ASSUME CalmDeployment, Known, CalmInv, FetchSarcophagi, ChainCalm'
    PROVE  CalmInv'
<1> DEFINE task(s) == Task("syncSarco", s, fetch.ctx, 0, fetch.block)
<1>1. fetch.at = "page" /\ fetch # NoFetch /\ socket[0] = "open"
  <2>1. fetch.ctx = 0
    BY OneContext DEF Known, TypeInv, ServiceInv, TaskInv, FetchOK
  <2> QED BY <2>1 DEF FetchSarcophagi, NoFetch, IsOpen
<1>2. tasks' = {task(s) : s \in fetch.page \ dead}
  <2>1. tasks' = Unlinked(tasks) \cup {task(s) : s \in fetch.page \ dead}
    BY DEF FetchSarcophagi, Fetched, CalmDeployment
  <2>2. Unlinked(tasks) = {}
    BY <1>1, Fetching DEF Unlinked
  <2> QED BY <2>1, <2>2
<1>3. \A s : task(s).at = "syncSarco" /\ task(s).sarco = s /\ task(s).linked
             /\ task(s).block = fetch.block
  BY DEF Task
<1> HIDE DEF task
<1>4. /\ UNCHANGED <<contractVars, linkVars, jobVars>>
      /\ storeSet' = TRUE /\ fetch' = NoFetch
  BY DEF FetchSarcophagi, Fetched
<1>5. UNCHANGED <<now, sarco, socket, inbox, up, timers, runs>>
  BY <1>4 DEF contractVars, linkVars, jobVars
<1>6. OneAtATime'
  BY <1>1, <1>2, <1>3, <1>4, <1>5, Fetching, ChainStands DEF OneAtATime, NoneDue, Synced, Busy
<1>7. PendingRight'
  <2>1. fetch.block \in BlockTimestamp
    BY <1>1 DEF CalmInv, PendingRight
  <2>2. \A t \in tasks' : TaskRight(t)'
    BY <1>2, <1>3, <1>4, <2>1, ChainStands DEF TaskRight, Synced
  <2>3. inbox'[0] = <<>> /\ fetch'.at \notin {"query", "page"}
    BY <1>1, <1>4, <1>5, Fetching DEF NoFetch
  <2> QED BY <2>2, <2>3 DEF PendingRight
<1>8. JobsRight' /\ CompromisedRight'
  BY <1>1, <1>4, <1>5, Fetching, ChainStands DEF CalmInv, JobsRight, CompromisedRight
<1>9. OwedCovered'
  <2>1. ASSUME NEW s \in Sarcos, Owed(s)
        PROVE  \E t \in tasks' : t.sarco = s /\ Synced(t)
    <3>1. s \in fetch.page
      BY <1>1, <2>1 DEF CalmInv, PendingRight, Owed, Active
    <3>2. s \notin dead
      BY <2>1 DEF Known, DeadInv
    <3> QED BY <1>2, <1>3, <3>1, <3>2 DEF Synced
  <2> QED BY <1>4, <2>1, ChainStands DEF OwedCovered, Covered
<1> QED BY <1>6, <1>7, <1>8, <1>9 DEF CalmInv

-----------------------------------------------------------------------------
(* Scheduling and cancelling, while no publication is in flight. *)

(* The sarcophagus gets the one job, with the new resurrection time and a date
   to come; the others keep theirs. *)
LEMMA Rescheduled ==
    ASSUME Known, runs = {}, NoneDue, now' = now,
           NEW s \in Sarcos, NEW b \in Int, NEW r \in Times, NEW c,
           Sched!SchedulePublish(s, b, r, c)
    PROVE  /\ runs' = {} /\ NoneDue'
           /\ \E t \in timers' : t.sarco = s /\ t.res = r
           /\ \A t \in timers' : t.sarco = s => t.res = r
           /\ \A t : t.sarco # s => (t \in timers' <=> t \in timers)
<1> DEFINE job == [sarco |-> s, at |-> Sched!ScheduledTime(b, r), res |-> r, ctx |-> c]
<1>0. job.sarco = s /\ job.res = r /\ job.at = Sched!ScheduledTime(b, r)
  OBVIOUS
<1>1. s \notin inProcess
  BY DEF Known, JobInv, Sched!InProcessIsRunning
<1>2. timers' = (timers \ {slot[s]}) \cup {job} /\ runs' = runs
  BY <1>1 DEF Sched!SchedulePublish, Sched!WithoutSlot
<1> HIDE DEF job
<1>3. timers \subseteq Sched!Job /\ now \in Nat /\ slot \in [Sarcos -> Sched!Job \cup {NoJob}]
  BY DEF Known, TypeInv, Sched!TypeOK
<1>4. job.at > Sched!SystemClock
  <2>1. r \in Int /\ Skew \in Int /\ Buffer \in Nat \ {0} /\ SoonDelay \in Nat \ {0}
    BY ContractAssumption, ServiceAssumption
  <2> QED BY <1>0, <1>3, <2>1 DEF Sched!ScheduledTime, Sched!SystemClock
<1>5. NoneDue'
  BY <1>2, <1>4 DEF NoneDue, Sched!SystemClock
<1>6. \A t \in timers : t.sarco = s => t = slot[s]
  BY DEF Known, JobInv
<1>7. \A t \in timers : t.sarco # s => t # slot[s]
  <2>1. NoJob \notin Sched!Job
    BY ServiceAssumption DEF Sched!Job, Contexts
  <2> QED BY <1>3, <2>1 DEF Known, JobInv
<1> QED BY <1>0, <1>2, <1>5, <1>6, <1>7

(* The sarcophagus has no job left; the others keep theirs. *)
LEMMA Cancelled ==
    ASSUME Known, NEW s \in Sarcos, Sched!CancelScheduledPublish(s)
    PROVE  /\ runs' = runs
           /\ \A t \in timers' : t \in timers /\ t.sarco # s
           /\ \A t \in timers : t.sarco # s => t \in timers'
<1>1. timers' = timers \ {slot[s]} /\ runs' = runs
  BY DEF Sched!CancelScheduledPublish, Sched!WithoutSlot
<1>2. \A t \in timers : t.sarco = s => t = slot[s]
  BY DEF Known, JobInv
<1>3. \A t \in timers : t.sarco # s => t # slot[s]
  <2>1. NoJob \notin Sched!Job
    BY ServiceAssumption DEF Sched!Job, Contexts
  <2>2. timers \subseteq Sched!Job
    BY DEF Known, TypeInv, Sched!TypeOK
  <2> QED BY <2>1, <2>2 DEF Known, JobInv
<1> QED BY <1>1, <1>2, <1>3

-----------------------------------------------------------------------------
(* The callbacks of the sync, with the answers of the contract. *)

(* While handlers or callbacks wait, nothing else is going on, and a handler
   waits alone. *)
LEMMA Waiting ==
    ASSUME CalmInv, Known, NEW t \in tasks
    PROVE  /\ up /\ storeSet /\ runs = {} /\ NoneDue
           /\ fetch = NoFetch /\ inbox[0] = <<>> /\ socket[0] = "open"
           /\ TaskRight(t)
           /\ t \in TaskType /\ t.sarco \in Sarcos
           /\ t.at \in {"createTime", "createArch", "rewrapTime", "syncArch"} => t.res \in Times
           /\ ~Synced(t) => tasks = {t}
           /\ Synced(t) => \A s : ~NewTime(s) /\ ~Accused(s)
<1>1. /\ up /\ storeSet /\ runs = {} /\ NoneDue
      /\ fetch = NoFetch /\ inbox[0] = <<>> /\ socket[0] = "open"
  BY DEF CalmInv, OneAtATime, Busy
<1>2. TaskRight(t) /\ (~Synced(t) => tasks = {t})
  BY DEF CalmInv, PendingRight, OneAtATime
<1>3. t \in TaskType /\ TaskOK(t)
  BY DEF Known, TypeInv, ServiceInv, TaskInv, GoodTask
<1>4. Synced(t) => \A u \in tasks : Synced(u)
  BY DEF CalmInv, OneAtATime
<1>5. Synced(t) => \A s : ~NewTime(s) /\ ~Accused(s)
  BY <1>1, <1>4 DEF NewTime, Accused, Synced
<1> QED BY <1>1, <1>2, <1>3, <1>5 DEF TaskType, TaskOK

LEMMA SyncSarcoCalm ==
    ASSUME CalmDeployment, Known, CalmInv, ChainCalm',
           NEW t \in tasks, SyncSarco(t),
           UNCHANGED <<contractVars, linkVars, fetch>>
    PROVE  CalmInv'
<1> DEFINE u == [t EXCEPT !.at = "syncArch", !.res = sarco[t.sarco].res]
<1>1. t.at = "syncSarco" /\ Synced(t)
  BY DEF SyncSarco, Synced
<1>2. t \in TaskType
  BY Waiting
<1>3. /\ u.at = "syncArch" /\ u.sarco = t.sarco /\ u.res = sarco[t.sarco].res
      /\ u.linked = t.linked /\ u.block = t.block
  BY <1>2 DEF TaskType
<1>4. \/ /\ Inactive(t.sarco) \/ TooLateToUnwrap(t.sarco, t.block)
         /\ tasks' = tasks \ {t}
      \/ /\ ~Inactive(t.sarco) /\ ~TooLateToUnwrap(t.sarco, t.block)
         /\ tasks' = (tasks \ {t}) \cup {u}
  BY DEF SyncSarco
<1> HIDE DEF u
<1>5. UNCHANGED <<now, sarco, socket, inbox, up, storeSet, tracked, timers, runs, fetch>>
  BY DEF SyncSarco, contractVars, linkVars, jobVars
<1>6. /\ up /\ storeSet /\ runs = {} /\ NoneDue
      /\ fetch = NoFetch /\ inbox[0] = <<>> /\ socket[0] = "open"
      /\ \A x \in tasks : Synced(x) /\ TaskRight(x)
      /\ \A s : ~NewTime(s) /\ ~Accused(s)
  <2>1. \A x \in tasks : Synced(x) /\ TaskRight(x)
    BY <1>1, Waiting
  <2> QED BY <1>1, <2>1, Waiting
<1>7. \A x \in tasks' : Synced(x) /\ TaskRight(x)
  <2>1. CASE tasks' = tasks \ {t}
    BY <1>6, <2>1
  <2>2. CASE ~Inactive(t.sarco) /\ tasks' = (tasks \ {t}) \cup {u}
    <3>1. TaskRight(u) /\ Synced(u)
      BY <1>1, <1>3, <1>6, <2>2 DEF TaskRight, Synced, Inactive
    <3> QED BY <1>6, <2>2, <3>1
  <2> QED BY <1>4, <2>1, <2>2
<1>8. OneAtATime'
  BY <1>5, <1>6, <1>7, ChainStands DEF OneAtATime, NoneDue
<1>9. PendingRight'
  BY <1>5, <1>6, <1>7, ChainStands DEF PendingRight, TaskRight, NoFetch
<1>10. JobsRight' /\ CompromisedRight'
  BY <1>5, <1>6, ChainStands DEF CalmInv, JobsRight, CompromisedRight
<1>11. OwedCovered'
  <2>1. ASSUME NEW s \in Sarcos, Owed(s)
        PROVE  Covered(s)'
    <3>1. Scheduled(s) \/ \E x \in tasks : x.sarco = s
      BY <1>6, <2>1 DEF CalmInv, OwedCovered, Covered
    <3>2. CASE Scheduled(s)
      BY <1>5, <3>2 DEF Covered, Scheduled
    <3>3. CASE \E x \in tasks \ {t} : x.sarco = s
      BY <1>4, <1>7, <3>3 DEF Covered
    <3>4. CASE t.sarco = s
      <4>1. ~Inactive(s)
        BY <2>1 DEF Owed, Active, Inactive
      <4>2. ~TooLateToUnwrap(s, t.block)
        <5>1. now \in Int /\ t.block \in Int /\ t.block <= now
          BY <1>2 DEF Known, DeadInv, ReadingsPassed, TaskType, TypeInv, Sched!TypeOK
        <5>2. sarco[s].res \in Times
          BY <2>1 DEF Known, TypeInv, ServiceInv, ChainInv, Owed, Active
        <5>3. sarco[s].res + Grace \in Int
          BY <5>2, ContractAssumption
        <5> QED BY <2>1, <5>1, <5>3 DEF TooLateToUnwrap, Owed, GraceOver
      <4> QED BY <1>3, <1>4, <1>7, <3>4, <4>1, <4>2 DEF Covered
    <3> QED BY <3>1, <3>2, <3>3, <3>4
  <2> QED BY <2>1, ChainStands DEF OwedCovered
<1> QED BY <1>8, <1>9, <1>10, <1>11 DEF CalmInv

LEMMA SyncArchCalm ==
    ASSUME CalmDeployment, Known, CalmInv, ChainCalm',
           NEW t \in tasks, SyncArch(t),
           UNCHANGED <<contractVars, linkVars, fetch>>
    PROVE  CalmInv'
<1>1. Synced(t) /\ t.linked /\ t.sarco \in Sarcos /\ t.res \in Times /\ t.block \in Int
      /\ t.res = sarco[t.sarco].res /\ sarco[t.sarco].status # "compromised"
  BY Waiting DEF SyncArch, Synced, TaskRight, TaskType
<1>2. /\ up /\ storeSet /\ runs = {} /\ NoneDue
      /\ fetch = NoFetch /\ inbox[0] = <<>> /\ socket[0] = "open"
      /\ \A x \in tasks : Synced(x) /\ TaskRight(x)
      /\ \A s : ~NewTime(s) /\ ~Accused(s)
  <2>1. \A x \in tasks : Synced(x) /\ TaskRight(x)
    BY <1>1, Waiting
  <2> QED BY <1>1, <2>1, Waiting
<1>3. tasks' = tasks \ {t}
      /\ UNCHANGED <<now, sarco, socket, inbox, up, storeSet, fetch>>
  BY DEF SyncArch, contractVars, linkVars
<1>4. /\ runs' = {} /\ NoneDue'
      /\ \A x : x.sarco # t.sarco => (x \in timers' <=> x \in timers)
      /\ tracked \subseteq tracked'
      /\ \/ timers' = timers /\ ~Owed(t.sarco)
         \/ /\ \A x \in timers' : x.sarco = t.sarco => x.res = t.res
            /\ t.sarco \in tracked'
            /\ \E x \in timers' : x.sarco = t.sarco /\ x.res = t.res
  <2>1. CASE sarco[t.sarco].published
    BY <1>2, <1>3, <2>1 DEF SyncArch, jobVars, NoneDue, Sched!SystemClock, Owed
  <2>2. CASE ~sarco[t.sarco].published
    <3>1. Sched!SchedulePublish(t.sarco, t.block, t.res, t.ctx)
          /\ tracked' = tracked \cup {t.sarco}
      BY <1>1, <2>2 DEF SyncArch
    <3> QED BY <1>1, <1>2, <1>3, <3>1, Rescheduled
  <2> QED BY <2>1, <2>2
<1>5. OneAtATime'
  BY <1>2, <1>3, <1>4 DEF OneAtATime
<1>6. PendingRight'
  BY <1>2, <1>3, ChainStands DEF PendingRight, TaskRight, NoFetch, Synced
<1>7. JobsRight' /\ CompromisedRight'
  BY <1>1, <1>2, <1>3, <1>4, ChainStands DEF CalmInv, JobsRight, CompromisedRight
<1>8. OwedCovered'
  <2>1. ASSUME NEW s \in Sarcos, Owed(s)
        PROVE  Covered(s)'
    <3>1. Scheduled(s) \/ \E x \in tasks : x.sarco = s
      BY <1>2, <2>1 DEF CalmInv, OwedCovered, Covered
    <3>2. CASE s = t.sarco
      BY <1>1, <1>3, <1>4, <2>1, <3>1, <3>2 DEF Covered, Scheduled
    <3>3. CASE s # t.sarco
      BY <1>2, <1>3, <1>4, <3>1, <3>3 DEF Covered, Scheduled, Synced
    <3> QED BY <3>2, <3>3
  <2> QED BY <2>1, ChainStands DEF OwedCovered
<1> QED BY <1>5, <1>6, <1>7, <1>8 DEF CalmInv

-----------------------------------------------------------------------------
(* The handlers of contract events, up to their first await. *)

(* The event that is delivered is all there was to do. *)
LEMMA Delivered ==
    ASSUME CalmDeployment, Known, CalmInv, NEW c \in Contexts, DeliverEvent(c),
           NEW e, e = inbox[0][1]
    PROVE  /\ up /\ storeSet /\ runs = {} /\ NoneDue /\ tasks = {}
           /\ fetch = NoFetch /\ socket[0] = "open"
           /\ inbox[0] # <<>> /\ e \in Event /\ EventRight(e)
           /\ inbox'[0] = <<>>
           /\ UNCHANGED <<contractVars, socket, up, fetch, jobVars>>
           /\ \/ CreateSarcoHandler(c, e)
              \/ IgnoredEvent(e)
              \/ RewrapHandler(c, e)
              \/ RemoveHandler(e)
              \/ AccuseHandler(c, e)
<1>1. c = 0 /\ 0 \in Contexts
  BY OneContext
<1>2. inbox \in [Contexts -> Seq(Event)]
  BY DEF Known, TypeInv, ServiceInv, InboxInv
<1>3. inbox[0] # <<>>
  BY <1>1 DEF DeliverEvent
<1>4. /\ up /\ storeSet /\ runs = {} /\ NoneDue /\ tasks = {} /\ fetch = NoFetch
      /\ socket[0] = "open" /\ Len(inbox[0]) = 1
  BY <1>3 DEF CalmInv, OneAtATime, Busy
<1>5. inbox[0] \in Seq(Event)
  BY <1>1, <1>2
<1>6. Head(inbox[0]) = e /\ e \in Event /\ Tail(inbox[0]) = <<>>
  <2>1. Head(inbox[0]) = e /\ e \in Event
    BY <1>4, <1>5
  <2>2. Tail(inbox[0]) \in Seq(Event) /\ Len(Tail(inbox[0])) = 0
    BY <1>4, <1>5
  <2>3. Tail(inbox[0]) = <<>>
    BY <2>2, EmptySeq
  <2> QED BY <2>1, <2>3
<1>7. inbox' = [inbox EXCEPT ![c] = Tail(@)]
      /\ UNCHANGED <<contractVars, socket, up, fetch, jobVars>>
  BY DEF DeliverEvent
<1>8. inbox'[0] = <<>>
  BY <1>1, <1>2, <1>6, <1>7
<1>9. EventRight(e)
  BY <1>3 DEF CalmInv, PendingRight
<1> QED BY <1>1, <1>3, <1>4, <1>6, <1>7, <1>8, <1>9 DEF DeliverEvent

(* The event turns into a task that carries the same on, or into none where
   the event brings no resurrection time and its sarcophagus is not owed. *)
LEMMA DeliverCalm ==
    ASSUME CalmDeployment, Known, CalmInv, ChainCalm', NEW c \in Contexts, DeliverEvent(c)
    PROVE  CalmInv'
<1> DEFINE e == inbox[0][1]
<1>1. e = inbox[0][1]
  OBVIOUS
<1> HIDE DEF e
<1>2. /\ up /\ storeSet /\ runs = {} /\ NoneDue /\ tasks = {}
      /\ fetch = NoFetch /\ socket[0] = "open"
      /\ inbox[0] # <<>> /\ e \in Event /\ EventRight(e) /\ inbox'[0] = <<>>
      /\ UNCHANGED <<contractVars, socket, up, fetch, jobVars>>
  BY <1>1, Delivered
<1>3. UNCHANGED <<now, sarco, timers, runs>>
  BY <1>2 DEF contractVars, jobVars
<1>4. \A s : /\ NewTime(s) <=> e.kind \in {"create", "rewrap"} /\ e.sarco = s
             /\ Accused(s) <=> e.kind = "accuse" /\ e.sarco = s
  BY <1>1, <1>2 DEF NewTime, Accused
<1>5. ASSUME NEW t, tasks' = {t}, t.sarco = e.sarco, TaskRight(t),
             \/ /\ e.kind \in {"create", "rewrap"} /\ t.at \in {"createTime", "rewrapTime"}
             \/ /\ e.kind = "accuse" /\ t.at = "accuseRead",
             UNCHANGED storeVars
      PROVE  CalmInv'
  <2>1. \A s : (NewTime(s)' <=> NewTime(s)) /\ (Accused(s)' <=> Accused(s))
    BY <1>2, <1>4, <1>5 DEF NewTime, Accused
  <2>2. OneAtATime'
    BY <1>2, <1>3, <1>5, ChainStands DEF OneAtATime, NoneDue, storeVars
  <2>3. PendingRight'
    BY <1>2, <1>3, <1>5, ChainStands DEF PendingRight, TaskRight, NoFetch, storeVars
  <2>4. JobsRight' /\ CompromisedRight'
    BY <1>2, <1>3, <2>1, ChainStands DEF CalmInv, JobsRight, CompromisedRight
  <2>5. OwedCovered'
    <3>1. UNCHANGED <<up, timers, tracked, sarco, fetch, runs>> /\ tasks = {}
      BY <1>2, <1>3, <1>5 DEF storeVars
    <3>2. ASSUME NEW s \in Sarcos, Owed(s)
          PROVE  Covered(s)'
      <4>1. Covered(s)
        BY <1>2, <3>2 DEF CalmInv, OwedCovered
      <4> QED BY <1>2, <2>1, <3>1, <4>1 DEF Covered, Scheduled
    <3> QED BY <1>2, <3>2, ChainStands DEF OwedCovered
  <2> QED BY <2>2, <2>3, <2>4, <2>5 DEF CalmInv
<1>6. ASSUME tasks' = {}, storeSet' = storeSet, e.kind \notin {"create", "rewrap"},
             e.kind = "accuse" => ~ThirdPartyDecoded,
             tracked \ {e.sarco} \subseteq tracked',
             Owed(e.sarco) => tracked' = tracked
      PROVE  CalmInv'
  <2>1. OneAtATime'
    BY <1>2, <1>3, <1>6 DEF OneAtATime, Busy
  <2>2. PendingRight'
    BY <1>2, <1>6 DEF PendingRight, NoFetch
  <2>3. JobsRight' /\ CompromisedRight'
    BY <1>2, <1>3, <1>4, <1>6, ChainStands DEF CalmInv, JobsRight, CompromisedRight
  <2>4. OwedCovered'
    <3>1. ASSUME NEW s \in Sarcos, Owed(s)
          PROVE  Scheduled(s)'
      <4>1. Scheduled(s)
        BY <1>2, <1>4, <1>6, <3>1 DEF CalmInv, OwedCovered, Covered
      <4>2. s \in tracked'
        BY <1>6, <3>1, <4>1 DEF Scheduled
      <4> QED BY <1>3, <4>1, <4>2 DEF Scheduled
    <3> QED BY <1>2, <3>1, ChainStands DEF OwedCovered, Covered
  <2> QED BY <2>1, <2>2, <2>3, <2>4 DEF CalmInv
<1>7. CASE CreateSarcoHandler(c, e)
  <2> DEFINE t == Task("createTime", e.sarco, c, e.res, 0)
  <2>1. tasks' = {t} /\ e.kind = "create" /\ UNCHANGED storeVars
    BY <1>2, <1>7 DEF CreateSarcoHandler
  <2>2. t.at = "createTime" /\ t.sarco = e.sarco /\ t.res = e.res
    BY DEF Task
  <2> HIDE DEF t
  <2>3. TaskRight(t)
    BY <1>2, <2>1, <2>2 DEF TaskRight, EventRight, Synced
  <2> QED BY <1>5, <2>1, <2>2, <2>3
<1>8. CASE RewrapHandler(c, e)
  <2> DEFINE t == Task("rewrapTime", e.sarco, c, e.res, 0)
  <2>1. tasks' = {t} /\ e.kind = "rewrap" /\ UNCHANGED storeVars
    BY <1>2, <1>8 DEF RewrapHandler
  <2>2. t.at = "rewrapTime" /\ t.sarco = e.sarco /\ t.res = e.res
    BY DEF Task
  <2> HIDE DEF t
  <2>3. TaskRight(t)
    BY <1>2, <2>1, <2>2 DEF TaskRight, EventRight, Synced
  <2> QED BY <1>5, <2>1, <2>2, <2>3
<1>9. CASE AccuseHandler(c, e)
  <2> DEFINE t == Task("accuseRead", e.sarco, c, 0, 0)
  <2>1. tasks' = {t} /\ e.kind = "accuse" /\ UNCHANGED storeVars
    BY <1>2, <1>9 DEF AccuseHandler
  <2>2. t.at = "accuseRead" /\ t.sarco = e.sarco
    BY DEF Task
  <2> HIDE DEF t
  <2>3. TaskRight(t)
    BY <1>2, <2>1, <2>2 DEF TaskRight, EventRight, Synced
  <2> QED BY <1>5, <2>1, <2>2, <2>3
<1>10. CASE IgnoredEvent(e)
  <2>1. tasks' = {} /\ tracked' = tracked /\ storeSet' = storeSet
    BY <1>2, <1>10 DEF IgnoredEvent, storeVars
  <2>2. e.kind \notin {"create", "rewrap"} /\ (e.kind = "accuse" => ~ThirdPartyDecoded)
    BY <1>2, <1>10 DEF IgnoredEvent, EventRight
  <2> QED BY <1>6, <2>1, <2>2
<1>11. CASE RemoveHandler(e)
  <2>1. tasks' = {} /\ tracked' = tracked \ {e.sarco} /\ storeSet' = storeSet
        /\ e.kind \in {"bury", "clean"}
    BY <1>2, <1>11 DEF RemoveHandler, Untrack, Unlinked
  <2>2. ~Owed(e.sarco)
    <3>1. 0 \in Contexts /\ inbox[0] \in Seq(Event) /\ 1 \in 1..Len(inbox[0])
      <4>1. 0 \in Contexts
        BY OneContext
      <4>2. inbox[0] \in Seq(Event)
        BY <4>1 DEF Known, TypeInv, ServiceInv, InboxInv
      <4> QED BY <1>2, <4>1, <4>2
    <3>2. sarco[e.sarco].status \in {"buried", "cleaned"}
      BY <1>1, <2>1, <3>1 DEF Known, DeadInv, EventsHappened
    <3> QED BY <3>2 DEF Owed, Active
  <2> QED BY <1>6, <2>1, <2>2
<1> QED BY <1>1, <1>7, <1>8, <1>9, <1>10, <1>11, Delivered

-----------------------------------------------------------------------------
(* The rest of the handlers, one at a time. *)

(* A handler that scheduled the new resurrection time. *)
LEMMA HandlerSchedules ==
    ASSUME CalmDeployment, Known, CalmInv, ChainCalm',
           NEW t \in tasks, t.at \in {"createTime", "rewrapTime"},
           NEW b \in Int, Sched!SchedulePublish(t.sarco, b, t.res, t.ctx),
           UNCHANGED <<contractVars, linkVars, storeVars, fetch>>,
           \/ /\ tasks' = {} /\ t.sarco \in tracked
           \/ \E u : /\ tasks' = {u} /\ u.at = "createArch" /\ u.sarco = t.sarco
                     /\ u.res = t.res
    PROVE  CalmInv'
<1>1. /\ up /\ storeSet /\ runs = {} /\ NoneDue /\ tasks = {t}
      /\ fetch = NoFetch /\ inbox[0] = <<>> /\ socket[0] = "open"
      /\ t.sarco \in Sarcos /\ t.res \in Times
      /\ sarco[t.sarco].status # "compromised" /\ t.res = sarco[t.sarco].res
  BY Waiting DEF Synced, TaskRight
<1>2. UNCHANGED <<now, sarco, socket, inbox, up, storeSet, tracked, fetch>>
  BY DEF contractVars, linkVars, storeVars
<1>3. /\ runs' = {} /\ NoneDue'
      /\ \E j \in timers' : j.sarco = t.sarco /\ j.res = t.res
      /\ \A j \in timers' : j.sarco = t.sarco => j.res = t.res
      /\ \A j : j.sarco # t.sarco => (j \in timers' <=> j \in timers)
  BY <1>1, <1>2, Rescheduled
<1>4. \A s : s # t.sarco => ~NewTime(s) /\ ~Accused(s)
  BY <1>1 DEF NewTime, Accused
<1>5. OneAtATime'
  BY <1>1, <1>2, <1>3 DEF OneAtATime, Synced
<1>6. PendingRight'
  BY <1>1, <1>2, <1>3, ChainStands DEF PendingRight, TaskRight, NoFetch, Synced
<1>7. JobsRight' /\ CompromisedRight'
  BY <1>1, <1>2, <1>3, <1>4, ChainStands DEF CalmInv, JobsRight, CompromisedRight
<1>8. OwedCovered'
  <2>1. ASSUME NEW s \in Sarcos, Owed(s)
        PROVE  Covered(s)'
    <3>1. CASE s = t.sarco
      BY <1>1, <1>2, <1>3, <3>1 DEF Covered, Scheduled
    <3>2. CASE s # t.sarco
      <4>1. Scheduled(s)
        BY <1>1, <1>4, <2>1, <3>2 DEF CalmInv, OwedCovered, Covered
      <4> QED BY <1>2, <1>3, <3>2, <4>1 DEF Covered, Scheduled
    <3> QED BY <3>1, <3>2
  <2> QED BY <2>1, ChainStands DEF OwedCovered
<1> QED BY <1>5, <1>6, <1>7, <1>8 DEF CalmInv

(* A handler that is done with a sarcophagus scheduled or not owed. *)
LEMMA HandlerDone ==
    ASSUME CalmDeployment, Known, CalmInv, ChainCalm',
           NEW t \in tasks, t.at \in {"createArch", "accuseRead"}, tasks' = {},
           UNCHANGED <<contractVars, linkVars, storeSet, fetch, runs>>,
           \A j \in timers' : j \in timers,
           \A j \in timers : j.sarco # t.sarco => j \in timers',
           tracked \ {t.sarco} \subseteq tracked',
           Owed(t.sarco) => tracked \subseteq tracked' /\ timers' = timers,
           t.at = "createArch" => t.sarco \in tracked',
           t.at = "accuseRead" /\ sarco[t.sarco].status = "compromised" =>
               \A j \in timers' : j.sarco # t.sarco
    PROVE  CalmInv'
<1>1. /\ up /\ storeSet /\ runs = {} /\ NoneDue /\ tasks = {t}
      /\ fetch = NoFetch /\ inbox[0] = <<>> /\ socket[0] = "open"
      /\ TaskRight(t)
  BY Waiting DEF Synced
<1>2. UNCHANGED <<now, sarco, socket, inbox, up>>
  BY DEF contractVars, linkVars
<1>3. \A s : ~NewTime(s) /\ (Accused(s) => s = t.sarco /\ t.at = "accuseRead")
  BY <1>1 DEF NewTime, Accused
<1>4. OneAtATime'
  BY <1>1, <1>2 DEF OneAtATime, Busy
<1>5. PendingRight'
  BY <1>1, <1>2 DEF PendingRight, NoFetch
<1>6. JobsRight' /\ CompromisedRight'
  BY <1>1, <1>2, <1>3, ChainStands DEF CalmInv, JobsRight, CompromisedRight
<1>7. OwedCovered'
  <2>1. ASSUME NEW s \in Sarcos, Owed(s)
        PROVE  Scheduled(s)'
    <3>1. CASE s = t.sarco /\ t.at = "createArch"
      BY <1>1, <1>2, <2>1, <3>1 DEF Scheduled, TaskRight
    <3>2. CASE ~(s = t.sarco /\ t.at = "createArch")
      <4>1. Scheduled(s)
        BY <1>1, <1>3, <2>1, <3>2 DEF CalmInv, OwedCovered, Covered, Synced
      <4> QED BY <1>2, <2>1, <4>1 DEF Scheduled
    <3> QED BY <3>1, <3>2
  <2> QED BY <2>1, ChainStands DEF OwedCovered, Covered
<1> QED BY <1>4, <1>5, <1>6, <1>7 DEF CalmInv

LEMMA HandlerCalm ==
    ASSUME CalmDeployment, Known, CalmInv, HandlerStep, ChainCalm'
    PROVE  CalmInv'
<1>1. PICK t \in tasks : CreateTime(t) \/ CreateArch(t) \/ RewrapTime(t) \/ AccuseRead(t)
  BY DEF HandlerStep
<1>2. UNCHANGED <<contractVars, linkVars, fetch>>
  BY DEF HandlerStep
<1>3. BlockTimestamp \subseteq Int
  BY DEF BlockTimestamp, Known, TypeInv, Sched!TypeOK
<1>4. t \in TaskType /\ t.sarco \in Sarcos /\ TaskRight(t) /\ (~Synced(t) => tasks = {t})
  BY Waiting
<1>5. CASE CreateTime(t)
  <2> DEFINE u == [t EXCEPT !.at = "createArch"]
  <2>1. PICK b \in BlockTimestamp : Sched!SchedulePublish(t.sarco, b, t.res, t.ctx)
    BY <1>5 DEF CreateTime
  <2>2. tasks = {t} /\ t.at = "createTime" /\ tasks' = (tasks \ {t}) \cup {u}
        /\ UNCHANGED storeVars
    BY <1>4, <1>5 DEF CreateTime, Synced
  <2>3. u.at = "createArch" /\ u.sarco = t.sarco /\ u.res = t.res
    BY <1>4 DEF TaskType
  <2> HIDE DEF u
  <2> QED BY <1>2, <1>3, <2>1, <2>2, <2>3, HandlerSchedules
<1>6. CASE RewrapTime(t)
  <2>1. PICK b \in BlockTimestamp : Sched!SchedulePublish(t.sarco, b, t.res, t.ctx)
    BY <1>6 DEF RewrapTime
  <2>2. tasks' = {} /\ t.at = "rewrapTime" /\ t.sarco \in tracked /\ UNCHANGED storeVars
    BY <1>4, <1>6 DEF RewrapTime, Synced, TaskRight
  <2> QED BY <1>2, <1>3, <2>1, <2>2, HandlerSchedules
<1>7. CASE CreateArch(t)
  <2>1. /\ tasks' = {} /\ t.at = "createArch" /\ tracked' = tracked \cup {t.sarco}
        /\ UNCHANGED <<storeSet, timers, runs>>
    BY <1>4, <1>7 DEF CreateArch, Synced, jobVars
  <2> QED BY <1>2, <2>1, HandlerDone
<1>8. CASE AccuseRead(t)
  <2>1. tasks' = {} /\ t.at = "accuseRead" /\ storeSet' = storeSet
    BY <1>4, <1>8 DEF AccuseRead, Synced, Unlinked, Untrack, storeVars
  <2>2. CASE sarco[t.sarco].status = "compromised"
    <3>1. Untrack(t.sarco) /\ Sched!CancelScheduledPublish(t.sarco) /\ ~Owed(t.sarco)
      BY <1>8, <2>2 DEF AccuseRead, Owed, Active
    <3>2. /\ runs' = runs
          /\ \A j \in timers' : j \in timers /\ j.sarco # t.sarco
          /\ \A j \in timers : j.sarco # t.sarco => j \in timers'
      BY <1>4, <3>1, Cancelled
    <3> QED BY <1>2, <2>1, <3>1, <3>2, HandlerDone DEF Untrack
  <2>3. CASE sarco[t.sarco].status # "compromised"
    <3>1. UNCHANGED <<tracked, timers, runs>>
      BY <1>8, <2>3 DEF AccuseRead, storeVars, jobVars
    <3> QED BY <1>2, <2>1, <2>3, <3>1, HandlerDone
  <2> QED BY <2>2, <2>3
<1> QED BY <1>1, <1>5, <1>6, <1>7, <1>8

-----------------------------------------------------------------------------
(* Jobs fire and become publications, which end. *)

(* No job is due while anything else is going on. *)
LEMMA Publishing ==
    ASSUME CalmInv, ~NoneDue \/ runs # {}
    PROVE  /\ up /\ storeSet /\ fetch = NoFetch /\ tasks = {} /\ inbox[0] = <<>>
           /\ socket[0] = "open"
           /\ \A s : ~NewTime(s) /\ ~Accused(s)
           /\ \A s \in Sarcos : Owed(s) => Scheduled(s) \/ \E r \in runs : r.sarco = s
<1>1. fetch = NoFetch /\ tasks = {} /\ inbox[0] = <<>>
  BY DEF CalmInv, OneAtATime, Busy
<1>2. up /\ storeSet /\ socket[0] = "open"
  BY <1>1 DEF CalmInv, OneAtATime, NoneDue
<1>3. \A s : ~NewTime(s) /\ ~Accused(s)
  BY <1>1 DEF NewTime, Accused
<1> QED BY <1>1, <1>2, <1>3 DEF CalmInv, OwedCovered, Covered

(* Nothing but jobs and publications changes, and no key is forgotten. *)
LEMMA PublishingCalm ==
    ASSUME CalmInv, ChainCalm', ~NoneDue \/ runs # {},
           UNCHANGED <<now, linkVars, storeSet, fetch>>, tasks' = {},
           \A t \in timers' : t \in timers,
           \A r \in runs' : Owed(r.sarco)' => sarco'[r.sarco].res <= now,
           \A t \in timers : /\ Owed(t.sarco)' => Owed(t.sarco)
                             /\ sarco'[t.sarco].res = sarco[t.sarco].res
                             /\ sarco'[t.sarco].status = sarco[t.sarco].status,
           \A s \in Sarcos : Owed(s)' => Scheduled(s)' \/ \E r \in runs' : r.sarco = s
    PROVE  CalmInv'
<1>1. /\ up /\ storeSet /\ fetch = NoFetch /\ tasks = {} /\ inbox[0] = <<>>
      /\ socket[0] = "open" /\ \A s : ~NewTime(s) /\ ~Accused(s)
  BY Publishing
<1>2. UNCHANGED <<socket, inbox, up>>
  BY DEF linkVars
<1>3. OneAtATime'
  BY <1>1, <1>2 DEF OneAtATime, Busy
<1>4. PendingRight'
  BY <1>1, <1>2 DEF PendingRight, NoFetch
<1>5. JobsRight' /\ CompromisedRight'
  BY <1>1 DEF CalmInv, JobsRight, CompromisedRight
<1>6. OwedCovered'
  BY DEF OwedCovered, Covered
<1> QED BY <1>3, <1>4, <1>5, <1>6 DEF CalmInv

(* A job that is right does not go off early. *)
LEMMA FireCalm ==
    ASSUME CalmInv, Known, JobFires, ChainCalm'
    PROVE  CalmInv'
<1>1. PICK t \in timers : Sched!StartPublish(t)
  BY DEF JobFires
<1>2. UNCHANGED <<contractVars, linkVars, storeVars, fetch, tasks>>
  BY DEF JobFires
<1>3. UNCHANGED <<now, sarco, storeSet, tracked>>
  BY <1>2 DEF contractVars, storeVars
<1>4. timers' = timers \ {t} /\ runs' = runs \cup {t} /\ t.at <= Sched!SystemClock
  BY <1>1 DEF Sched!StartPublish
<1>5. t \in Sched!Job /\ now \in Nat
  BY DEF Known, TypeInv, Sched!TypeOK
<1>6. ~NoneDue
  <2>1. t.at \in Int
    BY <1>5, JobDates
  <2> QED BY <1>4, <1>5, <2>1, ServiceAssumption DEF NoneDue, Sched!SystemClock
<1>7. t.res <= now
  <2>1. InTime(t)
    BY DEF Known, EarlyInv
  <2>2. t.res \in Nat /\ t.at \in Int /\ Skew \in Int
    BY <1>5, JobDates, ServiceAssumption
  <2> QED BY <1>4, <1>5, <2>1, <2>2 DEF InTime, Sched!SystemClock
<1>8. \A r \in runs' : Owed(r.sarco) => sarco[r.sarco].res <= now
  <2>1. Owed(t.sarco) => t.res = sarco[t.sarco].res
    BY <1>6, Publishing DEF CalmInv, JobsRight
  <2> QED BY <1>4, <1>7, <2>1 DEF CalmInv, JobsRight
<1>9. \A s \in Sarcos : Owed(s) => Scheduled(s)' \/ \E r \in runs' : r.sarco = s
  <2>1. ASSUME NEW s \in Sarcos, Scheduled(s), s # t.sarco
        PROVE  Scheduled(s)'
    BY <1>3, <1>4, <2>1 DEF Scheduled
  <2> QED BY <1>4, <1>6, <2>1, Publishing
<1>10. tasks' = {}
  BY <1>2, <1>6, Publishing
<1> QED BY <1>2, <1>3, <1>4, <1>6, <1>8, <1>9, <1>10, ChainStands, PublishingCalm

(* A publication does not fail while its key is owed: the contract accepts it. *)
LEMMA RunsSettle ==
    ASSUME CalmDeployment, Known, CalmInv, NEW r \in runs, RunSucceeds(r) \/ RunFails(r)
    PROVE  ~Owed(r.sarco)
<1>1. CASE RunSucceeds(r)
  BY <1>1 DEF RunSucceeds, Known, DeadInv, MinedPublished, Owed
<1>2. CASE RunFails(r)
  <2>1. "rpc" \notin Faults
    BY DEF CalmDeployment
  <2>2. r.ctx = 0
    BY OneContext DEF Known, TypeInv, Sched!TypeOK, Sched!Job
  <2>3. IsOpen(r.ctx)
    BY <2>2, Publishing DEF IsOpen
  <2>4. ~PublishAccepted(r.sarco)
    BY <1>2, <2>1, <2>3 DEF RunFails
  <2>5. Owed(r.sarco) => sarco[r.sarco].res <= now
    BY DEF CalmInv, JobsRight
  <2> QED BY <2>4, <2>5 DEF PublishAccepted
<1> QED BY <1>1, <1>2

LEMMA PublishCalm ==
    ASSUME CalmDeployment, Known, CalmInv, PublishStep, ChainCalm'
    PROVE  CalmInv'
<1>1. PICK r \in runs : RunDerivesKey(r) \/ RunPublishes(r) \/ RunSucceeds(r) \/ RunFails(r)
  BY DEF PublishStep
<1>2. UNCHANGED <<linkVars, fetch>>
  BY DEF PublishStep
<1>3. r.sarco \in Sarcos
  BY DEF Known, TypeInv, Sched!TypeOK, Sched!Job
<1>4. /\ tasks = {}
      /\ \A q \in runs : Owed(q.sarco) => sarco[q.sarco].res <= now
      /\ \A s \in Sarcos : Owed(s) => Scheduled(s) \/ \E q \in runs : q.sarco = s
  BY Publishing DEF CalmInv, JobsRight
<1>5. CASE RunDerivesKey(r)
  <2>1. UNCHANGED <<contractVars, storeVars, tasks, jobVars>>
    BY <1>5 DEF RunDerivesKey
  <2>2. UNCHANGED <<now, sarco, timers, runs, storeSet, tracked>>
    BY <2>1 DEF contractVars, jobVars, storeVars
  <2>3. \A s \in Sarcos : Owed(s)' => Scheduled(s)' \/ \E q \in runs' : q.sarco = s
    BY <1>4, <2>1, <2>2, ChainStands DEF Scheduled
  <2> QED BY <1>2, <1>4, <2>1, <2>2, <2>3, ChainStands, PublishingCalm
<1>6. CASE RunPublishes(r)
  <2>1. UNCHANGED <<now, storeVars, tasks, jobVars>>
        /\ sarco' = [sarco EXCEPT ![r.sarco].published = TRUE]
    BY <1>6 DEF RunPublishes, Publish
  <2>2. UNCHANGED <<timers, runs, storeSet, tracked>>
    BY <2>1 DEF jobVars, storeVars
  <2>3. sarco \in [Sarcos -> [status : Status, res : Times \cup {0}, published : BOOLEAN]]
    BY DEF Known, TypeInv, ServiceInv, ChainInv, ContractTypeOK
  <2>4. \A s \in Sarcos : /\ sarco'[s].res = sarco[s].res
                          /\ sarco'[s].status = sarco[s].status
                          /\ sarco[s].published => sarco'[s].published
    BY <2>1, <2>3
  <2>5. \A s \in Sarcos : Owed(s)' => Owed(s)
    BY <2>1, <2>3, <2>4 DEF Owed, Active, GraceOver
  <2>6. \A t \in timers \cup runs : t.sarco \in Sarcos
    BY DEF Known, TypeInv, Sched!TypeOK, Sched!Job
  <2>7. \A s \in Sarcos : Owed(s)' => Scheduled(s)' \/ \E q \in runs' : q.sarco = s
    BY <1>4, <2>2, <2>4, <2>5 DEF Scheduled
  <2> QED BY <1>2, <1>4, <2>1, <2>2, <2>4, <2>5, <2>6, <2>7, PublishingCalm
<1>7. CASE RunSucceeds(r) \/ RunFails(r)
  <2>1. runs' = runs \ {r} /\ timers' = timers /\ UNCHANGED contractVars
    BY <1>7 DEF RunSucceeds, RunFails, RunEnds, Sched!EndPublish
  <2>2. tasks' = {} /\ storeSet' = storeSet /\ tracked \ {r.sarco} \subseteq tracked'
    BY <1>4, <1>7 DEF RunSucceeds, RunFails, Untrack, Unlinked, storeVars
  <2>3. ~Owed(r.sarco)
    BY <1>7, RunsSettle
  <2>4. UNCHANGED <<now, sarco>>
    BY <2>1 DEF contractVars
  <2>5. \A s \in Sarcos : Owed(s)' => Scheduled(s)' \/ \E q \in runs' : q.sarco = s
    BY <1>4, <2>1, <2>2, <2>3, <2>4, ChainStands DEF Scheduled
  <2> QED BY <1>2, <1>4, <2>1, <2>2, <2>4, <2>5, ChainStands, PublishingCalm
<1> QED BY <1>1, <1>5, <1>6, <1>7

(* Time passes at rest; a job may become due. *)
LEMMA TickCalm ==
    ASSUME CalmDeployment, Known, CalmInv, Tick, ChainCalm'
    PROVE  CalmInv'
<1>1. Quiescent /\ now' = now + 1
      /\ UNCHANGED <<sarco, linkVars, storeVars, fetch, tasks, jobVars>>
  BY DEF Tick, CalmDeployment
<1>2. UNCHANGED <<socket, inbox, up, storeSet, tracked, timers, runs>>
  BY <1>1 DEF linkVars, storeVars, jobVars
<1>3. \A s \in Sarcos : Owed(s)' => Owed(s)
  <2>1. ASSUME NEW s \in Sarcos, Owed(s)'
        PROVE  Owed(s)
    <3>1. sarco[s].res \in Times
      BY <1>1, <2>1 DEF Known, TypeInv, ServiceInv, ChainInv, Owed, Active
    <3>2. sarco[s].res \in Nat /\ Grace \in Nat
      BY <3>1, ContractAssumption
    <3>3. now \in Nat
      BY DEF Known, TypeInv, Sched!TypeOK
    <3> QED BY <1>1, <2>1, <3>2, <3>3 DEF Owed, Active, GraceOver
  <2> QED BY <2>1
<1>4. OneAtATime'
  BY <1>1, <1>2, AtRest DEF OneAtATime, Busy
<1>5. PendingRight'
  BY <1>1, <1>2, AtRest DEF PendingRight, NoFetch
<1>6. JobsRight' /\ CompromisedRight'
  <2>1. \A t \in timers : t.sarco \in Sarcos
    BY DEF Known, TypeInv, Sched!TypeOK, Sched!Job
  <2> QED BY <1>1, <1>2, <1>3, <2>1, AtRest DEF JobsRight, CompromisedRight
<1>7. OwedCovered'
  BY <1>1, <1>2, <1>3, AtRest DEF OwedCovered, Covered, Scheduled
<1> QED BY <1>4, <1>5, <1>6, <1>7 DEF CalmInv

-----------------------------------------------------------------------------
(* All steps. *)
LEMMA CalmStep == CalmDeployment => (Known /\ CalmInv /\ [Next]_vars => CalmInv')
<1> SUFFICES ASSUME CalmDeployment, Known, CalmInv, [Next]_vars
             PROVE  CalmInv'
  OBVIOUS
<1>1. ChainCalm'
  BY ChainCalmStep DEF Known, CalmInv
<1>2. CASE ProcessStep
  <2>1. CASE StoreUnset
    BY <1>1, <2>1, DeathCalm DEF StoreUnset
  <2>2. CASE SyncStep
    <3>1. PICK t \in tasks : SyncSarco(t) \/ SyncArch(t) \/ SyncFails(t)
      BY <2>2 DEF SyncStep
    <3>2. ~SyncFails(t)
      BY DEF SyncFails, CalmDeployment
    <3> QED BY <1>1, <2>2, <3>1, <3>2, SyncSarcoCalm, SyncArchCalm DEF SyncStep
  <2> QED BY <1>1, <1>2, <2>1, <2>2, ConnectedCalm, DeliverCalm, RestartCalm, HandlerCalm,
             ProfileCalm, QueryCalm, FetchCalm, FireCalm, PublishCalm DEF ProcessStep
<1>3. CASE EnvironmentStep
  <2>1. CASE SubgraphIndexes
    BY <2>1 DEF SubgraphIndexes, Index, CalmInv, ChainCalm
  <2>2. CASE Crash
    BY <1>1, <2>2, DeathCalm DEF Crash
  <2>3. \A c \in Contexts : ~ConnectionClosed(c) /\ ~ProviderError(c)
    BY OneContext DEF CalmInv
  <2> QED BY <1>1, <1>3, <2>1, <2>2, <2>3, EventCalm, RefetchCalm DEF EnvironmentStep
<1>4. CASE Tick
  BY <1>1, <1>4, TickCalm
<1>5. CASE UNCHANGED vars
  <2>1. UNCHANGED <<contractVars, socket, inbox, up, storeSet, tracked, fetch, tasks, timers,
                    runs>>
    BY <1>5 DEF vars, linkVars, storeVars, jobVars
  <2>2. UNCHANGED <<now, sarco>>
    BY <2>1 DEF contractVars
  <2>3. OneAtATime' /\ PendingRight' /\ CompromisedRight'
    BY <2>1, <2>2, ChainStands
       DEF CalmInv, OneAtATime, Busy, NoneDue, PendingRight, EventRight, TaskRight,
           CompromisedRight, Accused
  <2>4. JobsRight' /\ OwedCovered'
    BY <2>1, <2>2, ChainStands
       DEF CalmInv, JobsRight, OwedCovered, Covered, Scheduled, NewTime
  <2> QED BY <1>1, <2>3, <2>4 DEF CalmInv
<1> QED BY <1>2, <1>3, <1>4, <1>5 DEF Next

LEMMA CalmInvariant == CalmDeployment => (Spec => [](Known /\ CalmInv))
<1> SUFFICES ASSUME CalmDeployment
             PROVE  Spec => [](Known /\ CalmInv)
  OBVIOUS
<1>1. Init => CalmInv
  <2> SUFFICES ASSUME Init
               PROVE  CalmInv
    OBVIOUS
  <2>1. 0 \in Contexts
    BY OneContext
  <2>2. /\ up /\ timers = {} /\ runs = {} /\ tasks = {} /\ inbox[0] = <<>>
        /\ socket[0] = "connecting" /\ fetch.at = "profile" /\ fetch # NoFetch
    BY <2>1 DEF Init, Sched!Init, FirstSocket, FirstFetch, NoFetch
  <2>3. ChainCalm
    BY DEF Init, ContractInit, ChainCalm
  <2> QED BY <2>2, <2>3 DEF CalmInv, OneAtATime, NoneDue, PendingRight, JobsRight,
                            CompromisedRight, OwedCovered, Covered
<1>2. ClockNotAhead
  BY DEF CalmDeployment
<1>3. Known /\ CalmInv /\ [Next]_vars => CalmInv'
  BY CalmStep
<1> QED BY <1>1, <1>2, <1>3, KnownInvariant, PTL DEF Spec

(* At rest every key that is owed has a job for its current resurrection time,
   on a connection that works: however many sarcophagi there are, however often
   they are rewrapped and the contract's data is fetched again, and however
   often the process dies, wherever it is in what it does. *)
THEOREM KeysStayScheduled == CalmDeployment => (Spec => []ScheduleTracksChain)
<1> SUFFICES ASSUME CalmDeployment
             PROVE  Spec => []ScheduleTracksChain
  OBVIOUS
<1>1. ASSUME Known, CalmInv
      PROVE  ScheduleTracksChain
  <2>1. \A t \in timers : t.ctx = 0
    BY OneContext, <1>1 DEF Known, TypeInv, Sched!TypeOK, Sched!Job
  <2> QED BY <1>1, <2>1, AtRest DEF ScheduleTracksChain, Scheduled, IsOpen
<1> QED BY <1>1, CalmInvariant, PTL

(* At rest no job is left for a compromised sarcophagus, if its accusal can be
   decoded. *)
THEOREM CompromisedIsUnscheduled ==
    CalmDeployment /\ ThirdPartyDecoded => (Spec => []CompromisedIsCancelled)
<1> SUFFICES ASSUME CalmDeployment, ThirdPartyDecoded
             PROVE  Spec => []CompromisedIsCancelled
  OBVIOUS
<1>1. Known /\ CalmInv => CompromisedIsCancelled
  BY AtRest DEF CompromisedIsCancelled
<1> QED BY <1>1, CalmInvariant, PTL

(* A publication that ends leaves no key owed, so that it need not be repeated. *)
THEOREM PublicationsAreNotRepeated == CalmDeployment => (Spec => PublicationsSettle)
<1> SUFFICES ASSUME CalmDeployment
             PROVE  Spec => PublicationsSettle
  OBVIOUS
<1> DEFINE Settle == \A r \in runs : r \notin runs' /\ up' => ~Owed(r.sarco)'
<1>1. Known /\ CalmInv /\ [Next]_vars => Settle
  <2> SUFFICES ASSUME Known, CalmInv, [Next]_vars, NEW r \in runs, r \notin runs', up'
               PROVE  ~Owed(r.sarco)'
    OBVIOUS
  <2>1. PublishStep
    BY DEF Next, ProcessStep, EnvironmentStep, Connected, DeliverEvent, StoreUnset, ProcessDies,
           Restart, HandlerStep, CreateTime, CreateArch, RewrapTime, AccuseRead, FetchProfile,
           QuerySubgraph, FetchSarcophagi, Fetched, SyncStep, SyncSarco, SyncArch, SyncFails, JobFires, ContractEvent,
           Announce, SubgraphIndexes, ConnectionClosed, ProviderError, Crash, RefetchInterval,
           Tick, vars, jobVars, Sched!SchedulePublish, Sched!CancelScheduledPublish,
           Sched!StartPublish
  <2>2. PICK q \in runs : RunDerivesKey(q) \/ RunPublishes(q) \/ RunSucceeds(q) \/ RunFails(q)
    BY <2>1 DEF PublishStep
  <2>3. RunSucceeds(r) \/ RunFails(r)
    BY <2>2 DEF RunDerivesKey, RunPublishes, RunSucceeds, RunFails, RunEnds, Sched!EndPublish,
                jobVars
  <2>4. ~Owed(r.sarco) /\ UNCHANGED contractVars
    BY <2>3, RunsSettle DEF RunSucceeds, RunFails, RunEnds
  <2> QED BY <2>4, ChainStands
<1>2. Known /\ CalmInv /\ [Next]_vars => [Settle]_vars
  BY <1>1
<1> QED BY <1>2, CalmInvariant, PTL DEF Spec, PublicationsSettle

-----------------------------------------------------------------------------
(* Publishing in time. *)

(* How far the system clock that stands in for a block timestamp is behind. *)
Late == IF "timestamp" \in Faults THEN -Skew ELSE 0

(* After the resurrection time come the 15 s, and, once the time is past, 5 s
   more with every restart; so much must fit into the grace period.  Were the
   contract's data fetched again within the 5 s, they would never be over. *)
Punctual ==
    /\ Buffer + Late + MaxCrashes * SoonDelay <= Grace
    /\ Refetch => SoonDelay = 1

Margin == Buffer + Late + crashes * SoonDelay

Unpublished(s) == Active(s) /\ ~sarco[s].published

(* The jobs are being made anew. *)
Renewed(s) == ~up \/ fetch # NoFetch \/ \E t \in tasks : t.sarco = s /\ Synced(t)

(* Neither the chain nor the date of a job is beyond the margin, and what is not
   scheduled because the process died leaves the 5 s. *)
TimeInv ==
    /\ \A s \in Sarcos : Unpublished(s) => now <= sarco[s].res + Margin
    /\ \A t \in timers : Unpublished(t.sarco) =>
          t.at - Skew <= sarco[t.sarco].res + Margin \/ NewTime(t.sarco)
    /\ \A s \in Sarcos : Unpublished(s) /\ Renewed(s) =>
          now <= sarco[s].res \/ now + SoonDelay <= sarco[s].res + Margin

(* A crash costs 5 s. *)
LEMMA MarginGrows ==
    ASSUME ClockNotAhead, crashes \in 0..MaxCrashes
    PROVE  /\ Margin \in Nat /\ Late \in Nat /\ Buffer + Late <= Margin
           /\ crashes' = crashes => Margin' = Margin
           /\ crashes' = crashes + 1 => Margin' = Margin + SoonDelay
           /\ Punctual => Margin <= Grace
<1>1. /\ Late \in Nat /\ Buffer \in Nat /\ SoonDelay \in Nat /\ MaxCrashes \in Nat
      /\ crashes \in Nat /\ crashes <= MaxCrashes /\ Grace \in Nat
  BY ServiceAssumption, ContractAssumption DEF Late, ClockNotAhead
<1>2. crashes * SoonDelay \in Nat
  BY <1>1
<1>3. crashes * SoonDelay <= MaxCrashes * SoonDelay /\ MaxCrashes * SoonDelay \in Nat
  BY <1>1
<1>4. (crashes + 1) * SoonDelay = crashes * SoonDelay + SoonDelay
  BY <1>1
<1> QED BY <1>1, <1>2, <1>3, <1>4 DEF Margin, Punctual

(* A block timestamp that is read is that of the present, or behind by Late. *)
LEMMA ReadingsLate ==
    ASSUME ClockNotAhead, now \in Nat, NEW b \in BlockTimestamp
    PROVE  b \in Int /\ b <= now /\ now - b <= Late
  BY ServiceAssumption DEF ClockNotAhead, BlockTimestamp, Sched!SystemClock, Late

(* What exists has a resurrection time to compare with. *)
LEMMA UnpublishedTimes ==
    ASSUME Known
    PROVE  /\ now \in Nat /\ Skew \in Int /\ crashes \in 0..MaxCrashes
           /\ \A s \in Sarcos : sarco[s].res \in Nat
           /\ \A t \in timers : t.sarco \in Sarcos /\ t.at \in Int
<1>1. now \in Nat /\ crashes \in 0..MaxCrashes /\ timers \subseteq Sched!Job
  BY DEF Known, TypeInv, Sched!TypeOK, ProcessInv
<1>2. \A s \in Sarcos : sarco[s].res \in Times \cup {0}
  BY DEF Known, TypeInv, ServiceInv, ChainInv, ContractTypeOK
<1>3. Times \cup {0} \subseteq Nat
  BY ContractAssumption
<1>4. \A s \in Sarcos : sarco[s].res \in Nat
  BY <1>2, <1>3
<1> QED BY <1>1, <1>4, ServiceAssumption DEF Sched!Job

(* No key that is not published is beyond the grace period. *)
LEMMA UnpublishedOwed ==
    ASSUME CalmDeployment, Punctual, Known, TimeInv, NEW s \in Sarcos, Unpublished(s)
    PROVE  Owed(s)
<1>1. now <= sarco[s].res + Margin
  BY DEF TimeInv
<1>2. Margin \in Nat /\ Margin <= Grace
  BY UnpublishedTimes, MarginGrows DEF CalmDeployment
<1>3. now <= sarco[s].res + Grace
  BY <1>1, <1>2, UnpublishedTimes, ContractAssumption
<1> QED BY <1>3, UnpublishedTimes, ContractAssumption DEF Unpublished, Owed, GraceOver

(* At rest a key that is not published has a job with a date to come. *)
LEMMA RestInTime ==
    ASSUME CalmDeployment, Punctual, Known, CalmInv, TimeInv, Quiescent,
           NEW s \in Sarcos, Unpublished(s)
    PROVE  now + 1 <= sarco[s].res + Margin
<1>1. PICK t \in timers : t.sarco = s
  BY UnpublishedOwed, AtRest DEF Scheduled
<1>2. ~NewTime(s) /\ t.at > Sched!SystemClock
  BY AtRest DEF NewTime, NoneDue
<1>3. t.at - Skew <= sarco[s].res + Margin
  BY <1>1, <1>2 DEF TimeInv
<1>4. Margin \in Nat
  BY UnpublishedTimes, MarginGrows DEF CalmDeployment
<1> QED BY <1>2, <1>3, <1>4, UnpublishedTimes DEF Sched!SystemClock

(* Where the chain stands and no job is made, dates stay as they are. *)
LEMMA TimeStands ==
    ASSUME CalmDeployment, Known, TimeInv,
           UNCHANGED <<contractVars, crashes>>, \A t \in timers' : t \in timers,
           \A t \in timers' : NewTime(t.sarco) => NewTime(t.sarco)',
           \A s \in Sarcos : Renewed(s)' => Renewed(s)
    PROVE  TimeInv'
<1>1. Margin' = Margin
  BY UnpublishedTimes, MarginGrows DEF CalmDeployment
<1>2. \A s : Unpublished(s)' <=> Unpublished(s)
  BY ChainStands DEF Unpublished, Active
<1> QED BY <1>1, <1>2, ChainStands DEF TimeInv

(* A job made of the time on chain is within the margin. *)
LEMMA TimeScheduled ==
    ASSUME CalmDeployment, Known, TimeInv, runs = {}, NoneDue,
           UNCHANGED <<contractVars, crashes>>,
           NEW s \in Sarcos, NEW b \in BlockTimestamp, NEW r \in Times, NEW c,
           Sched!SchedulePublish(s, b, r, c),
           r = sarco[s].res, now < r \/ Renewed(s),
           \A u : u # s => ~NewTime(u),
           \A u \in Sarcos : Renewed(u)' => Renewed(u)
    PROVE  TimeInv'
<1>1. /\ Margin' = Margin /\ Margin \in Nat /\ Late \in Nat /\ Buffer + Late <= Margin
      /\ now \in Nat /\ Skew \in Int /\ r \in Nat /\ Buffer \in Nat /\ SoonDelay \in Nat
  BY UnpublishedTimes, MarginGrows, ServiceAssumption DEF CalmDeployment
<1>2. \A u : Unpublished(u)' <=> Unpublished(u)
  BY ChainStands DEF Unpublished, Active
<1>3. b \in Int /\ b <= now /\ now - b <= Late
  BY <1>1, ReadingsLate DEF CalmDeployment
<1>4. \A t \in timers' :
         \/ t.sarco = s /\ t.at = Sched!ScheduledTime(b, r)
         \/ t.sarco # s /\ t \in timers
  <2> DEFINE job == [sarco |-> s, at |-> Sched!ScheduledTime(b, r), res |-> r, ctx |-> c]
  <2>1. job.sarco = s /\ job.at = Sched!ScheduledTime(b, r)
    OBVIOUS
  <2>2. timers' \subseteq (timers \ {slot[s]}) \cup {job}
    BY DEF Known, JobInv, Sched!InProcessIsRunning, Sched!SchedulePublish, Sched!WithoutSlot
  <2> HIDE DEF job
  <2>3. \A t \in timers : t.sarco = s => t = slot[s]
    BY DEF Known, JobInv
  <2> QED BY <2>1, <2>2, <2>3
<1>5. Unpublished(s) => Sched!ScheduledTime(b, r) - Skew <= r + Margin
  <2>1. CASE b > r
    <3>1. Unpublished(s) => now + SoonDelay <= r + Margin
      BY <1>1, <1>3, <2>1 DEF TimeInv
    <3> QED BY <1>1, <1>3, <2>1, <3>1 DEF Sched!ScheduledTime, Sched!SystemClock
  <2>2. CASE ~(b > r)
    <3>1. Sched!ScheduledTime(b, r) = r + (now + Skew - b) + Buffer
      BY <1>1, <1>3, <2>2 DEF Sched!ScheduledTime, Sched!SystemClock
    <3> QED BY <1>1, <1>3, <3>1
  <2> QED BY <2>1, <2>2
<1>6. ASSUME NEW t \in timers', Unpublished(t.sarco)
      PROVE  t.at - Skew <= sarco[t.sarco].res + Margin
  BY <1>4, <1>5, <1>6 DEF TimeInv
<1> QED BY <1>1, <1>2, <1>6, ChainStands DEF TimeInv

-----------------------------------------------------------------------------
(* The steps. *)

(* A new resurrection time is to come, and is on its way to the scheduler. *)
LEMMA TimeAnnounced ==
    ASSUME CalmDeployment, Known, CalmInv, TimeInv, ~up \/ Quiescent,
           NEW kind, NEW s \in Sarcos, NEW r, Announce(kind, s, r),
           \A u \in Sarcos \ {s} : sarco'[u] = sarco[u],
           \/ kind \in {"create", "rewrap"} /\ sarco'[s].res = r /\ r \in Nat /\ now < r
           \/ (Unpublished(s)' => Unpublished(s)) /\ sarco'[s].res = sarco[s].res
    PROVE  TimeInv'
<1>1. UNCHANGED <<now, up, fetch, tasks, jobVars, crashes>>
  BY DEF Announce
<1>2. timers' = timers
  BY <1>1 DEF jobVars
<1>3. /\ Margin' = Margin /\ Margin \in Nat /\ now \in Nat /\ SoonDelay \in Nat
      /\ \A t \in timers : t.sarco \in Sarcos
  BY <1>1, UnpublishedTimes, MarginGrows, ServiceAssumption DEF CalmDeployment
<1>4. \A u : Renewed(u)' <=> Renewed(u)
  BY <1>1 DEF Renewed
<1>5. \A t \in timers : ~NewTime(t.sarco) /\ (kind \in {"create", "rewrap"} => NewTime(s)')
  <2>1. CASE ~up
    BY <2>1 DEF CalmInv, OneAtATime
  <2>2. CASE Quiescent
    <3>1. inbox'[0] = <<[kind |-> kind, sarco |-> s, res |-> r]>>
      BY <2>2, Announced
    <3>2. inbox'[0] # <<>> /\ inbox'[0][1].kind = kind /\ inbox'[0][1].sarco = s
      BY <3>1
    <3> QED BY <2>2, <3>2, AtRest DEF NewTime
  <2> QED BY <2>1, <2>2
<1>6. \A u \in Sarcos \ {s} : Unpublished(u)' <=> Unpublished(u)
  BY DEF Unpublished, Active
<1>7. ASSUME NEW u \in Sarcos, Unpublished(u)'
      PROVE  /\ now <= sarco'[u].res + Margin
             /\ Renewed(u) => now <= sarco'[u].res \/ now + SoonDelay <= sarco'[u].res + Margin
  <2>1. CASE Unpublished(u) /\ sarco'[u].res = sarco[u].res
    BY <2>1 DEF TimeInv
  <2>2. CASE u = s /\ sarco'[s].res = r /\ r \in Nat /\ now < r
    BY <1>3, <2>2
  <2> QED BY <1>6, <1>7, <2>1, <2>2
<1>8. ASSUME NEW t \in timers, Unpublished(t.sarco)'
      PROVE  t.at - Skew <= sarco'[t.sarco].res + Margin \/ NewTime(t.sarco)'
  <2>1. CASE Unpublished(t.sarco) /\ sarco'[t.sarco].res = sarco[t.sarco].res
    BY <1>5, <2>1 DEF TimeInv
  <2>2. CASE t.sarco = s /\ kind \in {"create", "rewrap"}
    BY <1>5, <2>2
  <2> QED BY <1>3, <1>6, <1>8, <2>1, <2>2
<1> QED BY <1>1, <1>2, <1>3, <1>4, <1>7, <1>8 DEF TimeInv

LEMMA TimeEvent ==
    ASSUME CalmDeployment, Known, CalmInv, TimeInv, ContractEvent
    PROVE  TimeInv'
<1>1. ~up \/ Quiescent
  BY DEF ContractEvent, WorldMayMove, CalmDeployment
<1>2. /\ sarco \in [Sarcos -> [status : Status, res : Times \cup {0}, published : BOOLEAN]]
      /\ now \in Nat /\ Times \subseteq Nat
  BY ContractAssumption DEF Known, TypeInv, ServiceInv, ChainInv, ContractTypeOK
<1>3. PICK s \in Sarcos :
          \/ \E r \in Times : Create(s, r) /\ Announce("create", s, r)
          \/ \E r \in Times : Rewrap(s, r) /\ Announce("rewrap", s, r)
          \/ Bury(s) /\ Announce("bury", s, 0)
          \/ Accuse(s) /\ Announce("accuse", s, 0)
          \/ Clean(s) /\ Announce("clean", s, 0)
  BY DEF ContractEvent
<1>4. ASSUME NEW r \in Times, Create(s, r), Announce("create", s, r)
      PROVE  TimeInv'
  <2>1. sarco' = [sarco EXCEPT ![s] = [status |-> "active", res |-> r, published |-> FALSE]]
        /\ r > now /\ r \in Nat
    BY <1>2, <1>4 DEF Create
  <2>2. sarco'[s].res = r /\ \A u \in Sarcos \ {s} : sarco'[u] = sarco[u]
    BY <1>2, <2>1
  <2> QED BY <1>1, <1>2, <1>4, <2>1, <2>2, TimeAnnounced
<1>5. ASSUME NEW r \in Times, Rewrap(s, r), Announce("rewrap", s, r)
      PROVE  TimeInv'
  <2>1. sarco' = [sarco EXCEPT ![s].res = r] /\ r > now /\ r \in Nat
    BY <1>2, <1>5 DEF Rewrap
  <2>2. sarco'[s].res = r /\ \A u \in Sarcos \ {s} : sarco'[u] = sarco[u]
    BY <1>2, <2>1
  <2> QED BY <1>1, <1>2, <1>5, <2>1, <2>2, TimeAnnounced
<1>6. ASSUME Bury(s) \/ Accuse(s) \/ Clean(s), NEW kind, Announce(kind, s, 0)
      PROVE  TimeInv'
  <2>1. Active(s) /\ \E status \in Status : sarco' = [sarco EXCEPT ![s].status = status]
    BY <1>6 DEF Bury, Accuse, Clean, Status
  <2>2. PICK status \in Status : sarco' = [sarco EXCEPT ![s].status = status]
    BY <2>1
  <2>3. /\ sarco'[s].res = sarco[s].res /\ sarco'[s].published = sarco[s].published
        /\ \A u \in Sarcos \ {s} : sarco'[u] = sarco[u]
    BY <1>2, <2>2
  <2>4. Unpublished(s)' => Unpublished(s)
    BY <2>1, <2>3 DEF Unpublished
  <2> QED BY <1>1, <1>6, <2>3, <2>4, TimeAnnounced
<1> QED BY <1>3, <1>4, <1>5, <1>6

(* A crash costs the jobs, and 5 s. *)
LEMMA TimeCrash ==
    ASSUME CalmDeployment, Known, TimeInv, Crash
    PROVE  TimeInv'
<1>1. UNCHANGED contractVars /\ timers' = {} /\ crashes' = crashes + 1
  BY DEF Crash, ProcessDies, Sched!ProcessLost
<1>2. Margin' = Margin + SoonDelay /\ Margin \in Nat /\ SoonDelay \in Nat
  BY <1>1, UnpublishedTimes, MarginGrows, ServiceAssumption DEF CalmDeployment
<1>3. \A s : Unpublished(s)' <=> Unpublished(s)
  BY <1>1, ChainStands DEF Unpublished, Active
<1>4. \A s \in Sarcos : Unpublished(s) => now + SoonDelay <= sarco[s].res + Margin'
  BY <1>2, UnpublishedTimes DEF TimeInv
<1>5. \A s \in Sarcos : Unpublished(s) => now <= sarco[s].res + Margin'
  BY <1>2, UnpublishedTimes DEF TimeInv
<1> QED BY <1>1, <1>3, <1>4, <1>5, ChainStands DEF TimeInv

(* Where the jobs are made anew without a crash, they had dates to come. *)
LEMMA TimeRefetch ==
    ASSUME CalmDeployment, Punctual, Known, CalmInv, TimeInv, RefetchInterval
    PROVE  TimeInv'
<1>1. Quiescent /\ Refetch /\ UNCHANGED <<contractVars, inbox, tasks, timers, crashes>>
  BY DEF RefetchInterval, WorldMayMove, CalmDeployment, linkVars, jobVars
<1>2. Margin' = Margin /\ SoonDelay = 1
  BY <1>1, UnpublishedTimes, MarginGrows DEF CalmDeployment, Punctual
<1>3. \A s : (Unpublished(s)' <=> Unpublished(s)) /\ (NewTime(s)' <=> NewTime(s))
  BY <1>1, ChainStands DEF Unpublished, Active, NewTime
<1>4. \A s \in Sarcos : Unpublished(s) => now + SoonDelay <= sarco[s].res + Margin
  BY <1>1, <1>2, RestInTime
<1> QED BY <1>1, <1>2, <1>3, <1>4, ChainStands DEF TimeInv

LEMMA TimeDeliver ==
    ASSUME CalmDeployment, Known, CalmInv, TimeInv, NEW c \in Contexts, DeliverEvent(c)
    PROVE  TimeInv'
<1> DEFINE e == inbox[0][1]
<1>1. e = inbox[0][1]
  OBVIOUS
<1> HIDE DEF e
<1>2. /\ tasks = {} /\ inbox[0] # <<>> /\ EventRight(e)
      /\ UNCHANGED <<contractVars, up, fetch, jobVars>>
      /\ \/ CreateSarcoHandler(c, e)
         \/ IgnoredEvent(e)
         \/ RewrapHandler(c, e)
         \/ RemoveHandler(e)
         \/ AccuseHandler(c, e)
  BY <1>1, Delivered
<1>3. timers' = timers /\ crashes' = crashes
  BY <1>2 DEF jobVars, DeliverEvent
<1>4. \A s : NewTime(s) => e.kind \in {"create", "rewrap"} /\ e.sarco = s
  BY <1>1, <1>2 DEF NewTime
<1>5. \/ tasks' = {} /\ e.kind \notin {"create", "rewrap"}
      \/ tasks' = {Task("createTime", e.sarco, c, e.res, 0)}
      \/ tasks' = {Task("rewrapTime", e.sarco, c, e.res, 0)}
      \/ tasks' = {Task("accuseRead", e.sarco, c, 0, 0)} /\ e.kind = "accuse"
  <2>1. Unlinked(tasks) = {}
    BY <1>2 DEF Unlinked
  <2> QED BY <1>2, <2>1 DEF CreateSarcoHandler, IgnoredEvent, RewrapHandler, RemoveHandler,
                            AccuseHandler, EventRight
<1>6. /\ \A t \in tasks' : t.at \in {"createTime", "rewrapTime", "accuseRead"}
      /\ e.kind \in {"create", "rewrap"} =>
            \E t \in tasks' : t.at \in {"createTime", "rewrapTime"} /\ t.sarco = e.sarco
  <2>1. \A at, r : Task(at, e.sarco, c, r, 0).at = at /\ Task(at, e.sarco, c, r, 0).sarco = e.sarco
    BY DEF Task
  <2> QED BY <1>5, <2>1
<1>7. \A s : NewTime(s) => NewTime(s)'
  BY <1>4, <1>6 DEF NewTime
<1>8. \A s : Renewed(s)' => Renewed(s)
  BY <1>2, <1>6 DEF Renewed, Synced
<1> QED BY <1>2, <1>3, <1>7, <1>8, TimeStands

LEMMA TimeHandler ==
    ASSUME CalmDeployment, Known, CalmInv, TimeInv, HandlerStep
    PROVE  TimeInv'
<1>1. PICK t \in tasks : CreateTime(t) \/ CreateArch(t) \/ RewrapTime(t) \/ AccuseRead(t)
  BY DEF HandlerStep
<1>2. UNCHANGED <<contractVars, up, fetch, crashes>>
  BY DEF HandlerStep, linkVars
<1>3. /\ tasks = {t} /\ t \in TaskType /\ t.sarco \in Sarcos /\ TaskRight(t)
      /\ inbox[0] = <<>> /\ runs = {} /\ NoneDue
  BY <1>1, Waiting DEF CreateTime, CreateArch, RewrapTime, AccuseRead, Synced
<1>4. \A u \in tasks' : u.at = "createArch"
  BY <1>1, <1>3 DEF CreateTime, CreateArch, RewrapTime, AccuseRead, Unlinked, TaskType
<1>5. \A s : Renewed(s)' => Renewed(s)
  BY <1>2, <1>4 DEF Renewed, Synced
<1>6. CASE CreateTime(t) \/ RewrapTime(t)
  <2>1. PICK b \in BlockTimestamp : Sched!SchedulePublish(t.sarco, b, t.res, t.ctx)
    BY <1>6 DEF CreateTime, RewrapTime
  <2>2. t.at \in {"createTime", "rewrapTime"}
    BY <1>6 DEF CreateTime, RewrapTime
  <2>3. t.res = sarco[t.sarco].res /\ now < t.res /\ t.res \in Times
    BY <1>3, <2>2, Waiting DEF TaskRight
  <2>4. \A u : u # t.sarco => ~NewTime(u)
    BY <1>3 DEF NewTime
  <2> QED BY <1>2, <1>3, <1>5, <2>1, <2>3, <2>4, TimeScheduled
<1>7. CASE CreateArch(t) \/ AccuseRead(t)
  <2>1. \A j \in timers' : j \in timers
    BY <1>3, <1>7, Cancelled DEF CreateArch, AccuseRead, jobVars
  <2>2. \A s : ~NewTime(s)
    BY <1>3, <1>7 DEF NewTime, CreateArch, AccuseRead
  <2> QED BY <1>2, <1>5, <2>1, <2>2, TimeStands
<1> QED BY <1>1, <1>6, <1>7

(* The sync makes the jobs of keys whose margin leaves the 5 s. *)
LEMMA TimeSync ==
    ASSUME CalmDeployment, Known, CalmInv, TimeInv, SyncStep
    PROVE  TimeInv'
<1>1. PICK t \in tasks : SyncSarco(t) \/ SyncArch(t) \/ SyncFails(t)
  BY DEF SyncStep
<1>2. UNCHANGED <<contractVars, up, fetch, crashes>>
  BY DEF SyncStep, linkVars
<1>3. Synced(t) /\ ~SyncFails(t)
  BY <1>1 DEF SyncSarco, SyncArch, SyncFails, Synced, CalmDeployment
<1>4. /\ t \in TaskType /\ t.sarco \in Sarcos /\ TaskRight(t) /\ runs = {} /\ NoneDue
      /\ \A s : ~NewTime(s)
  BY <1>3, Waiting
<1>5. CASE SyncSarco(t)
  <2> DEFINE u == [t EXCEPT !.at = "syncArch", !.res = sarco[t.sarco].res]
  <2>1. tasks' \subseteq (tasks \ {t}) \cup {u} /\ timers' = timers
    BY <1>5 DEF SyncSarco, jobVars
  <2>2. u.sarco = t.sarco
    BY <1>4 DEF TaskType
  <2> HIDE DEF u
  <2>3. \A s : Renewed(s)' => Renewed(s)
    BY <1>2, <1>3, <2>1, <2>2 DEF Renewed
  <2> QED BY <1>2, <1>4, <2>1, <2>3, TimeStands
<1>6. CASE SyncArch(t)
  <2>1. tasks' = tasks \ {t} /\ t.at = "syncArch"
    BY <1>6 DEF SyncArch
  <2>2. \A s : Renewed(s)' => Renewed(s)
    BY <1>2, <2>1 DEF Renewed
  <2>3. CASE timers' = timers
    BY <1>2, <1>4, <2>2, <2>3, TimeStands
  <2>4. CASE Sched!SchedulePublish(t.sarco, t.block, t.res, t.ctx)
    <3>1. Renewed(t.sarco) /\ t.block \in BlockTimestamp /\ t.res = sarco[t.sarco].res
          /\ t.res \in Times
      BY <1>3, <1>4, <2>1, Waiting DEF Renewed, TaskRight
    <3> QED BY <1>2, <1>4, <2>2, <2>4, <3>1, TimeScheduled
  <2> QED BY <1>6, <2>3, <2>4 DEF SyncArch, jobVars
<1> QED BY <1>1, <1>3, <1>5, <1>6

(* What publishes needs no time any more. *)
LEMMA TimePublish ==
    ASSUME CalmDeployment, Known, CalmInv, TimeInv, JobFires \/ PublishStep
    PROVE  TimeInv'
<1>1. ~NoneDue \/ runs # {}
  <2>1. ASSUME NEW t \in timers, t.at <= Sched!SystemClock
        PROVE  ~NoneDue
    BY <2>1, UnpublishedTimes DEF NoneDue, Sched!SystemClock
  <2> QED BY <2>1 DEF JobFires, Sched!StartPublish, PublishStep
<1>2. tasks = {} /\ \A s : ~NewTime(s)
  BY <1>1, Publishing
<1>3. UNCHANGED <<now, up, fetch, crashes>> /\ tasks' = {} /\ \A t \in timers' : t \in timers
  BY <1>2 DEF JobFires, Sched!StartPublish, PublishStep, linkVars, contractVars, RunDerivesKey,
              RunPublishes, RunSucceeds, RunFails, RunEnds, Sched!EndPublish, jobVars, Unlinked,
              Publish
<1>4. \A s : Renewed(s)' => Renewed(s)
  BY <1>3 DEF Renewed
<1>5. CASE UNCHANGED contractVars
  BY <1>2, <1>3, <1>4, <1>5, TimeStands
<1>6. ASSUME NEW r \in runs, RunPublishes(r)
      PROVE  TimeInv'
  <2>1. sarco' = [sarco EXCEPT ![r.sarco].published = TRUE]
    BY <1>6 DEF RunPublishes, Publish
  <2>2. sarco \in [Sarcos -> [status : Status, res : Times \cup {0}, published : BOOLEAN]]
    BY DEF Known, TypeInv, ServiceInv, ChainInv, ContractTypeOK
  <2>3. \A s \in Sarcos : sarco'[s].res = sarco[s].res /\ (Unpublished(s)' => Unpublished(s))
    BY <2>1, <2>2 DEF Unpublished, Active
  <2>4. Margin' = Margin
    BY <1>3, UnpublishedTimes, MarginGrows DEF CalmDeployment
  <2> QED BY <1>2, <1>3, <1>4, <2>3, <2>4, UnpublishedTimes DEF TimeInv
<1>7. UNCHANGED contractVars \/ \E r \in runs : RunPublishes(r)
  BY DEF JobFires, PublishStep, RunDerivesKey, RunSucceeds, RunFails, RunEnds
<1> QED BY <1>5, <1>6, <1>7

(* At rest a key that is not published has a job with a date to come, so that the
   next second is within the margin, too. *)
LEMMA TimeTick ==
    ASSUME CalmDeployment, Punctual, Known, CalmInv, TimeInv, Tick
    PROVE  TimeInv'
<1>1. Quiescent /\ now' = now + 1 /\ UNCHANGED <<sarco, up, inbox, fetch, tasks, timers, crashes>>
  BY DEF Tick, CalmDeployment, linkVars, jobVars
<1>2. Margin' = Margin
  BY <1>1, UnpublishedTimes, MarginGrows DEF CalmDeployment
<1>3. \A s : /\ Unpublished(s)' <=> Unpublished(s)
             /\ NewTime(s)' <=> NewTime(s)
             /\ ~Renewed(s)'
  BY <1>1, AtRest DEF Unpublished, Active, NewTime, Renewed
<1>4. \A s \in Sarcos : Unpublished(s) => now' <= sarco[s].res + Margin
  BY <1>1, RestInTime
<1> QED BY <1>1, <1>2, <1>3, <1>4 DEF TimeInv

LEMMA TimeStep ==
    CalmDeployment /\ Punctual => (Known /\ CalmInv /\ TimeInv /\ [Next]_vars => TimeInv')
<1> SUFFICES ASSUME CalmDeployment, Punctual, Known, CalmInv, TimeInv, [Next]_vars
             PROVE  TimeInv'
  OBVIOUS
<1>1. ASSUME UNCHANGED <<contractVars, inbox, tasks, timers, crashes>>,
             \A s : Renewed(s)' => Renewed(s)
      PROVE  TimeInv'
  BY <1>1, TimeStands DEF NewTime
<1>2. CASE ProcessStep
  <2>1. CASE StoreUnset
    <3>1. 0 \in Contexts /\ Contexts = {0}
      BY OneContext
    <3>2. inbox[0] # <<>> \/ tasks # {}
      BY <2>1, <3>1 DEF StoreUnset
    <3>3. storeSet
      BY <3>2 DEF CalmInv, OneAtATime, Busy
    <3> QED BY <2>1, <3>3 DEF StoreUnset
  <2>2. ASSUME NEW c \in Contexts, Connected(c)
        PROVE  TimeInv'
    BY <1>1, <2>2 DEF Connected, jobVars, Renewed
  <2>3. CASE Restart
    <3>1. UNCHANGED <<contractVars, inbox, tasks, timers, crashes>> /\ ~up
      BY <2>3 DEF Restart, jobVars
    <3> QED BY <1>1, <3>1 DEF Renewed
  <2>4. CASE FetchProfile
    <3>1. UNCHANGED <<contractVars, inbox, tasks, timers, crashes>> /\ fetch # NoFetch
      BY <2>4 DEF FetchProfile, jobVars, linkVars, NoFetch
    <3> QED BY <1>1, <3>1 DEF Renewed
  <2>5. CASE QuerySubgraph \/ FetchSarcophagi
    <3>0. UNCHANGED <<contractVars, jobVars, crashes>> /\ fetch.at \in {"query", "page"}
      BY <2>5 DEF QuerySubgraph, FetchSarcophagi
    <3>1. UNCHANGED <<contractVars, timers, crashes>> /\ fetch # NoFetch
      BY <3>0 DEF jobVars, NoFetch
    <3>2. \A s : ~NewTime(s) /\ Renewed(s)
      BY <3>1, Fetching DEF Renewed
    <3> QED BY <3>1, <3>2, TimeStands
  <2> QED BY <1>2, <2>1, <2>2, <2>3, <2>4, <2>5, TimeDeliver, TimeHandler, TimeSync, TimePublish
      DEF ProcessStep
<1>3. CASE EnvironmentStep
  <2>1. ~SubgraphIndexes
    BY DEF SubgraphIndexes, Index, CalmInv, ChainCalm
  <2>2. \A c \in Contexts : ~ConnectionClosed(c) /\ ~ProviderError(c)
    BY OneContext DEF CalmInv
  <2> QED BY <1>3, <2>1, <2>2, TimeEvent, TimeCrash, TimeRefetch DEF EnvironmentStep
<1>4. CASE Tick
  BY <1>4, TimeTick
<1>5. CASE UNCHANGED vars
  BY <1>1, <1>5 DEF vars, linkVars, jobVars, Renewed
<1> QED BY <1>2, <1>3, <1>4, <1>5 DEF Next

(* No bond is lost: the grace period of an active sarcophagus does not end without
   its key on chain, however often the process dies within what the grace period
   allows for, and however often the contract's data is fetched again. *)
THEOREM NoKeyIsLate == CalmDeployment /\ Punctual => (Spec => []NoKeyOverdue)
<1> SUFFICES ASSUME CalmDeployment, Punctual
             PROVE  Spec => []NoKeyOverdue
  OBVIOUS
<1>1. Init => TimeInv
  <2> SUFFICES ASSUME Init
               PROVE  TimeInv
    OBVIOUS
  <2>1. timers = {} /\ \A s \in Sarcos : ~Unpublished(s)
    BY DEF Init, Sched!Init, ContractInit, Unpublished, Active
  <2> QED BY <2>1 DEF TimeInv
<1>2. Known /\ CalmInv /\ TimeInv /\ [Next]_vars => TimeInv'
  BY TimeStep
<1>3. Known /\ TimeInv => NoKeyOverdue
  BY UnpublishedOwed DEF NoKeyOverdue, Unpublished, Owed
<1> QED BY <1>1, <1>2, <1>3, CalmInvariant, PTL DEF Spec

=============================================================================
