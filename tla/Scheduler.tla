------------------------------ MODULE Scheduler ------------------------------
(***************************************************************************)
(* The scheduler of private-key publications (src/utils/scheduler.ts):     *)
(* one node-schedule job per sarcophagus, replaced whenever a new          *)
(* resurrection time is learned, cancelled when the sarcophagus is         *)
(* compromised, and held back while a publication is in flight.            *)
(*                                                                         *)
(* What the rest of the service does to the scheduler is left open: any    *)
(* sarcophagus may be scheduled at any time, from any block timestamp that *)
(* getBlockTimestamp may have returned.  ArchaeologistService implements   *)
(* this specification.                                                     *)
(*                                                                         *)
(* Time is counted in seconds of the chain.  `now' is the real time,       *)
(* `blockTime' the timestamp of the latest block, which trails it by at    *)
(* most BlockLag, and Date.now() is off by Skew.                           *)
(***************************************************************************)
EXTENDS Integers

CONSTANTS
    Sarcos,     \* sarcophagi this archaeologist is cursed on
    Contexts,   \* network contexts a job's closure can capture
    Times,      \* resurrection times embalmers choose from
    Skew,       \* system clock minus chain clock
    Buffer,     \* scheduler.ts adds 15 s after the resurrection time ...
    SoonDelay,  \* ... and waits 5 s when that time is already past
    BlockLag,   \* how far the latest block may trail real time
    TimestampFallback, \* may getBlockTimestamp fall back on Date.now()?
    MaxTime,    \* bound on the clock
    NoJob       \* the slot of a sarcophagus never scheduled

ASSUME SchedulerAssumption ==
    /\ Times \subseteq Nat
    /\ Skew \in Int
    /\ BlockLag \in Nat
    /\ Buffer \in Nat \ {0}
    /\ SoonDelay \in Nat \ {0}
    /\ TimestampFallback \in BOOLEAN
    /\ MaxTime \in Nat
    /\ NoJob \notin [sarco : Sarcos, at : Int, res : Times, ctx : Contexts]

VARIABLES
    now, blockTime,
    timers,     \* node-schedule jobs that are still to fire
    slot,       \* scheduledPublishPrivateKey[sarcoId]
    inProcess,  \* sarcoIdsInProcessOfHavingPrivateKeyPublished
    runs        \* publishPrivateKey calls in flight, each named by its job

vars == <<now, blockTime, timers, slot, inProcess, runs>>

Job == [sarco : Sarcos, at : Int, res : Times, ctx : Contexts]

(* Types: in particular, every job and every run is about a sarcophagus and a
   resurrection time somebody scheduled. *)
TypeOK ==
    /\ now \in Nat
    /\ blockTime \in Nat
    /\ timers \subseteq Job
    /\ slot \in [Sarcos -> Job \cup {NoJob}]
    /\ inProcess \subseteq Sarcos
    /\ runs \subseteq Job

SystemClock == now + Skew

(* A reading may be old when it is used: refresh-data.ts reads the block
   timestamp once and schedules after more awaits.  The fallback reads the
   system clock in its place. *)
Readings ==
    0..blockTime \cup (IF TimestampFallback THEN 0..SystemClock ELSE {})

-----------------------------------------------------------------------------
Init ==
    /\ now = 0
    /\ blockTime = 0
    /\ timers = {}
    /\ slot = [s \in Sarcos |-> NoJob]
    /\ inProcess = {}
    /\ runs = {}

(* Mutant: the 15 s buffer is left out. *)
ScheduledTimeUnbuffered(b, r) ==
    IF b > r THEN SystemClock + SoonDelay ELSE r + (SystemClock - b)

(* Mutant: the offset of the system clock is taken the wrong way round. *)
ScheduledTimeSwapped(b, r) ==
    IF b > r THEN SystemClock + SoonDelay ELSE r + (b - SystemClock) + Buffer

(* The date handed to node-schedule, for a resurrection time r and a block
   timestamp b: soon when r is past, else r in terms of the system clock. *)
ScheduledTime(b, r) ==
    IF b > r
    THEN SystemClock + SoonDelay
    ELSE r + (SystemClock - b) + Buffer

(* Mutant: the slot's job is armed again instead of cancelled. *)
WithSlot(s) == timers \cup {slot[s]}

(* Job.cancel() on a job that has fired, or on an empty slot, does nothing. *)
WithoutSlot(s) == timers \ {slot[s]}

(* Mutant: the in-process list is not consulted. *)
SchedulePublishRegardless(s, b, r, c) ==
    LET job == [sarco |-> s, at |-> ScheduledTime(b, r), res |-> r, ctx |-> c]
    IN  /\ timers' = WithoutSlot(s) \cup {job}
        /\ slot' = [slot EXCEPT ![s] = job]
        /\ UNCHANGED <<inProcess, runs>>

SchedulePublish(s, b, r, c) ==
    /\ \/ /\ s \in inProcess
          /\ UNCHANGED <<timers, slot>>
       \/ /\ s \notin inProcess
          /\ LET job == [sarco |-> s, at |-> ScheduledTime(b, r), res |-> r, ctx |-> c]
             IN  /\ timers' = WithoutSlot(s) \cup {job}
                 /\ slot' = [slot EXCEPT ![s] = job]
    /\ UNCHANGED <<inProcess, runs>>

CancelScheduledPublish(s) ==
    /\ timers' = WithoutSlot(s)
    /\ UNCHANGED <<slot, inProcess, runs>>

(* node-schedule calls the job at its date or later.  Up to its first await
   publishPrivateKey only enters the sarcophagus in the in-process list. *)
StartPublish(t) ==
    /\ t \in timers
    /\ t.at <= SystemClock
    /\ timers' = timers \ {t}
    /\ inProcess' = inProcess \cup {t.sarco}
    /\ runs' = runs \cup {t}
    /\ UNCHANGED slot

(* Mutant: the in-process entry survives the run. *)
EndPublishInProcess(r) ==
    /\ r \in runs
    /\ runs' = runs \ {r}
    /\ UNCHANGED <<timers, slot, inProcess>>

(* The finally block of publishPrivateKey. *)
EndPublish(r) ==
    /\ r \in runs
    /\ runs' = runs \ {r}
    /\ inProcess' = inProcess \ {r.sarco}
    /\ UNCHANGED <<timers, slot>>

(* The process died: nothing the scheduler holds is persisted. *)
ProcessLost ==
    /\ timers' = {}
    /\ slot' = [s \in Sarcos |-> NoJob]
    /\ inProcess' = {}
    /\ runs' = {}

Tick ==
    /\ now < MaxTime
    /\ now' = now + 1
    /\ blockTime' \in {b \in blockTime..now' : now' - b <= BlockLag}
    /\ UNCHANGED <<timers, slot, inProcess, runs>>

Step ==
    \/ \E s \in Sarcos, r \in Times, c \in Contexts :
          \E b \in Readings : SchedulePublish(s, b, r, c)
    \/ \E s \in Sarcos : CancelScheduledPublish(s)
    \/ \E t \in timers : StartPublish(t)
    \/ \E r \in runs : EndPublish(r)
    \/ ProcessLost

Next ==
    \/ Step /\ UNCHANGED <<now, blockTime>>
    \/ Tick

Spec == Init /\ [][Next]_vars

-----------------------------------------------------------------------------
(* A sarcophagus is never published twice at the same time, nor can a job
   go off while a publication of the same sarcophagus is in flight: between
   them, its live jobs and its runs are at most one, however schedules,
   cancellations, firings and completions interleave. *)
SinglePublisher ==
    /\ \A t, u \in timers : t.sarco = u.sarco => t = u
    /\ \A r, q \in runs : r.sarco = q.sarco => r = q
    /\ \A t \in timers, r \in runs : t.sarco # r.sarco

(* The in-process list that the scheduler consults is exactly the set of
   sarcophagi with a publication in flight: a stale entry would keep a
   sarcophagus from ever being scheduled again. *)
InProcessIsRunning == inProcess = {r.sarco : r \in runs}

(* The system clock is only trusted when a block timestamp cannot be read,
   and then it must not be ahead by more than the margins absorb. *)
ClockTrusted ==
    /\ BlockLag <= Buffer
    /\ TimestampFallback =>
          /\ SoonDelay <= Buffer
          /\ Skew + BlockLag <= SoonDelay

(* "plus 15 seconds to allow block.timestamp to advance past resurrection
   time": when a job fires, the latest block has reached the resurrection
   time the job was scheduled for, whatever the offset of the system clock. *)
NeverBeforeResurrection == \A r \in runs : r.res <= blockTime

=============================================================================
