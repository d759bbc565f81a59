--------------------------- MODULE SchedulerProofs ---------------------------
(***************************************************************************)
(* Proofs about the scheduler: type correctness, at most one live job or   *)
(* run per sarcophagus, and no publication before the resurrection time.   *)
(***************************************************************************)
EXTENDS Scheduler, TLAPS

(* A job is only ever armed for a date in the future: node-schedule would
   silently drop one whose date is past, and the key would not be published. *)
LEMMA ScheduledTimeIsFuture ==
    ASSUME NEW b \in Int, NEW r \in Int, now \in Int
    PROVE  /\ ScheduledTime(b, r) \in Int
           /\ ScheduledTime(b, r) > SystemClock
  BY SchedulerAssumption DEF ScheduledTime, SystemClock

(* Whatever getBlockTimestamp returns is an integer. *)
LEMMA ReadingsAreInts ==
    ASSUME TypeOK
    PROVE  Readings \subseteq Int
  BY SchedulerAssumption DEF TypeOK, Readings, SystemClock

(* Jobs carry two integers to compare: the date and the resurrection time. *)
LEMMA JobDates == \A t \in Job : t.res \in Int /\ t.at \in Int
<1> SUFFICES ASSUME NEW t \in Job
             PROVE  t.res \in Int /\ t.at \in Int
  OBVIOUS
<1>1. t.res \in Times /\ t.at \in Int
  BY DEF Job
<1>2. Times \subseteq Int
  BY SchedulerAssumption
<1> QED BY <1>1, <1>2

-----------------------------------------------------------------------------
(* One case per action of the scheduler. *)
LEMMA TypeOKStep == TypeOK /\ [Next]_vars => TypeOK'
<1> SUFFICES ASSUME TypeOK, [Next]_vars
             PROVE  TypeOK'
  OBVIOUS
<1> USE DEF TypeOK
<1>1. ASSUME NEW s \in Sarcos, NEW r \in Times, NEW c \in Contexts, NEW b \in Readings,
             SchedulePublish(s, b, r, c), UNCHANGED <<now, blockTime>>
      PROVE  TypeOK'
  <2>1. CASE s \in inProcess
    BY <1>1, <2>1 DEF SchedulePublish
  <2>2. CASE s \notin inProcess
    <3> DEFINE job == [sarco |-> s, at |-> ScheduledTime(b, r), res |-> r, ctx |-> c]
    <3>1. b \in Int /\ r \in Int
      BY ReadingsAreInts, SchedulerAssumption
    <3>2. job \in Job
      BY <3>1, ScheduledTimeIsFuture DEF Job
    <3>3. timers' = WithoutSlot(s) \cup {job} /\ slot' = [slot EXCEPT ![s] = job]
      BY <1>1, <2>2 DEF SchedulePublish
    <3> HIDE DEF job
    <3> QED BY <1>1, <3>2, <3>3 DEF SchedulePublish, WithoutSlot
  <2> QED BY <2>1, <2>2
<1>2. ASSUME NEW s \in Sarcos, CancelScheduledPublish(s), UNCHANGED <<now, blockTime>>
      PROVE  TypeOK'
  BY <1>2 DEF CancelScheduledPublish, WithoutSlot
<1>3. ASSUME NEW t \in timers, StartPublish(t), UNCHANGED <<now, blockTime>>
      PROVE  TypeOK'
  BY <1>3 DEF StartPublish, Job
<1>4. ASSUME NEW r \in runs, EndPublish(r), UNCHANGED <<now, blockTime>>
      PROVE  TypeOK'
  BY <1>4 DEF EndPublish
<1>5. ASSUME ProcessLost, UNCHANGED <<now, blockTime>>
      PROVE  TypeOK'
  BY <1>5 DEF ProcessLost
<1>6. CASE Tick
  BY <1>6 DEF Tick
<1>7. CASE UNCHANGED vars
  BY <1>7 DEF vars
<1> QED BY <1>1, <1>2, <1>3, <1>4, <1>5, <1>6, <1>7 DEF Next, Step

(* The scheduler's variables keep their types. *)
THEOREM TypeCorrect == Spec => []TypeOK
<1>1. Init => TypeOK
  BY DEF Init, TypeOK
<1> QED BY <1>1, TypeOKStep, PTL DEF Spec

-----------------------------------------------------------------------------
(* SinglePublisher is not inductive: that a new job never joins a live one
   rests on the slot naming the only job that can still be live, and that a
   firing job never joins a run rests on the in-process list. *)
SlotIsOnlyTimer == \A t \in timers : t = slot[t.sarco]
NoTimerInProcess == \A t \in timers : t.sarco \notin inProcess
OneRunEach == \A r, q \in runs : r.sarco = q.sarco => r = q

PublisherInv ==
    /\ SlotIsOnlyTimer
    /\ NoTimerInProcess
    /\ OneRunEach
    /\ InProcessIsRunning

(* The replaced job is cancelled, the refused one changes nothing, and the one
   that fires leaves no other job of its sarcophagus behind. *)
LEMMA PublisherInvStep == TypeOK /\ PublisherInv /\ [Next]_vars => PublisherInv'
<1> SUFFICES ASSUME TypeOK, PublisherInv, [Next]_vars
             PROVE  PublisherInv'
  OBVIOUS
<1> USE DEF TypeOK, PublisherInv, SlotIsOnlyTimer, NoTimerInProcess, OneRunEach,
            InProcessIsRunning
<1>1. ASSUME NEW s \in Sarcos, NEW r \in Times, NEW c \in Contexts, NEW b \in Readings,
             SchedulePublish(s, b, r, c)
      PROVE  PublisherInv'
  <2>1. CASE s \in inProcess
    BY <1>1, <2>1 DEF SchedulePublish
  <2>2. CASE s \notin inProcess
    <3> DEFINE job == [sarco |-> s, at |-> ScheduledTime(b, r), res |-> r, ctx |-> c]
    <3>1. job.sarco = s
      OBVIOUS
    <3>2. /\ timers' = (timers \ {slot[s]}) \cup {job}
          /\ slot' = [slot EXCEPT ![s] = job]
          /\ UNCHANGED <<inProcess, runs>>
      BY <1>1, <2>2 DEF SchedulePublish, WithoutSlot
    <3> HIDE DEF job
    <3>3. SlotIsOnlyTimer'
      <4> SUFFICES ASSUME NEW t \in timers'
                   PROVE  t = slot'[t.sarco]
        OBVIOUS
      <4>1. CASE t = job
        BY <4>1, <3>1, <3>2
      <4>2. CASE t # job
        BY <4>2, <3>2 DEF Job
      <4> QED BY <4>1, <4>2
    <3>4. NoTimerInProcess'
      BY <2>2, <3>1, <3>2
    <3> QED BY <3>2, <3>3, <3>4
  <2> QED BY <2>1, <2>2
<1>2. ASSUME NEW s \in Sarcos, CancelScheduledPublish(s)
      PROVE  PublisherInv'
  BY <1>2 DEF CancelScheduledPublish, WithoutSlot
<1>3. ASSUME NEW t \in timers, StartPublish(t)
      PROVE  PublisherInv'
  BY <1>3 DEF StartPublish
<1>4. ASSUME NEW r \in runs, EndPublish(r)
      PROVE  PublisherInv'
  BY <1>4 DEF EndPublish
<1>5. ASSUME ProcessLost
      PROVE  PublisherInv'
  BY <1>5 DEF ProcessLost
<1>6. CASE Tick
  BY <1>6 DEF Tick
<1>7. CASE UNCHANGED vars
  BY <1>7 DEF vars
<1> QED BY <1>1, <1>2, <1>3, <1>4, <1>5, <1>6, <1>7 DEF Next, Step

(* The inductive invariant holds in every state. *)
THEOREM PublisherInvariant == Spec => []PublisherInv
<1>1. Init => PublisherInv
  BY DEF Init, PublisherInv, SlotIsOnlyTimer, NoTimerInProcess, OneRunEach, InProcessIsRunning
<1> QED BY <1>1, TypeCorrect, PublisherInvStep, PTL DEF Spec

(* A sarcophagus never has two live jobs, two publications in flight, or a
   live job beside a publication in flight, for any number of sarcophagi. *)
THEOREM OnePublisher == Spec => []SinglePublisher
<1>1. PublisherInv => SinglePublisher
  BY DEF PublisherInv, SlotIsOnlyTimer, NoTimerInProcess, OneRunEach, InProcessIsRunning,
         SinglePublisher
<1> QED BY <1>1, PublisherInvariant, PTL

(* The in-process list is exactly the set of publications in flight. *)
THEOREM InProcessExact == Spec => []InProcessIsRunning
<1>1. PublisherInv => InProcessIsRunning
  BY DEF PublisherInv
<1> QED BY <1>1, PublisherInvariant, PTL

-----------------------------------------------------------------------------
(* What keeps a job from firing too early: either the chain has reached the
   resurrection time already, or it will have, however late its latest block
   is, by the time the system clock shows the job's date. *)
Safe(t) == t.res <= blockTime \/ t.res <= t.at - Skew - BlockLag

TimeInv ==
    /\ blockTime <= now
    /\ now - blockTime <= BlockLag
    /\ \A t \in timers : Safe(t)
    /\ NeverBeforeResurrection

(* The date schedulePublishPrivateKeyWithBuffer computes from any reading is
   safe: this is where the 15 s and the 5 s of the code are needed. *)
LEMMA ScheduledTimeIsSafe ==
    ASSUME TypeOK, TimeInv, ClockTrusted, NEW b \in Readings, NEW r \in Times
    PROVE  r <= blockTime \/ r <= ScheduledTime(b, r) - Skew - BlockLag
<1> USE SchedulerAssumption DEF TypeOK, TimeInv, ClockTrusted, ScheduledTime, SystemClock
<1>1. CASE b \in 0..blockTime
  BY <1>1
<1>2. CASE TimestampFallback /\ b \in 0..SystemClock
  BY <1>2
<1> QED BY <1>1, <1>2 DEF Readings

(* New jobs are safe, and ticks keep safe ones safe: the block that is the
   latest when a job is due is at most BlockLag old. *)
LEMMA TimeInvStep ==
    ASSUME ClockTrusted
    PROVE  TypeOK /\ TimeInv /\ [Next]_vars => TimeInv'
<1> SUFFICES ASSUME TypeOK, TimeInv, [Next]_vars
             PROVE  TimeInv'
  OBVIOUS
<1> USE SchedulerAssumption DEF TypeOK, TimeInv, Safe, NeverBeforeResurrection
<1>1. ASSUME NEW s \in Sarcos, NEW r \in Times, NEW c \in Contexts, NEW b \in Readings,
             SchedulePublish(s, b, r, c), UNCHANGED <<now, blockTime>>
      PROVE  TimeInv'
  <2> DEFINE job == [sarco |-> s, at |-> ScheduledTime(b, r), res |-> r, ctx |-> c]
  <2>1. Safe(job)
    BY <1>1, ScheduledTimeIsSafe
  <2>2. timers' \subseteq timers \cup {job} /\ UNCHANGED runs
    BY <1>1 DEF SchedulePublish, WithoutSlot
  <2> HIDE DEF job
  <2> QED BY <1>1, <2>1, <2>2
<1>2. ASSUME NEW s \in Sarcos, CancelScheduledPublish(s), UNCHANGED <<now, blockTime>>
      PROVE  TimeInv'
  BY <1>2 DEF CancelScheduledPublish, WithoutSlot
<1>3. ASSUME NEW t \in timers, StartPublish(t), UNCHANGED <<now, blockTime>>
      PROVE  TimeInv'
  <2>1. t.res \in Int /\ t.at \in Int
    BY JobDates
  <2>2. Safe(t) /\ t.at <= now + Skew
    BY <1>3 DEF StartPublish, SystemClock
  <2>3. t.res <= blockTime
    BY <2>1, <2>2
  <2>4. timers' \subseteq timers /\ runs' = runs \cup {t}
    BY <1>3 DEF StartPublish
  <2> QED BY <1>3, <2>3, <2>4
<1>4. ASSUME NEW r \in runs, EndPublish(r), UNCHANGED <<now, blockTime>>
      PROVE  TimeInv'
  BY <1>4 DEF EndPublish
<1>5. ASSUME ProcessLost, UNCHANGED <<now, blockTime>>
      PROVE  TimeInv'
  BY <1>5 DEF ProcessLost
<1>6. CASE Tick
  <2>1. /\ now' = now + 1
        /\ blockTime' \in blockTime..now'
        /\ now' - blockTime' <= BlockLag
        /\ UNCHANGED <<timers, runs>>
    BY <1>6 DEF Tick
  <2>2. \A t \in timers \cup runs : t.res \in Int /\ t.at \in Int
    BY JobDates
  <2>3. blockTime' \in Int /\ blockTime <= blockTime' /\ blockTime' <= now'
    BY <2>1
  <2>4. (\A t \in timers : Safe(t))'
    BY <2>1, <2>2, <2>3
  <2>5. NeverBeforeResurrection'
    BY <2>1, <2>2, <2>3
  <2> QED BY <2>1, <2>3, <2>4, <2>5
<1>7. CASE UNCHANGED vars
  BY <1>7 DEF vars
<1> QED BY <1>1, <1>2, <1>3, <1>4, <1>5, <1>6, <1>7 DEF Next, Step

(* With a block lag the 15 s absorb, and a system clock that is only used
   when it is not ahead by more than the 5 s, no job fires before the chain
   has reached the resurrection time it was scheduled for. *)
THEOREM NeverEarly == ClockTrusted => (Spec => []NeverBeforeResurrection)
<1> SUFFICES ASSUME ClockTrusted
             PROVE  Spec => []NeverBeforeResurrection
  OBVIOUS
<1>1. Init => TimeInv
  BY SchedulerAssumption DEF Init, TimeInv, NeverBeforeResurrection
<1>2. TimeInv => NeverBeforeResurrection
  BY DEF TimeInv
<1>3. TypeOK /\ TimeInv /\ [Next]_vars => TimeInv'
  BY TimeInvStep
<1> QED BY <1>1, <1>2, <1>3, TypeCorrect, PTL DEF Spec

=============================================================================
