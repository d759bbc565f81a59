-------------------------- MODULE PublicationProofs --------------------------
(***************************************************************************)
(* Publications keep their promises for any number of sarcophagi,          *)
(* connections, retries and publications begun.                            *)
(*                                                                         *)
(* The inductive invariant says which stages belong to the in-process      *)
(* list, that nothing is sent for a sarcophagus before a publication of it *)
(* began, and how many transactions a publication may have sent at each    *)
(* depth of retryFn.  The steps a publication may still take are counted   *)
(* down by each it takes.                                                  *)
(***************************************************************************)
EXTENDS Publication, TLAPS

Attempts == MAX_RETRIES + 2

(* Transactions that earlier publications of s and the attempts of this one
   may have sent; stages outside the attempts count them all. *)
EarlierRuns(s) == (starts[s] - 1) * Attempts

Budget(s) ==
    CASE pc[s] = "lookup" -> EarlierRuns(s)
      [] pc[s] \in {"dryRun", "gasPrice", "send", "pause"} -> EarlierRuns(s) + depth[s]
      [] OTHER -> starts[s] * Attempts

(* What holds of each sarcophagus. *)
SarcoInv(s) ==
    \* a receipt is awaited of a transaction that was sent
    /\ pc[s] = "receipt" => waits[s] \in 1..Len(txs[s])
    /\ Len(txs[s]) <= Budget(s)
    \* the in-process list holds the publications in flight
    /\ s \in inProcess <=> pc[s] \in InFlight
    \* nothing is in flight or sent before a publication began
    /\ pc[s] \in InFlight \/ txs[s] # <<>> => starts[s] > 0
    /\ s \in dead => s \in published

PublicationInv == TypeOK /\ \A s \in Sarcos : SarcoInv(s)

-----------------------------------------------------------------------------
(* One more publication may send Attempts transactions more. *)
LEMMA OneMoreRun ==
    ASSUME NEW k \in Nat
    PROVE  /\ Attempts \in Nat /\ k * Attempts \in Nat
           /\ (k + 1) * Attempts = k * Attempts + MAX_RETRIES + 2
           /\ (k - 1) * Attempts + MAX_RETRIES + 2 = k * Attempts
           /\ (k + 1 - 1) * Attempts = k * Attempts
  BY PublicationAssumption DEF Attempts

LEMMA InitInv == Init => PublicationInv
<1> SUFFICES ASSUME Init PROVE PublicationInv
  OBVIOUS
<1> USE PublicationAssumption DEF Init
<1>1. TypeOK
  BY DEF TypeOK, Contexts, FirstSocket, Stage, InFlight, TxStatus
<1>2. ASSUME NEW s \in Sarcos PROVE SarcoInv(s)
  <2>1. 0 * Attempts = 0
    BY OneMoreRun
  <2>2. Len(txs[s]) = 0 /\ Budget(s) = 0
    BY <2>1 DEF Budget
  <2> QED BY <2>2 DEF SarcoInv, InFlight
<1> QED BY <1>1, <1>2 DEF PublicationInv

-----------------------------------------------------------------------------
(* retryFn's catch keeps the stage and the depth in their ranges. *)
LEMMA AttemptFailsTypes ==
    ASSUME TypeOK, NEW s \in Sarcos, AttemptFails(s)
    PROVE  pc' \in [Sarcos -> Stage] /\ depth' \in [Sarcos -> 0..MAX_RETRIES + 1]
<1> USE DEF TypeOK, AttemptFails, RunFails, GoTo, Stage, InFlight
<1>1. depth[s] <= MAX_RETRIES => depth[s] + 1 \in 0..MAX_RETRIES + 1
  BY PublicationAssumption
<1>2. \E stage \in {"notify", "pause"} : pc' = [pc EXCEPT ![s] = stage]
  OBVIOUS
<1>3. depth' = depth \/ \E d \in 0..MAX_RETRIES + 1 : depth' = [depth EXCEPT ![s] = d]
  BY <1>1
<1>4. pc' \in [Sarcos -> Stage]
  BY <1>2
<1>5. depth' \in [Sarcos -> 0..MAX_RETRIES + 1]
  BY <1>3
<1> QED BY <1>4, <1>5

LEMMA TypeStep == TypeOK /\ [Next]_vars => TypeOK'
<1> SUFFICES ASSUME TypeOK, [Next]_vars PROVE TypeOK'
  OBVIOUS
<1> USE PublicationAssumption DEF TypeOK, Contexts, Stage, InFlight, TxStatus, GoTo,
        callVars, storeVars, linkVars, chainVars
<1>1. ASSUME NEW s \in Sarcos, JobFires(s) PROVE TypeOK'
  <2>1. starts[s] + 1 \in 0..MaxRuns /\ 0 \in 0..LookupTries - 1
    BY <1>1 DEF JobFires
  <2> QED BY <1>1, <2>1 DEF JobFires
<1>2. ASSUME NEW s \in Sarcos, LookupAnswered(s) PROVE TypeOK'
  <2>1. 0 \in 0..MAX_RETRIES + 1
    BY <1>2 DEF LookupAnswered
  <2> QED BY <1>2, <2>1 DEF LookupAnswered, RunBegins
<1>3. ASSUME NEW s \in Sarcos, KeyNotFound(s) PROVE TypeOK'
  BY <1>3 DEF KeyNotFound, RunFails
<1>4. ASSUME NEW s \in Sarcos, LookupAttemptFails(s) PROVE TypeOK'
  <2>1. tries[s] + 1 < LookupTries => tries[s] + 1 \in 0..LookupTries - 1
    BY <1>4 DEF LookupAttemptFails
  <2> QED BY <1>4, <2>1 DEF LookupAttemptFails, RunFails
<1>5. ASSUME NEW s \in Sarcos, DryRunEnds(s) PROVE TypeOK'
  BY <1>5 DEF DryRunEnds
<1>6. ASSUME NEW s \in Sarcos, GasPriceEnds(s) PROVE TypeOK'
  BY <1>6, AttemptFailsTypes DEF GasPriceEnds
<1>7. ASSUME NEW s \in Sarcos, SendTaken(s) PROVE TypeOK'
  <2>1. Append(txs[s], "pending") \in Seq(TxStatus) /\ Len(txs[s]) + 1 \in Nat
    OBVIOUS
  <2> QED BY <1>7, <2>1 DEF SendTaken, AddTx
<1>8. ASSUME NEW s \in Sarcos, SendFails(s) PROVE TypeOK'
  <2>1. AttemptFails(s) /\ txs' \in [Sarcos -> Seq(TxStatus)]
    <3>1. Append(txs[s], "pending") \in Seq(TxStatus)
      OBVIOUS
    <3> QED BY <1>8, <3>1 DEF SendFails, AddTx
  <2> QED BY <1>8, <2>1, AttemptFailsTypes DEF SendFails
<1>9. ASSUME NEW s \in Sarcos, RetryTimer(s) PROVE TypeOK'
  BY <1>9 DEF RetryTimer, RunBegins
<1>10. ASSUME NEW s \in Sarcos, ReceiptArrives(s) PROVE TypeOK'
  BY <1>10 DEF ReceiptArrives, Finally
<1>11. ASSUME NEW s \in Sarcos, ReceiptFails(s) PROVE TypeOK'
  BY <1>11 DEF ReceiptFails, RunFails
<1>12. ASSUME NEW s \in Sarcos, NotifyEnds(s) PROVE TypeOK'
  BY <1>12 DEF NotifyEnds, Finally
<1>13. ASSUME NEW s \in Sarcos, BalanceRead(s) PROVE TypeOK'
  BY <1>13 DEF BalanceRead
<1>14. ASSUME NEW s \in Sarcos, Reschedule(s) PROVE TypeOK'
  BY <1>14 DEF Reschedule
<1>15. ASSUME NEW s \in Sarcos, WindowMoves(s) PROVE TypeOK'
  BY <1>15 DEF WindowMoves
<1>16. ASSUME NEW s \in Sarcos, Mine(s) PROVE TypeOK'
  <2>1. PICK i \in DOMAIN txs[s], v \in {"mined", "reverted"} :
           txs' = [txs EXCEPT ![s][i] = v]
    BY <1>16 DEF Mine
  <2>2. [txs[s] EXCEPT ![i] = v] \in Seq(TxStatus)
    OBVIOUS
  <2>3. txs' = [txs EXCEPT ![s] = [txs[s] EXCEPT ![i] = v]]
    BY <2>1
  <2> DEFINE mined == [txs[s] EXCEPT ![i] = v]
  <2> HIDE DEF mined
  <2>4. txs' \in [Sarcos -> Seq(TxStatus)]
    BY <2>2, <2>3 DEF mined
  <2> QED BY <1>16, <2>4 DEF Mine
<1>17. ASSUME NEW c \in Contexts, ErrorHandled(c) PROVE TypeOK'
  BY <1>17 DEF ErrorHandled
<1>18. CASE BalanceRejected
  BY <1>18 DEF BalanceRejected, FirstSocket
<1>19. CASE ConnectionResets
  BY <1>19 DEF ConnectionResets
<1>20. CASE UNCHANGED vars
  BY <1>20 DEF vars
<1> QED BY <1>1, <1>2, <1>3, <1>4, <1>5, <1>6, <1>7, <1>8, <1>9, <1>10, <1>11, <1>12, <1>13,
           <1>14, <1>15, <1>16, <1>17, <1>18, <1>19, <1>20 DEF Next, RunStep

-----------------------------------------------------------------------------
(* What a step does to one sarcophagus leaves the others alone. *)
Untouched(t) ==
    /\ pc'[t] = pc[t] /\ tries'[t] = tries[t]
    /\ depth'[t] = depth[t] /\ waits'[t] = waits[t]
    /\ txs'[t] = txs[t] /\ starts'[t] = starts[t]
    /\ t \in inProcess' <=> t \in inProcess
    /\ t \in dead' <=> t \in dead

LEMMA UntouchedKeeps ==
    ASSUME NEW t \in Sarcos, SarcoInv(t), Untouched(t)
    PROVE  SarcoInv(t)'
  BY DEF SarcoInv, Untouched, Budget, EarlierRuns, published

LEMMA OthersUntouched ==
    ASSUME TypeOK, NEW s \in Sarcos, NEW t \in Sarcos, t # s,
           JobFires(s) \/ RunStep(s) \/ Reschedule(s) \/ WindowMoves(s) \/ Mine(s)
    PROVE  Untouched(t)
  BY DEF TypeOK, Untouched, JobFires, RunStep, Reschedule, WindowMoves, Mine, LookupAnswered,
         KeyNotFound, LookupAttemptFails, DryRunEnds, GasPriceEnds, SendTaken, SendFails, RetryTimer,
         ReceiptArrives, ReceiptFails, NotifyEnds, BalanceRead, RunBegins, RunFails, AttemptFails,
         AddTx, Finally, GoTo, callVars, storeVars, linkVars, chainVars

LEMMA AppendKeepsMined ==
    ASSUME NEW q \in Seq(TxStatus), NEW i \in DOMAIN q, q[i] = "mined"
    PROVE  \E j \in DOMAIN Append(q, "pending") : Append(q, "pending")[j] = "mined"
<1>1. i \in DOMAIN Append(q, "pending") /\ Append(q, "pending")[i] = q[i]
  OBVIOUS
<1> QED BY <1>1

LEMMA SarcoStep ==
    ASSUME TypeOK, NEW s \in Sarcos, SarcoInv(s),
           JobFires(s) \/ RunStep(s) \/ Reschedule(s) \/ WindowMoves(s) \/ Mine(s)
    PROVE  SarcoInv(s)'
<1> DEFINE all == starts[s] * Attempts
           earlier == (starts[s] - 1) * Attempts
<1>0. /\ all \in Int /\ earlier \in Int /\ earlier + MAX_RETRIES + 2 = all
      /\ MAX_RETRIES \in Nat /\ starts[s] \in Nat /\ depth[s] \in 0..MAX_RETRIES + 1
      /\ (starts[s] + 1 - 1) * Attempts = all
      /\ txs[s] \in Seq(TxStatus)
  <2>1. MAX_RETRIES \in Nat
    BY PublicationAssumption
  <2>2. starts[s] \in Nat /\ depth[s] \in 0..MAX_RETRIES + 1 /\ txs[s] \in Seq(TxStatus)
    BY PublicationAssumption DEF TypeOK
  <2>3. starts[s] - 1 \in Int /\ Attempts = MAX_RETRIES + 2
    BY <2>2 DEF Attempts
  <2>4. earlier \in Int
    BY <2>1, <2>3
  <2>5. all \in Nat /\ earlier + MAX_RETRIES + 2 = all
    BY <2>2, OneMoreRun
  <2>6. (starts[s] + 1 - 1) * Attempts = all
    BY <2>2, OneMoreRun
  <2> QED BY <2>1, <2>2, <2>4, <2>5, <2>6
<1> USE <1>0 DEF TypeOK, SarcoInv, GoTo, InFlight, callVars, storeVars, linkVars, chainVars
<1>1. CASE JobFires(s)
  <2>1. /\ starts'[s] = starts[s] + 1 /\ pc'[s] = "lookup" /\ pc[s] = "armed"
        /\ s \in inProcess' /\ UNCHANGED <<txs, dead>>
    BY <1>1 DEF JobFires
  <2>2. Budget(s)' = all /\ Budget(s) = all
    BY <2>1 DEF Budget, EarlierRuns
  <2> QED BY <2>1, <2>2 DEF published
<1>2. CASE LookupAnswered(s)
  BY <1>2 DEF LookupAnswered, Budget, EarlierRuns, published, RunBegins
<1>3. CASE KeyNotFound(s)
  BY <1>3 DEF KeyNotFound, Budget, EarlierRuns, published, RunFails
<1>4. CASE LookupAttemptFails(s)
  BY <1>4 DEF LookupAttemptFails, Budget, EarlierRuns, published, RunFails
<1>5. CASE DryRunEnds(s)
  BY <1>5 DEF DryRunEnds, Budget, EarlierRuns, published
<1>6. CASE GasPriceEnds(s)
  BY <1>6 DEF GasPriceEnds, Budget, EarlierRuns, published, AttemptFails, RunFails
<1>7. CASE SendTaken(s)
  <2>1. /\ pc[s] = "send" /\ pc'[s] = "receipt" /\ waits'[s] = Len(txs[s]) + 1
        /\ txs'[s] = Append(txs[s], "pending") /\ UNCHANGED <<starts, depth, dead, inProcess>>
    BY <1>7 DEF SendTaken, AddTx
  <2>2. Len(txs'[s]) = Len(txs[s]) + 1
    BY <2>1
  <2>3. Len(txs'[s]) <= Budget(s)'
    BY <2>1, <2>2 DEF Budget, EarlierRuns
  <2>4. s \in published => s \in published'
    BY <2>1, AppendKeepsMined DEF published
  <2> QED BY <2>1, <2>2, <2>3, <2>4
<1>8. CASE SendFails(s)
  <2>1. /\ pc[s] = "send" /\ UNCHANGED <<starts, dead, inProcess>>
        /\ txs'[s] = txs[s] \/ txs'[s] = Append(txs[s], "pending")
    BY <1>8 DEF SendFails, AddTx
  <2>2. \/ pc'[s] = "notify" /\ depth[s] > MAX_RETRIES
        \/ pc'[s] = "pause" /\ depth'[s] = depth[s] + 1
    BY <1>8 DEF SendFails, AttemptFails, RunFails
  <2>3. Len(txs'[s]) <= Len(txs[s]) + 1
    BY <2>1
  <2>4. Len(txs'[s]) <= Budget(s)'
    <3>1. Len(txs[s]) <= earlier + depth[s] /\ Len(txs[s]) \in Nat /\ Len(txs'[s]) \in Nat
      BY <2>1 DEF Budget, EarlierRuns
    <3>2. CASE pc'[s] = "notify" /\ depth[s] > MAX_RETRIES
      <4>1. Budget(s)' = all
        BY <2>1, <3>2 DEF Budget
      <4>2. /\ all \in Int /\ earlier \in Int /\ depth[s] \in Int
            /\ earlier + depth[s] + 1 <= all
        OBVIOUS
      <4> HIDE <1>0 DEF all, earlier, TypeOK, SarcoInv
      <4> QED BY <2>3, <3>1, <4>1, <4>2
    <3>3. CASE pc'[s] = "pause" /\ depth'[s] = depth[s] + 1
      <4>1. Budget(s)' = earlier + depth[s] + 1
        BY <2>1, <3>3 DEF Budget, EarlierRuns
      <4>2. earlier \in Int /\ depth[s] \in Int
        OBVIOUS
      <4> HIDE <1>0 DEF all, earlier, TypeOK, SarcoInv
      <4> QED BY <2>3, <3>1, <4>1, <4>2
    <3> QED BY <2>2, <3>2, <3>3
  <2>5. s \in published => s \in published'
    BY <2>1, AppendKeepsMined DEF published
  <2> QED BY <2>1, <2>2, <2>4, <2>5
<1>9. CASE RetryTimer(s)
  BY <1>9 DEF RetryTimer, Budget, EarlierRuns, published, RunBegins
<1>10. CASE ReceiptArrives(s)
  BY <1>10 DEF ReceiptArrives, Budget, EarlierRuns, published, Finally
<1>11. CASE ReceiptFails(s)
  BY <1>11 DEF ReceiptFails, Budget, EarlierRuns, published, RunFails
<1>12. CASE NotifyEnds(s)
  BY <1>12 DEF NotifyEnds, Budget, EarlierRuns, published, Finally
<1>13. CASE BalanceRead(s)
  BY <1>13 DEF BalanceRead, Budget, EarlierRuns, published
<1>14. CASE Reschedule(s)
  BY <1>14 DEF Reschedule, Budget, EarlierRuns, published
<1>15. CASE WindowMoves(s)
  BY <1>15 DEF WindowMoves, Budget, EarlierRuns, published
<1>16. CASE Mine(s)
  BY <1>16 DEF Mine, Budget, EarlierRuns, published
<1> QED BY <1>1, <1>2, <1>3, <1>4, <1>5, <1>6, <1>7, <1>8, <1>9, <1>10, <1>11, <1>12, <1>13, <1>14, <1>15, <1>16 DEF RunStep

-----------------------------------------------------------------------------
(* At no stage has a sarcophagus more transactions than its publications may
   send between them. *)
LEMMA BudgetBound ==
    ASSUME TypeOK, NEW s \in Sarcos, SarcoInv(s)
    PROVE  Len(txs[s]) <= starts[s] * Attempts
<1> DEFINE all == starts[s] * Attempts
           earlier == (starts[s] - 1) * Attempts
<1>1. starts[s] \in Nat /\ depth[s] \in 0..MAX_RETRIES + 1 /\ MAX_RETRIES \in Nat
  BY PublicationAssumption DEF TypeOK
<1>2. all \in Nat /\ earlier + MAX_RETRIES + 2 = all
  BY <1>1, OneMoreRun
<1>3. earlier \in Int
  BY <1>1, PublicationAssumption DEF Attempts
<1>4. Budget(s) \in {all, earlier, earlier + depth[s]}
  BY DEF Budget, EarlierRuns
<1>5. Len(txs[s]) <= Budget(s) /\ Len(txs[s]) \in Nat
  BY DEF SarcoInv, TypeOK
<1> HIDE DEF all, earlier
<1>6. Len(txs[s]) <= all
  BY <1>1, <1>2, <1>3, <1>4, <1>5
<1> QED BY <1>6 DEF all

LEMMA InvStep == PublicationInv /\ [Next]_vars => PublicationInv'
<1> SUFFICES ASSUME PublicationInv, [Next]_vars PROVE PublicationInv'
  OBVIOUS
<1>1. TypeOK /\ TypeOK' /\ \A t \in Sarcos : SarcoInv(t)
  BY TypeStep DEF PublicationInv
<1> SUFFICES ASSUME NEW t \in Sarcos PROVE SarcoInv(t)'
  BY <1>1 DEF PublicationInv
<1>2. ASSUME NEW s \in Sarcos,
             JobFires(s) \/ RunStep(s) \/ Reschedule(s) \/ WindowMoves(s) \/ Mine(s)
      PROVE  SarcoInv(t)'
  <2>1. CASE t = s
    BY <1>1, <1>2, <2>1, SarcoStep
  <2>2. CASE t # s
    BY <1>1, <1>2, <2>2, OthersUntouched, UntouchedKeeps
  <2> QED BY <2>1, <2>2
<1>3. ASSUME NEW c \in Contexts, ErrorHandled(c) PROVE SarcoInv(t)'
  BY <1>1, <1>3, UntouchedKeeps DEF ErrorHandled, Untouched, callVars, storeVars, chainVars
<1>4. CASE BalanceRejected
  <2>1. /\ pc'[t] \in {"armed", "over"} /\ inProcess' = {} /\ dead' = {}
        /\ UNCHANGED <<txs, starts>>
    BY <1>4 DEF BalanceRejected, chainVars
  <2>2. Budget(t)' = starts[t] * Attempts
    BY <2>1 DEF Budget
  <2>3. Len(txs'[t]) <= Budget(t)'
    BY <1>1, <2>1, <2>2, BudgetBound
  <2> QED BY <1>1, <2>1, <2>3 DEF SarcoInv, InFlight
<1>5. CASE ConnectionResets
  BY <1>1, <1>5, UntouchedKeeps DEF ConnectionResets, Untouched, callVars, storeVars, chainVars
<1>6. CASE UNCHANGED vars
  BY <1>1, <1>6, UntouchedKeeps DEF vars, Untouched, callVars, storeVars, chainVars
<1> QED BY <1>2, <1>3, <1>4, <1>5, <1>6 DEF Next

THEOREM PublicationInvariant == Spec => []PublicationInv
  BY InitInv, InvStep, PTL DEF Spec

(* Every variable of publishPrivateKey and its surroundings keeps its type. *)
THEOREM PublicationTypes == Spec => []TypeOK
<1>1. PublicationInv => TypeOK
  BY DEF PublicationInv
<1> QED BY <1>1, PublicationInvariant, PTL

(* What publications write off is published: deadSarcophagusIds, which every
   later sync skips, never holds a sarcophagus whose key is not on chain. *)
THEOREM WrittenOffSafe == Spec => []WrittenOffIsPublished
<1>1. PublicationInv => WrittenOffIsPublished
  <2> SUFFICES ASSUME PublicationInv, NEW s \in dead PROVE s \in published
    BY DEF WrittenOffIsPublished
  <2>1. s \in Sarcos
    BY DEF PublicationInv, TypeOK
  <2> QED BY <2>1 DEF PublicationInv, SarcoInv
<1> QED BY <1>1, PublicationInvariant, PTL

(* A publication costs at most MAX_RETRIES + 2 transactions. *)
THEOREM CostBounded == Spec => []TransactionsBounded
<1>1. PublicationInv => TransactionsBounded
  BY BudgetBound DEF PublicationInv, TransactionsBounded, Attempts
<1> QED BY <1>1, PublicationInvariant, PTL

-----------------------------------------------------------------------------
(* Every step of a publication uses up some of the steps it may take. *)
LEMMA StepUsesUp ==
    ASSUME TypeOK, TypeOK', NEW s \in Sarcos, JobFires(s) \/ RunStep(s),
           pc[s] \in InFlight, pc'[s] \in InFlight
    PROVE  StepsLeft(s)' \in 0 .. StepsLeft(s) - 1
<1>1. /\ MAX_RETRIES \in Nat /\ LookupTries \in Nat
      /\ depth[s] \in 0..MAX_RETRIES + 1 /\ depth'[s] \in 0..MAX_RETRIES + 1
      /\ tries[s] \in 0..LookupTries - 1 /\ tries'[s] \in 0..LookupTries - 1
  BY PublicationAssumption DEF TypeOK
<1>2. /\ pc[s] = "lookup" => StepsLeft(s) = 4 * MAX_RETRIES + 9 + LookupTries - tries[s]
      /\ pc[s] = "pause" => StepsLeft(s) = 4 * (MAX_RETRIES + 1 - depth[s]) + 6
      /\ pc[s] = "dryRun" => StepsLeft(s) = 4 * (MAX_RETRIES + 1 - depth[s]) + 5
      /\ pc[s] = "gasPrice" => StepsLeft(s) = 4 * (MAX_RETRIES + 1 - depth[s]) + 4
      /\ pc[s] = "send" => StepsLeft(s) = 4 * (MAX_RETRIES + 1 - depth[s]) + 3
      /\ pc[s] = "receipt" => StepsLeft(s) = 2
  BY DEF StepsLeft
<1>3. /\ pc'[s] = "lookup" => StepsLeft(s)' = 4 * MAX_RETRIES + 9 + LookupTries - tries'[s]
      /\ pc'[s] = "pause" => StepsLeft(s)' = 4 * (MAX_RETRIES + 1 - depth'[s]) + 6
      /\ pc'[s] = "dryRun" => StepsLeft(s)' = 4 * (MAX_RETRIES + 1 - depth'[s]) + 5
      /\ pc'[s] = "gasPrice" => StepsLeft(s)' = 4 * (MAX_RETRIES + 1 - depth'[s]) + 4
      /\ pc'[s] = "send" => StepsLeft(s)' = 4 * (MAX_RETRIES + 1 - depth'[s]) + 3
      /\ pc'[s] = "receipt" => StepsLeft(s)' = 2
      /\ pc'[s] = "notify" => StepsLeft(s)' = 1
  BY DEF StepsLeft
(* Where a step may lead, with what it does to the counters. *)
<1>4. \/ /\ pc[s] = "lookup"
         /\ \/ pc'[s] = "dryRun" /\ depth'[s] = 0
            \/ pc'[s] = "lookup" /\ tries'[s] = tries[s] + 1
            \/ pc'[s] = "notify"
      \/ pc[s] = "dryRun" /\ pc'[s] = "gasPrice" /\ depth'[s] = depth[s]
      \/ pc[s] = "gasPrice" /\ pc'[s] = "send" /\ depth'[s] = depth[s]
      \/ /\ pc[s] \in {"gasPrice", "send"}
         /\ \/ pc'[s] = "notify"
            \/ pc'[s] = "pause" /\ depth'[s] = depth[s] + 1
      \/ pc[s] = "send" /\ pc'[s] = "receipt"
      \/ pc[s] = "pause" /\ pc'[s] = "dryRun" /\ depth'[s] = depth[s]
      \/ pc[s] = "receipt" /\ pc'[s] = "notify"
  <2> USE DEF TypeOK, GoTo, InFlight
  <2>1. CASE LookupAnswered(s) \/ KeyNotFound(s) \/ LookupAttemptFails(s)
    BY <2>1 DEF LookupAnswered, KeyNotFound, LookupAttemptFails, RunBegins, RunFails
  <2>2. CASE DryRunEnds(s) \/ RetryTimer(s)
    BY <2>2 DEF DryRunEnds, RetryTimer, RunBegins
  <2>3. CASE GasPriceEnds(s)
    BY <2>3, <1>1 DEF GasPriceEnds, AttemptFails, RunFails
  <2>4. CASE SendTaken(s) \/ SendFails(s)
    BY <2>4, <1>1 DEF SendTaken, SendFails, AttemptFails, RunFails
  <2>5. CASE ReceiptFails(s)
    BY <2>5 DEF ReceiptFails, RunFails
  <2>6. CASE JobFires(s) \/ ReceiptArrives(s) \/ NotifyEnds(s) \/ BalanceRead(s)
    BY <2>6 DEF JobFires, ReceiptArrives, NotifyEnds, BalanceRead, Finally
  <2> QED BY <2>1, <2>2, <2>3, <2>4, <2>5, <2>6 DEF RunStep
<1> DEFINE now == StepsLeft(s)  next == StepsLeft(s)'
<1> HIDE DEF now, next
<1>5. now \in Int /\ next \in Int /\ 0 <= next /\ next < now
  BY <1>1, <1>2, <1>3, <1>4 DEF now, next
<1> QED BY <1>5 DEF now, next

LEMMA RunsWindDownStep ==
    ASSUME PublicationInv, [Next]_vars, NEW s \in Sarcos,
           s \in inProcess, s \in inProcess',
           <<pc[s], tries[s], depth[s]>> # <<pc'[s], tries'[s], depth'[s]>>
    PROVE  StepsLeft(s)' \in 0 .. StepsLeft(s) - 1
<1>1. /\ TypeOK /\ TypeOK'
      /\ pc[s] \in InFlight /\ pc'[s] \in InFlight
  BY InvStep DEF PublicationInv, SarcoInv
<1>2. ASSUME NEW t \in Sarcos, t # s,
             JobFires(t) \/ RunStep(t) \/ Reschedule(t) \/ WindowMoves(t) \/ Mine(t)
      PROVE  FALSE
  BY <1>1, <1>2, OthersUntouched DEF Untouched
<1>3. CASE JobFires(s) \/ RunStep(s)
  BY <1>1, <1>3, StepUsesUp
<1>4. CASE Reschedule(s) \/ WindowMoves(s) \/ Mine(s)
  BY <1>1, <1>4 DEF Reschedule, WindowMoves, Mine, InFlight, callVars
<1>5. CASE \E c \in Contexts : ErrorHandled(c)
  BY <1>5 DEF ErrorHandled, callVars
<1>6. CASE BalanceRejected
  BY <1>6 DEF BalanceRejected
<1>7. CASE ConnectionResets
  BY <1>7 DEF ConnectionResets, callVars
<1>8. CASE UNCHANGED vars
  BY <1>8 DEF vars, callVars
<1> QED BY <1>2, <1>3, <1>4, <1>5, <1>6, <1>7, <1>8 DEF Next

(* Each step of a publication brings it nearer its end, for any number of lookups,
   retries, reconnections and publications at once. *)
THEOREM PublicationsEnd == Spec => RunsWindDown
<1>1. PublicationInv /\ [Next]_vars =>
        [\A s \in Sarcos :
            /\ s \in inProcess /\ s \in inProcess'
            /\ <<pc[s], tries[s], depth[s]>> # <<pc'[s], tries'[s], depth'[s]>>
            => StepsLeft(s)' \in 0 .. StepsLeft(s) - 1]_vars
  BY RunsWindDownStep
<1> QED BY <1>1, PublicationInvariant, PTL DEF Spec, RunsWindDown

-----------------------------------------------------------------------------
(* The refinement, step by step. *)
absVars == <<begun, inProcess, published, dead>>

LEMMA InitRefines == Init => Abstract!Init
  BY DEF Init, Abstract!Init, begun, published

(* Steps that send nothing and neither begin nor end a publication. *)
LEMMA Unseen ==
    ASSUME UNCHANGED <<txs, starts, inProcess, dead>>
    PROVE  UNCHANGED absVars
  BY DEF absVars, begun, published

(* A new transaction is pending: no key is published by sending one. *)
LEMMA SendingPublishesNothing ==
    ASSUME TypeOK, NEW s \in Sarcos, AddTx(s)
    PROVE  published' = published
<1>1. \A t \in Sarcos : t # s => txs'[t] = txs[t]
  BY DEF TypeOK, AddTx
<1>2. txs'[s] = Append(txs[s], "pending") /\ txs[s] \in Seq(TxStatus)
  BY DEF TypeOK, AddTx
<1>3. s \in published <=> s \in published'
  <2>1. ASSUME NEW i \in DOMAIN Append(txs[s], "pending"), Append(txs[s], "pending")[i] = "mined"
        PROVE  i \in DOMAIN txs[s] /\ txs[s][i] = "mined"
    BY <1>2, <2>1
  <2>2. s \in published' => s \in published
    BY <1>2, <2>1 DEF published
  <2>3. s \in published => s \in published'
    BY <1>2, AppendKeepsMined DEF published
  <2> QED BY <2>2, <2>3
<1>4. \A t \in Sarcos : t \in published <=> t \in published'
  BY <1>1, <1>3 DEF published
<1> QED BY <1>4 DEF published

LEMMA StepRefines == PublicationInv /\ [Next]_vars => [Abstract!Next]_(Abstract!vars)
<1> SUFFICES ASSUME PublicationInv, [Next]_vars
             PROVE  Abstract!Next \/ UNCHANGED absVars
  BY DEF absVars, Abstract!vars
<1>0. TypeOK /\ \A s \in Sarcos : SarcoInv(s)
  BY DEF PublicationInv
<1> USE DEF callVars, storeVars, chainVars
<1>1. ASSUME NEW s \in Sarcos, JobFires(s) PROVE Abstract!Next
  <2>1. begun' = begun \cup {s}
    BY <1>0, <1>1 DEF JobFires, begun, TypeOK
  <2>2. s \notin inProcess
    BY <1>0, <1>1 DEF JobFires, SarcoInv, InFlight
  <2>3. published' = published
    BY <1>1 DEF JobFires, published
  <2>4. Abstract!Begin(s)
    BY <1>1, <2>1, <2>2, <2>3 DEF JobFires, Abstract!Begin
  <2> QED BY <2>4 DEF Abstract!Next
<1>2. ASSUME NEW s \in Sarcos, SendTaken(s) \/ SendFails(s) PROVE UNCHANGED absVars
  <2>1. UNCHANGED <<inProcess, dead, starts>> /\ (AddTx(s) \/ UNCHANGED txs)
    BY <1>2 DEF SendTaken, SendFails
  <2>2. published' = published
    BY <1>0, <2>1, SendingPublishesNothing DEF published
  <2> QED BY <2>1, <2>2 DEF absVars, begun
<1>3. ASSUME NEW s \in Sarcos, ReceiptArrives(s) PROVE Abstract!Next
  <2>1. s \in inProcess /\ s \in published
    BY <1>0, <1>3 DEF ReceiptArrives, SarcoInv, InFlight, published
  <2>2. UNCHANGED <<begun, published>>
    BY <1>3 DEF ReceiptArrives, begun, published
  <2>3. Abstract!EndUnwrapped(s)
    BY <1>3, <2>1, <2>2 DEF ReceiptArrives, Finally, Abstract!EndUnwrapped
  <2> QED BY <2>3 DEF Abstract!Next
<1>4. ASSUME NEW s \in Sarcos, NotifyEnds(s) PROVE Abstract!Next
  <2>1. s \in inProcess
    BY <1>0, <1>4 DEF NotifyEnds, SarcoInv, InFlight
  <2>2. UNCHANGED <<begun, published>>
    BY <1>4 DEF NotifyEnds, begun, published
  <2>3. Abstract!EndFailed(s)
    BY <1>4, <2>1, <2>2 DEF NotifyEnds, Finally, Abstract!EndFailed
  <2> QED BY <2>3 DEF Abstract!Next
<1>5. ASSUME NEW s \in Sarcos, Mine(s) PROVE Abstract!Next \/ UNCHANGED absVars
  <2>1. PICK i \in DOMAIN txs[s] :
           /\ txs[s][i] = "pending"
           /\ txs' = [txs EXCEPT ![s][i] = IF Accepted(s) THEN "mined" ELSE "reverted"]
    BY <1>5 DEF Mine
  <2>2. UNCHANGED <<begun, inProcess, dead>>
    BY <1>5 DEF Mine, begun
  <2>3. s \in begun
    BY <1>0, <2>1 DEF SarcoInv, begun, TypeOK
  <2>4. \A t \in Sarcos : t # s => txs'[t] = txs[t]
    BY <1>0, <2>1 DEF TypeOK
  <2>5. \A j \in DOMAIN txs[s] : txs[s][j] = "mined" => j \in DOMAIN txs'[s] /\ txs'[s][j] = "mined"
    BY <1>0, <2>1 DEF TypeOK
  <2>6. published \subseteq published' /\ published' \subseteq published \cup {s}
    BY <2>4, <2>5 DEF published
  <2>7. CASE s \in published'
    <3>1. published' = published \cup {s}
      BY <2>6, <2>7
    <3>2. Abstract!KeyOnChain(s)
      BY <2>2, <2>3, <3>1 DEF Abstract!KeyOnChain
    <3> QED BY <3>2 DEF Abstract!Next
  <2>8. CASE s \notin published'
    <3>1. published' = published
      BY <2>6, <2>8
    <3> QED BY <2>2, <3>1 DEF absVars
  <2> QED BY <2>7, <2>8
<1>6. CASE BalanceRejected
  <2>1. UNCHANGED <<begun, published>> /\ inProcess' = {} /\ dead' = {}
    BY <1>6 DEF BalanceRejected, begun, published
  <2> QED BY <2>1 DEF Abstract!ProcessLost, Abstract!Next
<1>7. ASSUME NEW s \in Sarcos,
             \/ LookupAnswered(s) \/ KeyNotFound(s) \/ LookupAttemptFails(s)
             \/ DryRunEnds(s) \/ GasPriceEnds(s) \/ RetryTimer(s) \/ ReceiptFails(s)
             \/ BalanceRead(s) \/ Reschedule(s) \/ WindowMoves(s)
      PROVE  UNCHANGED absVars
  BY <1>7, Unseen DEF LookupAnswered, KeyNotFound, LookupAttemptFails, DryRunEnds, GasPriceEnds,
     RetryTimer, ReceiptFails, BalanceRead, Reschedule, WindowMoves
<1>8. ASSUME NEW c \in Contexts, ErrorHandled(c) PROVE UNCHANGED absVars
  BY <1>8, Unseen DEF ErrorHandled
<1>9. CASE ConnectionResets
  BY <1>9, Unseen DEF ConnectionResets
<1>10. CASE UNCHANGED vars
  BY <1>10, Unseen DEF vars
<1> QED BY <1>1, <1>2, <1>3, <1>4, <1>5, <1>6, <1>7, <1>8, <1>9, <1>10 DEF Next, RunStep

(* The publication, call by call, implements the promises of PublishRun. *)
THEOREM PublicationRefines == Spec => RefinesPublishRun
<1>1. PublicationInv /\ [Next]_vars => [Abstract!Next]_(Abstract!vars)
  BY StepRefines
<1> QED BY <1>1, InitRefines, PublicationInvariant, PTL DEF Spec, RefinesPublishRun, Abstract!Spec

=============================================================================
