------------------------------ MODULE Publication ------------------------------
(***************************************************************************)
(* The publication of private keys, call by call: publishPrivateKey with   *)
(* the lookup raced against a timer (rpcCallWithTimeout), the dry run, gas *)
(* price and transaction of ArchaeologistFacetX._run under retryFn, the    *)
(* wait for the receipt, and what follows an error; beside connections     *)
(* that close, answers that get lost, a contract that accepts keys for a   *)
(* while only, and a process that an unhandled rejection ends.             *)
(*                                                                         *)
(* A call on a closed connection is never answered and, but for the        *)
(* lookup, never times out.                                                *)
(***************************************************************************)
EXTENDS Integers, Sequences

CONSTANTS
    Sarcos,
    LookupTries,    \* retries option of the lookup, 5
    MAX_RETRIES,    \* helpers.ts, 2
    Faults,         \* what may go wrong, of AllFaults
    MaxResets,      \* bound on reconnections
    MaxRuns         \* bound on the publications begun for a sarcophagus

AllFaults == {"rpc", "lostAnswer", "foreignKey"}

ASSUME PublicationAssumption ==
    /\ LookupTries \in Nat \ {0}
    /\ MAX_RETRIES \in Nat
    /\ Faults \subseteq AllFaults
    /\ {MaxResets, MaxRuns} \subseteq Nat

Contexts == 0..MaxResets

VARIABLES
    (* the process *)
    pc,         \* what each sarcophagus's publication is waiting for
    ctx,        \* the network context its job captured
    gasCtx,     \* the context _run found registered
    tries,      \* lookups that failed
    depth,      \* retryFn's depth
    waits,      \* the transaction whose receipt is awaited
    inProcess,  \* sarcoIdsInProcessOfHavingPrivateKeyPublished
    dead,       \* deadSarcophagusIds
    loose,      \* contexts of which a handleRpcError nobody awaits reads the balance
    members,    \* the networkContexts of the Web3Interface
    (* its surroundings *)
    socket,     \* websocket of each context
    window,     \* does the contract take the key yet, or still?
    txs,        \* the transactions sent for a sarcophagus, by nonce
    starts      \* publications begun

callVars == <<pc, gasCtx, tries, depth, waits>>
storeVars == <<inProcess, dead>>
linkVars == <<members, socket>>
chainVars == <<window, txs>>
vars == <<callVars, ctx, storeVars, loose, linkVars, chainVars, starts>>

InFlight == {"lookup", "dryRun", "gasPrice", "send", "pause", "receipt", "notify"}
Stage == InFlight \cup {"armed", "balance", "over"}
TxStatus == {"pending", "mined", "reverted"}

TypeOK ==
    /\ pc \in [Sarcos -> Stage]
    /\ ctx \in [Sarcos -> Contexts] /\ gasCtx \in [Sarcos -> Contexts]
    /\ tries \in [Sarcos -> 0..LookupTries - 1]
    /\ depth \in [Sarcos -> 0..MAX_RETRIES + 1]
    /\ waits \in [Sarcos -> Nat]
    /\ inProcess \subseteq Sarcos /\ dead \subseteq Sarcos
    /\ loose \subseteq Contexts /\ members \subseteq Contexts
    /\ socket \in [Contexts -> {"unused", "open", "closed"}]
    /\ window \in [Sarcos -> {"early", "open", "over"}]
    /\ txs \in [Sarcos -> Seq(TxStatus)]
    /\ starts \in [Sarcos -> 0..MaxRuns]

published == {s \in Sarcos : \E i \in DOMAIN txs[s] : txs[s][i] = "mined"}
begun == {s \in Sarcos : starts[s] > 0}

FirstSocket == [c \in Contexts |-> IF c = 0 THEN "open" ELSE "unused"]

Init ==
    /\ pc = [s \in Sarcos |-> "armed"]
    /\ ctx = [s \in Sarcos |-> 0] /\ gasCtx = [s \in Sarcos |-> 0]
    /\ tries = [s \in Sarcos |-> 0] /\ depth = [s \in Sarcos |-> 0]
    /\ waits = [s \in Sarcos |-> 0]
    /\ inProcess = {} /\ dead = {} /\ loose = {}
    /\ members = {0} /\ socket = FirstSocket
    /\ window \in [Sarcos -> {"early", "open"}]
    /\ txs = [s \in Sarcos |-> <<>>]
    /\ starts = [s \in Sarcos |-> 0]

IsOpen(c) == socket[c] = "open"

(* networkContexts is a Set: find returns the context added first. *)
Registered(c) == c \in members /\ \A d \in members : c <= d

(* publishPrivateKey does not revert on the latest block. *)
Accepted(s) == window[s] = "open" /\ s \notin published

GoTo(s, stage) == pc' = [pc EXCEPT ![s] = stage]

-----------------------------------------------------------------------------
(* The job fires: publishPrivateKey up to its first await. *)
JobFires(s) ==
    /\ pc[s] = "armed" /\ starts[s] < MaxRuns
    /\ GoTo(s, "lookup")
    /\ tries' = [tries EXCEPT ![s] = 0]
    /\ inProcess' = inProcess \cup {s}
    /\ starts' = [starts EXCEPT ![s] = @ + 1]
    /\ UNCHANGED <<ctx, gasCtx, depth, waits, dead, loose, linkVars, chainVars>>

(* The first segment of _run: it finds the registered context, which need not
   be the job's, and starts the dry run on the job's. *)
RunBegins(s, d) ==
    /\ GoTo(s, "dryRun")
    /\ \E c \in Contexts : Registered(c) /\ gasCtx' = [gasCtx EXCEPT ![s] = c]
    /\ depth' = [depth EXCEPT ![s] = d]

(* The public key is found, and the private key derived from it. *)
LookupAnswered(s) ==
    /\ pc[s] = "lookup" /\ IsOpen(ctx[s])
    /\ RunBegins(s, 0)
    /\ UNCHANGED <<ctx, tries, waits, storeVars, loose, linkVars, chainVars, starts>>

(* The catch block first notifies the user. *)
RunFails(s) == GoTo(s, "notify")

(* derivePrivateKeyFromPublicKey on a key that is not of this mnemonic tries
   index after index until the stack overflows, which is caught. *)
KeyNotFound(s) ==
    /\ "foreignKey" \in Faults
    /\ pc[s] = "lookup" /\ IsOpen(ctx[s])
    /\ RunFails(s)
    /\ UNCHANGED <<ctx, gasCtx, tries, depth, waits, storeVars, loose, linkVars, chainVars, starts>>

(* The call is rejected or the 5 s timer wins the race; an answer that comes
   later settles a promise nobody looks at. *)
LookupAttemptFails(s) ==
    /\ pc[s] = "lookup"
    /\ \/ /\ tries[s] + 1 < LookupTries
          /\ tries' = [tries EXCEPT ![s] = @ + 1]
          /\ UNCHANGED pc
       \/ /\ tries[s] + 1 = LookupTries
          /\ RunFails(s)
          /\ UNCHANGED tries
    /\ UNCHANGED <<ctx, gasCtx, depth, waits, storeVars, loose, linkVars, chainVars, starts>>

(* callStatic succeeds, or its error goes to handleRpcError, which for most
   errors asks for the balance, of the context _run found, and which nobody
   awaits. *)
DryRunEnds(s) ==
    /\ pc[s] = "dryRun" /\ IsOpen(ctx[s])
    /\ GoTo(s, "gasPrice")
    /\ \/ UNCHANGED loose
       \/ /\ ~Accepted(s) \/ "rpc" \in Faults
          /\ loose' = loose \cup {gasCtx[s]}
    /\ UNCHANGED <<ctx, gasCtx, tries, depth, waits, storeVars, linkVars, chainVars, starts>>

(* Mutant: each retry starts at the same depth. *)
AttemptFailsForgotten(s) ==
    /\ GoTo(s, "pause")
    /\ UNCHANGED depth

(* Mutant: an attempt too many. *)
AttemptFailsLate(s) ==
    \/ /\ depth[s] > MAX_RETRIES + 1
       /\ GoTo(s, "notify")
       /\ UNCHANGED depth
    \/ /\ depth[s] <= MAX_RETRIES + 1
       /\ GoTo(s, "pause")
       /\ depth' = [depth EXCEPT ![s] = @ + 1]

(* Mutant: one attempt after the other, whatever the depth says. *)
AttemptFailsUnbounded(s) ==
    /\ GoTo(s, "pause")
    /\ depth' = [depth EXCEPT ![s] = IF @ > MAX_RETRIES THEN 0 ELSE @ + 1]

(* retryFn's catch: rethrow, or wait 15 to 150 s and call again. *)
AttemptFails(s) ==
    \/ /\ depth[s] > MAX_RETRIES
       /\ RunFails(s)
       /\ UNCHANGED depth
    \/ /\ depth[s] <= MAX_RETRIES
       /\ GoTo(s, "pause")
       /\ depth' = [depth EXCEPT ![s] = @ + 1]

GasPriceEnds(s) ==
    /\ pc[s] = "gasPrice" /\ IsOpen(gasCtx[s])
    /\ \/ GoTo(s, "send") /\ UNCHANGED depth
       \/ "rpc" \in Faults /\ AttemptFails(s)
    /\ UNCHANGED <<ctx, gasCtx, tries, waits, storeVars, loose, linkVars, chainVars, starts>>

AddTx(s) == txs' = [txs EXCEPT ![s] = Append(@, "pending")]

SendTaken(s) ==
    /\ pc[s] = "send" /\ IsOpen(ctx[s])
    /\ Accepted(s)
    /\ AddTx(s)
    /\ GoTo(s, "receipt")
    /\ waits' = [waits EXCEPT ![s] = Len(txs[s]) + 1]
    /\ UNCHANGED <<ctx, gasCtx, tries, depth, storeVars, loose, linkVars, window, starts>>

(* The gas estimate shows the call would revert, or a call is rejected; the
   transaction may have been taken all the same. *)
SendFails(s) ==
    /\ pc[s] = "send" /\ IsOpen(ctx[s])
    /\ \/ /\ ~Accepted(s) \/ "rpc" \in Faults
          /\ UNCHANGED txs
       \/ /\ Accepted(s) /\ "lostAnswer" \in Faults
          /\ AddTx(s)
    /\ AttemptFails(s)
    /\ UNCHANGED <<ctx, gasCtx, tries, waits, storeVars, loose, linkVars, window, starts>>

RetryTimer(s) ==
    /\ pc[s] = "pause"
    /\ RunBegins(s, depth[s])
    /\ UNCHANGED <<ctx, tries, waits, storeVars, loose, linkVars, chainVars, starts>>

(* Mutant: the entry stays in the list. *)
FinallyKeepsEntry(s) ==
    /\ GoTo(s, "balance")
    /\ UNCHANGED inProcess

(* The finally block up to the balance check. *)
Finally(s) ==
    /\ GoTo(s, "balance")
    /\ inProcess' = inProcess \ {s}

(* Mutant: any receipt will do. *)
ReceiptArrivesUnread(s) ==
    /\ pc[s] = "receipt" /\ IsOpen(ctx[s])
    /\ txs[s][waits[s]] # "pending"
    /\ dead' = dead \cup {s}
    /\ Finally(s)
    /\ UNCHANGED <<ctx, gasCtx, tries, depth, waits, loose, linkVars, chainVars, starts>>

ReceiptArrives(s) ==
    /\ pc[s] = "receipt" /\ IsOpen(ctx[s])
    /\ txs[s][waits[s]] = "mined"
    /\ dead' = dead \cup {s}
    /\ Finally(s)
    /\ UNCHANGED <<ctx, gasCtx, tries, depth, waits, loose, linkVars, chainVars, starts>>

(* wait() rejects: the transaction reverted, or the call for it failed. *)
ReceiptFails(s) ==
    /\ pc[s] = "receipt" /\ IsOpen(ctx[s])
    /\ txs[s][waits[s]] = "reverted" \/ "rpc" \in Faults
    /\ RunFails(s)
    /\ UNCHANGED <<ctx, gasCtx, tries, depth, waits, storeVars, loose, linkVars, chainVars, starts>>

(* The user is notified, or that failed, which notifyUser catches; handleRpcError
   is started on the job's context, and the finally block follows. *)
NotifyEnds(s) ==
    /\ pc[s] = "notify"
    /\ loose' = loose \cup {ctx[s]}
    /\ Finally(s)
    /\ UNCHANGED <<ctx, gasCtx, tries, depth, waits, dead, linkVars, chainVars, starts>>

(* warnIfEthBalanceIsLow answers: in the finally block ... *)
BalanceRead(s) ==
    /\ pc[s] = "balance" /\ IsOpen(ctx[s])
    /\ GoTo(s, "over")
    /\ UNCHANGED <<ctx, gasCtx, tries, depth, waits, storeVars, loose, linkVars, chainVars, starts>>

(* ... and in handleRpcError. *)
ErrorHandled(c) ==
    /\ c \in loose /\ IsOpen(c)
    /\ loose' = loose \ {c}
    /\ UNCHANGED <<callVars, ctx, storeVars, linkVars, chainVars, starts>>

(* Another sync or event schedules a sarcophagus that was not written off,
   with a context that is registered at that moment or was before. *)
Reschedule(s) ==
    /\ pc[s] = "over" /\ s \notin dead
    /\ GoTo(s, "armed")
    /\ \E c \in Contexts : socket[c] # "unused" /\ ctx' = [ctx EXCEPT ![s] = c]
    /\ UNCHANGED <<gasCtx, tries, depth, waits, storeVars, loose, linkVars, chainVars, starts>>

(* If the balance cannot be read the rejection is nobody's: the process exits
   with everything that is in flight, is restarted, and schedules anew what
   is not published. *)
BalanceRejected ==
    /\ "rpc" \in Faults
    /\ \E c \in loose \cup {ctx[s] : s \in {t \in Sarcos : pc[t] = "balance"}} : IsOpen(c)
    /\ pc' = [s \in Sarcos |-> IF s \in published THEN "over" ELSE "armed"]
    /\ ctx' = [s \in Sarcos |-> 0]
    /\ waits' = [s \in Sarcos |-> 0]
    /\ inProcess' = {} /\ dead' = {} /\ loose' = {}
    /\ members' = {0} /\ socket' = FirstSocket
    /\ UNCHANGED <<gasCtx, tries, depth, chainVars, starts>>

-----------------------------------------------------------------------------
(* The surroundings. *)

(* A provider closes or reports an error: resetNetworkContext takes its context
   off the Web3Interface, if it is still there, and adds a new one. *)
ConnectionResets ==
    \E c, n \in Contexts :
        /\ IsOpen(c)
        /\ socket[n] = "unused" /\ \A m \in Contexts : socket[m] = "unused" => n <= m
        /\ \E left \in {"open", "closed"} :
              socket' = [socket EXCEPT ![c] = left, ![n] = "open"]
        /\ members' = (members \ {c}) \cup {n}
    /\ UNCHANGED <<callVars, ctx, storeVars, loose, chainVars, starts>>

WindowMoves(s) ==
    /\ \/ window[s] = "early" /\ window' = [window EXCEPT ![s] = "open"]
       \/ window[s] = "open" /\ window' = [window EXCEPT ![s] = "over"]
    /\ UNCHANGED <<callVars, ctx, storeVars, loose, linkVars, txs, starts>>

(* Transactions of one account are mined in the order of their nonces. *)
Mine(s) ==
    /\ \E i \in DOMAIN txs[s] :
          /\ txs[s][i] = "pending"
          /\ \A j \in DOMAIN txs[s] : txs[s][j] = "pending" => i <= j
          /\ txs' = [txs EXCEPT ![s][i] = IF Accepted(s) THEN "mined" ELSE "reverted"]
    /\ UNCHANGED <<callVars, ctx, storeVars, loose, linkVars, window, starts>>

-----------------------------------------------------------------------------
(* What the event loop and open connections bring about by themselves. *)
RunStep(s) ==
    \/ LookupAnswered(s) \/ KeyNotFound(s) \/ LookupAttemptFails(s)
    \/ DryRunEnds(s) \/ GasPriceEnds(s)
    \/ SendTaken(s) \/ SendFails(s) \/ RetryTimer(s)
    \/ ReceiptArrives(s) \/ ReceiptFails(s) \/ NotifyEnds(s) \/ BalanceRead(s)

Next ==
    \/ \E s \in Sarcos :
          JobFires(s) \/ RunStep(s) \/ Reschedule(s) \/ WindowMoves(s) \/ Mine(s)
    \/ \E c \in Contexts : ErrorHandled(c)
    \/ BalanceRejected
    \/ ConnectionResets

Spec == Init /\ [][Next]_vars

(* Every call on an open connection is answered, every timer goes off, and
   what is in the pool is mined. *)
FairSpec == Spec /\ \A s \in Sarcos : WF_vars(RunStep(s)) /\ WF_vars(Mine(s))

-----------------------------------------------------------------------------
(* A sarcophagus a publication wrote off, which no later sync looks at, has
   its key on chain, in spite of resent transactions of which only one takes
   effect, answers that were lost and receipts of the others. *)
WrittenOffIsPublished == dead \subseteq published

(* What a sarcophagus can cost in gas: retryFn sends at most MAX_RETRIES + 2
   transactions in a publication. *)
TransactionsBounded ==
    \A s \in Sarcos : Len(txs[s]) <= starts[s] * (MAX_RETRIES + 2)

(* Waiting for an answer of a connection that is gone, which has no timeout. *)
Hung(s) ==
    \/ pc[s] \in {"dryRun", "send", "receipt"} /\ ~IsOpen(ctx[s])
    \/ pc[s] = "gasPrice" /\ ~IsOpen(gasCtx[s])

(* Every publication ends and leaves the in-process list, whatever fails and
   however often it is retried; the only way to hang is to wait for a call
   other than the lookup on a connection that has closed. *)
EveryRunEnds == \A s \in Sarcos : (s \in inProcess) ~> (s \notin inProcess \/ Hung(s))

(* How many steps a publication in flight may still take: those left of this
   attempt, and as many for each attempt retryFn still has. *)
StepsLeft(s) ==
    LET attemptsLeft == MAX_RETRIES + 1 - depth[s]
    IN  CASE pc[s] = "lookup"   -> 4 * MAX_RETRIES + 9 + LookupTries - tries[s]
          [] pc[s] = "pause"    -> 4 * attemptsLeft + 6
          [] pc[s] = "dryRun"   -> 4 * attemptsLeft + 5
          [] pc[s] = "gasPrice" -> 4 * attemptsLeft + 4
          [] pc[s] = "send"     -> 4 * attemptsLeft + 3
          [] pc[s] = "receipt"  -> 2
          [] pc[s] = "notify"   -> 1
          [] OTHER              -> 0

(* Whatever times out, fails or is sent again, and whatever connections and other
   publications do meanwhile, each step of a publication brings it nearer its
   end, of which it is never more than a fixed number of steps away: no order of
   late answers makes it go round in retryFn or rpcCallWithTimeout. *)
RunsWindDown ==
    [][\A s \in Sarcos :
          /\ s \in inProcess /\ s \in inProcess'
          /\ <<pc[s], tries[s], depth[s]>> # <<pc'[s], tries'[s], depth'[s]>>
          => StepsLeft(s)' \in 0 .. StepsLeft(s) - 1]_vars

(* The detailed publication implements what the service relies on. *)
Abstract == INSTANCE PublishRun
RefinesPublishRun == Abstract!Spec

=============================================================================
