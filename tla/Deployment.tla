------------------------------ MODULE Deployment -------------------------------
(***************************************************************************)
(* The owner's side of the system: the environment, the account on each      *)
(* network, the command line and the process of the service.  They share the *)
(* account, which the command line changes and the service reads, and the     *)
(* environment, which each process reads once.                               *)
(***************************************************************************)
EXTENDS CommandLine, ServiceStart

vars == <<env, edits, account, txs, cmd, service, checks, node, faults>>

Init == EnvInit /\ AccountInit /\ CommandInit /\ ServiceInit

Edit == EditEnv /\ UNCHANGED <<account, txs, cmd, service, checks, node, faults>>

Mined == (\E i \in DOMAIN txs : Mine(i)) /\ UNCHANGED <<env, edits, cmd, service, checks, node, faults>>

Elsewhere == (\E n \in Networks : OtherUpdate(n)) /\ UNCHANGED <<cmd, service, checks, node, faults>>

Command == (CommandStep \/ OwnerStep) /\ UNCHANGED <<env, edits, service, checks, node, faults>>

Service == ServiceStep /\ UNCHANGED <<env, edits, account, txs, cmd>>

Next == Edit \/ Mined \/ Elsewhere \/ Command \/ Service

Spec == Init /\ [][Next]_vars

(* What the runtimes do by themselves: a call on an open connection is answered or
   fails, a transaction is mined, docker restarts.  The owner need not do anything,
   and no connection need close or be replaced. *)
Stepped == CommandStep /\ UNCHANGED <<env, edits, service, checks, node, faults>>
Lives == (DockerRestarts \/ Boot \/ NodeStarts \/ NodeStartsAgain)
         /\ UNCHANGED <<env, edits, account, txs, cmd>>
CheckedOn(n) == CheckStep(n) /\ UNCHANGED <<env, edits, account, txs, cmd>>

FairSpec ==
    /\ Spec
    /\ WF_vars(Mined) /\ WF_vars(Stepped) /\ WF_vars(Lives)
    /\ \A n \in Networks : WF_vars(CheckedOn(n))

-----------------------------------------------------------------------------
TypeOK == EnvTypeOK /\ AccountTypeOK /\ CommandTypeOK /\ ServiceTypeOK

SentBy(run) == {i \in DOMAIN txs : txs[i].run = run}

(* No approval is sent that the owner has not agreed to in that command
   (requestApproval before runApprove, except where the registration has asked). *)
ConsentedApproval == \A i \in DOMAIN txs : txs[i].kind = "approve" => txs[i].consent

(* A command that ends with SUCCESS leaves nothing of its own pending, the
   attempts whose answer was lost included, and what it sent last has taken
   effect. *)
SuccessSettled ==
    cmd.at = "none" /\ cmd.code = Success =>
        /\ \A i \in SentBy(cmd.run) : txs[i].status # "pending"
        /\ \A i \in SentBy(cmd.run) :
              (\A j \in SentBy(cmd.run) : j <= i) => txs[i].status = "ok"

(* However often the allowance is looked at, a command asks the chain for one
   round of approvals, with the retries of retryFn, and sends one round of its
   own transaction, which for a profile is a single one. *)
RoundsBounded ==
    \A run \in 1..cmd.run :
        /\ Cardinality({i \in SentBy(run) : txs[i].kind = "approve"}) <= MaxRetries + 2
        /\ Cardinality({i \in SentBy(run) : txs[i].kind \in {"register", "update"}}) <= 1
        /\ Cardinality({i \in SentBy(run) : txs[i].kind # "approve"}) <= MaxRetries + 2

(* An update leaves every term it was not given as the profile it had read. *)
UpdateKeepsTheRest ==
    \A i \in DOMAIN txs : txs[i].kind = "update" =>
        \A f \in Terms \ txs[i].given : txs[i].profile.terms[f] = txs[i].read.terms[f]

(* A network is served only with a profile on it and, next to the others of the
   process, with a mnemonic of its own, whatever was edited since. *)
ServedWithProfile ==
    \A n \in Networks : checks[n] = "served" =>
        /\ account[n].profile.exists
        /\ n \in service.conf.chains
        /\ \A m \in service.conf.chains \ (Local \cup {n}) :
              n \notin Local => service.conf.mnemonic[m] # service.conf.mnemonic[n]

(* A command whose connection has closed waits for ever: neither its reads nor
   tx.wait() have a timeout, and nothing watches the connection. *)
Hung == cmd.at # "none" /\ ~cmd.live

(* Every command ends by itself or comes to a question, through failed calls, lost
   answers and retries, unless its connection closes under it. *)
EveryCommandEnds == cmd.at \in Working ~> (cmd.at \notin Working \/ Hung)

(* How many steps a command may still take, but for questions asked again: from
   where it waits to its end, with the attempts retryFn still has ... *)
StageSteps(at, attemptsLeft) ==
    CASE at = "report"    -> 1
      [] at = "sent"      -> 2
      [] at = "send"      -> 3 + attemptsLeft
      [] at = "approving" -> MaxRetries + 5
      [] at = "approve"   -> MaxRetries + 6 + attemptsLeft
      [] at = "unlimited" -> 2 * MaxRetries + 8
      [] at = "prompt"    -> 2 * MaxRetries + 9
      [] at = "allowance" -> 2 * MaxRetries + 10
      [] at = "confirm"   -> 2 * MaxRetries + 11
      [] at = "funds"     -> 2 * MaxRetries + 12
      [] at = "answers"   -> 2 * MaxRetries + 13
      [] at = "time"      -> 2 * MaxRetries + 14
      [] at = "balance"   -> 2 * MaxRetries + 15
      [] OTHER            -> 2 * MaxRetries + 16

(* ... and before the first approval is through, those of a second round. *)
SecondRound == IF cmd.phase = 1 THEN MaxRetries + 10 ELSE 0

CommandStepsLeft == SecondRound + StageSteps(cmd.at, MaxRetries + 1 - cmd.tries)

Stage == <<cmd.at, cmd.phase, cmd.tries>>

(* Each step of a command that does not end it brings it nearer its end: the
   allowance it looks at twice, the approval asked for from several places and
   the retries never send it round, and only an owner who does not confirm the
   review makes it ask again. *)
CommandsWindDown ==
    [][/\ cmd.at # "none" /\ cmd'.at # "none" /\ Stage' # Stage
       /\ ~(cmd.at = "confirm" /\ cmd'.at = "time")
       => CommandStepsLeft' \in 0 .. CommandStepsLeft - 1]_vars

Ready ==
    /\ service.at # "off" /\ Bootable
    /\ \A n \in Chosen : account[n].profile.exists

(* Once a profile is registered on every network it was started for, the service
   gets out of its restarts and serves them all, unless it is stopped or the
   environment is edited.  A network whose connection closes during its check is
   never served, nor restarted by anything, but keeps none of the others back. *)
AllServed ==
    Ready ~> (~Ready \/ ((\A n \in Chosen : checks[n] \in {"served", "hung"}) /\ node = "up"))

=============================================================================
