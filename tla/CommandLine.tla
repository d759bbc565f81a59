----------------------------- MODULE CommandLine ------------------------------
(***************************************************************************)
(* The command line (src/cli, src/scripts/profile-setup.ts, approve_utils,  *)
(* src/utils/blockchain/approve.ts): the owner registers, guided or not,     *)
(* updates the profile, moves free bond and claims rewards.  One command at *)
(* a time, in a process of its own, one action per segment between awaits;  *)
(* it may die at any of them, calls may fail or lose their answer, and on a  *)
(* connection that has closed nothing is answered any more.                 *)
(***************************************************************************)
EXTENDS Account

CONSTANTS
    Requests,       \* the commands the owner may give
    Answers,        \* what may be answered in the guided registration
    Bonds,
    BlockTimes,     \* readings of getBlockTimestamp
    Day, Month,     \* ONE_DAY_IN_SECONDS, ONE_MONTH_IN_SECONDS
    MinRewrap, MinMaxRes,
    MaxRetries,     \* MAX_RETRIES, 2
    CallFaults,     \* what may go wrong with a call, of {"fails", "lost", "closed"}
    MaxRuns         \* bound

Absent == -1
NoNetwork == "none"
Interactive == {"prompt", "answers", "confirm"}
Working ==
    {"profile", "balance", "allowance", "unlimited", "approve", "approving", "time", "funds",
     "send", "sent", "report"}
Commands == {"register", "guided", "update", "deposit", "withdraw", "withdrawAll", "claim"}

(* amount is --free-bond's, --deposit's or --withdraw's. *)
Request ==
    [name : Commands, net : Networks \cup {NoNetwork}, terms : [Terms -> Nat \cup {Absent}],
     amount : Nat \cup {Absent}, domain : BOOLEAN]

(* maxRes in months; rewrap "default", or in days or months as it was put. *)
Answer ==
    [maxRes : Nat, rewrap : [unit : {"default", "days", "months"}, n : Nat], fee : Nat, curse : Nat]

ASSUME CommandLineAssumption ==
    /\ NoNetwork \notin Networks
    /\ Requests \subseteq {r \in Request : r.name \in {"deposit", "withdraw"} => r.amount # Absent}
    /\ Answers \subseteq Answer
    /\ Bonds \subseteq Nat /\ BlockTimes \subseteq Nat
    /\ {Day, Month} \subseteq Nat \ {0}
    /\ {MinRewrap, MinMaxRes, MaxRetries, MaxRuns} \subseteq Nat
    /\ CallFaults \subseteq {"fails", "lost", "closed"}

Success == 0
BadEnv == 1
RpcException == 101
NoOnchainProfile == 200
DeniedApproval == 205
Interrupted == 130
Codes == {Absent, Success, BadEnv, RpcException, NoOnchainProfile, DeniedApproval, Interrupted}

(* The process: where it waits, what it was asked, the environment's domain,
   what it has read, how often it has tried, the transaction it waits for.
   live: the connection of its network is open; nothing watches it, and what is
   awaited on a closed one is neither answered nor rejected.
   phase: 1 before the first approval is through, then 2.
   run, code: the number and the exit code of the command, kept when it ends. *)
VARIABLE cmd

NoRequest ==
    [name |-> "claim", net |-> NoNetwork, terms |-> [f \in Terms |-> Absent], amount |-> Absent,
     domain |-> FALSE]

Gone(run, code) ==
    [at |-> "none", req |-> NoRequest, domain |-> "unset", phase |-> 1, read |-> NoProfile,
     consent |-> FALSE, time |-> 0, tries |-> 0, tx |-> 0, live |-> TRUE, run |-> run,
     code |-> code]

CmdType ==
    [at : {"none"} \cup Interactive \cup Working, req : Request, domain : Domains \cup Unusable,
     phase : 1..2, read : Profile, consent : BOOLEAN, time : Nat, tries : 0..MaxRetries + 1,
     tx : Nat, live : BOOLEAN, run : Nat, code : Codes]

CommandTypeOK == cmd \in CmdType /\ cmd.run <= MaxRuns

CommandInit == cmd = Gone(0, Absent)

Ends(code) == cmd' = Gone(cmd.run, code)

(* An error that is handled: handleRpcError may itself throw on what it is given,
   or when it asks for the balance. *)
Fails == Ends(RpcException) \/ Ends(BadEnv)

Name == cmd.req.name
Net == cmd.req.net
Acct == account[Net]

-----------------------------------------------------------------------------
(* What is refused before anything is awaited. *)

MovesBond(r) == r.name \in {"deposit", "withdraw"}

(* An amount of zero deletes the options, the network's name among them. *)
Network(r) == IF MovesBond(r) /\ r.amount = 0 THEN NoNetwork ELSE r.net

(* cli.ts warns and returns. *)
WarnedOnly(r, v) ==
    /\ MultipleChains(v) /\ Network(r) = NoNetwork
    /\ r.name = "claim" \/ (MovesBond(r) /\ r.amount = 0)

TooShort(r) ==
    \/ r.terms["rewrap"] \in 1..MinRewrap - 1
    \/ r.terms["maxRes"] \in 1..MinMaxRes - 1

Malformed(r) ==
    \/ /\ r.name = "register"
       /\ \E f \in Terms \ {"maxRes"} : r.terms[f] = Absent
    \/ /\ r.name = "update" /\ r.net = NoNetwork /\ r.amount = Absent /\ ~r.domain
       /\ \A f \in Terms : r.terms[f] = Absent
    \/ r.name \in {"register", "update"} /\ TooShort(r)

(* The process starts: environment, options, network context. *)
Invoke(r) ==
    LET run == cmd.run + 1
        usable == ValidEnvVars(env) /\ ContextsBuilt(env) /\ ~Malformed(r)
                  /\ HasContext(env, Network(r))
    IN  /\ cmd.at = "none" /\ cmd.run < MaxRuns
        /\ \/ /\ ValidEnvVars(env) /\ WarnedOnly(r, env)
              /\ cmd' = Gone(run, Success)
           \/ /\ ~usable /\ ~(ValidEnvVars(env) /\ WarnedOnly(r, env))
              /\ cmd' = Gone(run, BadEnv)
           \/ /\ usable
              /\ cmd' = [Gone(run, Absent) EXCEPT
                            !.at = IF r.name = "guided" THEN "prompt" ELSE "profile",
                            !.req = r, !.domain = env.domain]
        /\ UNCHANGED accountVars

-----------------------------------------------------------------------------
(* The awaits before a transaction. *)

(* Options of update that count: --domain alone goes on without any other, and
   an interval or a time of zero is taken for one that was not given. *)
Given(r) ==
    IF r.name = "update" /\ r.domain THEN {}
    ELSE {f \in Terms : r.terms[f] # Absent
                        /\ (r.name = "update" /\ f \in {"rewrap", "maxRes"} => r.terms[f] # 0)}

Amount(r) == IF r.amount = Absent \/ (r.name = "update" /\ r.domain) THEN 0 ELSE r.amount

(* Where profileSetup goes first. *)
SetupStage == IF Amount(cmd.req) > 0 THEN "prompt" ELSE "send"

(* A read fails outside any try (after hasAllowance also getGasPrice): the command
   line's own handler exits. *)
ReadFails ==
    /\ "fails" \in CallFaults
    /\ cmd.at \in {"profile", "balance", "allowance", "unlimited", "funds"}
    /\ Ends(BadEnv)
    /\ UNCHANGED accountVars

ProfileRead ==
    /\ cmd.at = "profile"
    /\ \/ Name = "register" /\ Acct.profile.exists /\ Ends(Success)
       \/ Name = "update" /\ ~Acct.profile.exists /\ Ends(NoOnchainProfile)
       \/ Name \notin {"register", "update"} /\ ~Acct.profile.exists /\ Ends(Success)
       \/ /\ Name = "register" /\ ~Acct.profile.exists
          /\ cmd' = [cmd EXCEPT !.at = SetupStage]
       \/ /\ Name = "update" /\ Acct.profile.exists
          /\ cmd' = [cmd EXCEPT !.at = SetupStage, !.read = Acct.profile]
       \/ /\ Name \notin {"register", "update"} /\ Acct.profile.exists
          /\ cmd' = [cmd EXCEPT !.at = CASE Name = "deposit"     -> "allowance"
                                         [] Name = "withdrawAll" -> "balance"
                                         [] OTHER                -> "send"]
    /\ UNCHANGED accountVars

(* getFreeBondBalance for --withdraw-all. *)
BalanceRead ==
    /\ cmd.at = "balance"
    /\ cmd' = [cmd EXCEPT !.at = "send", !.req = [@ EXCEPT !.amount = Acct.bond]]
    /\ UNCHANGED accountVars

(* Where a command goes once it may spend; deposit looks twice. *)
AfterApproval ==
    CASE Name = "guided" /\ cmd.phase = 1  -> "time"
      [] Name = "deposit" /\ cmd.phase = 1 -> "allowance"
      [] OTHER -> "send"

(* Mutant: the command is no further than before its approval. *)
ProceedAgain == cmd' = [cmd EXCEPT !.at = AfterApproval, !.tries = 0, !.tx = 0]

Proceed == cmd' = [cmd EXCEPT !.at = AfterApproval, !.phase = 2, !.tries = 0, !.tx = 0]

(* Mutant: the second time, the guided registration's way, for deposits too. *)
AllowanceReadUnasked ==
    /\ cmd.at = "allowance"
    /\ \/ Acct.allowance >= cmd.req.amount /\ Proceed
       \/ /\ Acct.allowance < cmd.req.amount
          /\ cmd' = [cmd EXCEPT !.at = "unlimited"]
    /\ UNCHANGED accountVars

(* hasAllowance of the amount: without it deposit asks the owner, the guided
   registration has asked. *)
AllowanceRead ==
    /\ cmd.at = "allowance"
    /\ \/ Acct.allowance >= cmd.req.amount /\ Proceed
       \/ /\ Acct.allowance < cmd.req.amount
          /\ cmd' = [cmd EXCEPT !.at = IF Name = "guided" THEN "unlimited" ELSE "prompt"]
    /\ UNCHANGED accountVars

(* requestApproval. *)
ApprovalAnswered ==
    /\ cmd.at = "prompt"
    /\ \/ cmd' = [cmd EXCEPT !.at = "unlimited", !.consent = TRUE]
       \/ Ends(DeniedApproval)
    /\ UNCHANGED accountVars

(* runApprove: hasAllowance of MaxUint256. *)
UnlimitedRead ==
    /\ cmd.at = "unlimited"
    /\ \/ Acct.allowance >= Unlimited /\ Proceed
       \/ Acct.allowance < Unlimited /\ cmd' = [cmd EXCEPT !.at = "approve", !.tries = 0]
    /\ UNCHANGED accountVars

-----------------------------------------------------------------------------
(* The guided registration. *)
TimeRead ==
    /\ cmd.at = "time"
    /\ \E t \in BlockTimes : cmd' = [cmd EXCEPT !.at = "answers", !.time = t]
    /\ UNCHANGED accountVars

(* parseRewrapIntervalAnswer: 12 months are 365 days, but any other number of
   months is taken for as many days; the default is put in months. *)
RewrapSeconds(a) ==
    LET unit == IF a.rewrap.unit = "days" THEN "days" ELSE "months"
        n == IF a.rewrap.unit = "default" THEN a.maxRes ELSE a.rewrap.n
    IN  IF unit = "months" /\ n = 12 THEN 365 * Day ELSE n * Day

(* parseMaxResTimeAnswer. *)
MaxResTime(a) == cmd.time + a.maxRes * Month

AnswerTerms(a) ==
    [f \in Terms |-> CASE f = "fee"    -> a.fee
                       [] f = "rewrap" -> RewrapSeconds(a)
                       [] f = "maxRes" -> MaxResTime(a)
                       [] f = "curse"  -> a.curse]

Answered ==
    /\ cmd.at = "answers"
    /\ \E a \in Answers :
          cmd' = [cmd EXCEPT !.at = "funds", !.req = [@ EXCEPT !.terms = AnswerTerms(a)]]
    /\ UNCHANGED accountVars

(* getSarcoBalance, for the text of the next question. *)
FundsRead ==
    /\ cmd.at = "funds"
    /\ cmd' = [cmd EXCEPT !.at = "confirm"]
    /\ UNCHANGED accountVars

(* The bond, and the review: without a confirmation the questions start again. *)
Confirmed ==
    /\ cmd.at = "confirm"
    /\ \E b \in Bonds :
          \/ cmd' = [cmd EXCEPT !.at = "allowance", !.req = [@ EXCEPT !.amount = b]]
          \/ cmd' = [cmd EXCEPT !.at = "time"]
    /\ UNCHANGED accountVars

-----------------------------------------------------------------------------
(* Transactions. *)

Kind == CASE Name \in {"register", "guided"} -> "register"
          [] Name = "withdrawAll" -> "withdraw"
          [] OTHER -> Name

(* The terms an update or a registration sends: what was given, the fee per
   second; the rest of an update from the profile it has read, its fee put per
   month and back. *)
PerSecond(fee) == fee \div Month

(* Mutant: the parameter's default, before the profile's curse fee is looked at. *)
TermsSentFree(r, read) ==
    LET month == IF "fee" \in Given(r) THEN r.terms["fee"] ELSE read.terms["fee"] * Month
    IN  [f \in Terms |->
            CASE f = "fee" -> PerSecond(month)
              [] f # "fee" /\ f \in Given(r) -> r.terms[f]
              [] f = "curse" /\ f \notin Given(r) -> 0
              [] OTHER -> read.terms[f]]

TermsSent(r, read) ==
    LET month == IF "fee" \in Given(r) THEN r.terms["fee"] ELSE read.terms["fee"] * Month
    IN  [f \in Terms |->
            CASE f = "fee" -> PerSecond(month)
              [] f # "fee" /\ f \in Given(r) -> r.terms[f]
              [] OTHER -> read.terms[f]]

(* A registration without --max-res-time passes the checks but cannot be encoded. *)
Encodable == Kind = "update" \/ cmd.req.terms["maxRes"] # Absent

ProfileSent ==
    IF Kind \in {"register", "update"}
    THEN [exists |-> TRUE, domain |-> cmd.domain, terms |-> TermsSent(cmd.req, cmd.read)]
    ELSE NoProfile

Transaction(kind) ==
    [net |-> Net, kind |-> kind, profile |-> IF kind = "approve" THEN NoProfile ELSE ProfileSent,
     amount |-> IF kind = "approve" THEN 0 ELSE Amount(cmd.req), run |-> cmd.run,
     consent |-> cmd.consent, read |-> cmd.read, given |-> Given(cmd.req), status |-> "pending"]

(* retryFn is not used for a profile. *)
Retried == cmd.at = "approve" \/ Kind \notin {"register", "update"}

(* Mutant: the depth is not passed on. *)
AttemptFailsForgetful ==
    \/ Retried /\ cmd.tries <= MaxRetries /\ UNCHANGED cmd
    \/ (Retried => cmd.tries > MaxRetries) /\ Fails

(* Mutant: one attempt too many. *)
AttemptFailsLate ==
    \/ Retried /\ cmd.tries <= MaxRetries + 1 /\ cmd' = [cmd EXCEPT !.tries = @ + 1]
    \/ (Retried => cmd.tries > MaxRetries + 1) /\ Fails

(* retryFn's catch: a depth greater than MAX_RETRIES is not tried again. *)
AttemptFails ==
    \/ Retried /\ cmd.tries <= MaxRetries /\ cmd' = [cmd EXCEPT !.tries = @ + 1]
    \/ (Retried => cmd.tries > MaxRetries) /\ Fails

(* The websocket closes. *)
LosesLine == cmd' = [cmd EXCEPT !.live = FALSE]

(* One attempt to send t, to be waited for at next; its answer may be lost, or
   the connection with it. *)
Attempt(t, next) ==
    \/ /\ Accepts(Acct, t)
       /\ txs' = Append(txs, t)
       /\ \/ cmd' = [cmd EXCEPT !.at = next, !.tx = Len(txs) + 1]
          \/ "lost" \in CallFaults /\ AttemptFails
          \/ "closed" \in CallFaults /\ LosesLine
    \/ /\ ~Accepts(Acct, t) \/ "fails" \in CallFaults
       /\ AttemptFails /\ UNCHANGED txs

Approve == cmd.at = "approve" /\ Attempt(Transaction("approve"), "approving") /\ UNCHANGED account

Send ==
    /\ cmd.at = "send"
    /\ \/ Kind \in {"register", "update"} /\ ~env.peerFile /\ Ends(BadEnv) /\ UNCHANGED txs
       \/ /\ Kind = "register" /\ env.peerFile /\ ~Encodable /\ cmd.live
          /\ Fails /\ UNCHANGED txs
       \/ /\ cmd.live
          /\ Kind \in {"register", "update"} => env.peerFile /\ Encodable
          /\ Attempt(Transaction(Kind), "sent")
    /\ UNCHANGED account

(* Mutant: the receipt is not waited for. *)
ReceiptEager ==
    /\ cmd.at \in {"approving", "sent"}
    /\ CASE cmd.at = "approving" -> Proceed
         [] Kind \in {"register", "update"} -> cmd' = [cmd EXCEPT !.at = "report"]
         [] OTHER -> Ends(Success)
    /\ UNCHANGED accountVars

Receipt ==
    /\ cmd.at \in {"approving", "sent"}
    /\ \/ /\ txs[cmd.tx].status = "ok"
          /\ CASE cmd.at = "approving" -> Proceed
               [] cmd.at = "sent" /\ Kind \in {"register", "update"} ->
                     cmd' = [cmd EXCEPT !.at = "report"]
               [] OTHER -> Ends(Success)
       \/ (txs[cmd.tx].status = "reverted" \/ "fails" \in CallFaults) /\ Fails
    /\ UNCHANGED accountVars

(* getOnchainProfile of what was stored, for the text. *)
Report ==
    /\ cmd.at = "report"
    /\ Ends(Success) \/ ("fails" \in CallFaults /\ Fails)
    /\ UNCHANGED accountVars

(* What was sent on the connection is mined all the same. *)
ConnectionCloses ==
    /\ "closed" \in CallFaults /\ cmd.at # "none" /\ cmd.live
    /\ LosesLine
    /\ UNCHANGED accountVars

(* Every end but the command's own: Ctrl-C, a rejection nobody handles, a runtime
   that has nothing left to wait for. *)
Dies ==
    /\ cmd.at # "none"
    /\ Ends(Interrupted)
    /\ UNCHANGED accountVars

(* What the command goes on with by itself.  Each of these but a send refused for
   want of the peer id waits for an answer. *)
CommandStep ==
    \/ Send
    \/ /\ cmd.live
       /\ \/ ProfileRead \/ BalanceRead \/ AllowanceRead \/ UnlimitedRead \/ TimeRead \/ FundsRead
          \/ ReadFails \/ Approve \/ Receipt \/ Report

(* What comes from the owner, and from the line. *)
OwnerStep == \/ \E r \in Requests : Invoke(r)
             \/ ApprovalAnswered \/ Answered \/ Confirmed \/ Dies \/ ConnectionCloses

=============================================================================
