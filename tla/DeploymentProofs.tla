--------------------------- MODULE DeploymentProofs ----------------------------
(***************************************************************************)
(* What the command line and the start of the service promise, for any      *)
(* networks, environments, accounts and requests, and any number of         *)
(* commands, retries, edits and faults: the types, that a command ends, that *)
(* the owner agreed to what was approved, that an update changes no other    *)
(* term, and that what is served has a profile and keys of its own.          *)
(***************************************************************************)
EXTENDS Deployment, TLAPS

(* A command in progress is aimed at a network. *)
Aimed == cmd.at # "none" => Net \in Networks

Types == TypeOK /\ Aimed

-----------------------------------------------------------------------------
(* The operators. *)

LEMMA FeeKept ==
    ASSUME NEW x \in Nat
    PROVE  (x * Month) \div Month = x /\ x * Month \in Nat
<1>1. Month \in Nat /\ Month > 0
  BY CommandLineAssumption
<1> QED BY <1>1

LEMMA PerSecondNat ==
    ASSUME NEW x \in Nat
    PROVE  PerSecond(x) \in Nat
<1>1. Month \in Nat /\ Month > 0
  BY CommandLineAssumption
<1> QED BY <1>1 DEF PerSecond

(* What is sent is a natural number for every term, and for one that was not
   given the one read. *)
LEMMA TermsSentKeep ==
    ASSUME NEW r \in Request, NEW read \in Profile
    PROVE  /\ TermsSent(r, read) \in [Terms -> Nat]
           /\ \A f \in Terms \ Given(r) : TermsSent(r, read)[f] = read.terms[f]
<1>1. read.terms \in [Terms -> Nat] /\ "fee" \in Terms
  BY DEF Profile, Terms
<1>2. \A f \in Given(r) : f \in Terms /\ r.terms[f] \in Nat
  BY DEF Given, Request, Absent
<1>3. (IF "fee" \in Given(r) THEN r.terms["fee"] ELSE read.terms["fee"] * Month) \in Nat
  BY <1>1, <1>2, FeeKept
<1>4. \A f \in Terms : TermsSent(r, read)[f] \in Nat
  BY <1>1, <1>2, <1>3, PerSecondNat DEF TermsSent
<1>5. TermsSent(r, read) \in [Terms -> Nat]
  BY <1>4 DEF TermsSent
<1>6. "fee" \notin Given(r) => TermsSent(r, read)["fee"] = read.terms["fee"]
  BY <1>1, FeeKept DEF TermsSent, PerSecond
<1>7. \A f \in Terms \ Given(r) : TermsSent(r, read)[f] = read.terms[f]
  BY <1>6 DEF TermsSent
<1> QED BY <1>5, <1>7

LEMMA AmountNat ==
    ASSUME NEW r \in Request
    PROVE  Amount(r) \in Nat
BY DEF Amount, Request, Absent

LEMMA TransactionTyped ==
    ASSUME cmd \in CmdType, Net \in Networks, NEW kind \in {"approve", Kind}
    PROVE  Transaction(kind) \in Tx
<1>1. cmd.req \in Request /\ cmd.read \in Profile /\ cmd.run \in Nat /\ cmd.consent \in BOOLEAN
      /\ cmd.domain \in Domains \cup Unusable /\ Name \in Commands
  BY DEF CmdType, Request, Name
<1>2. Kind \in Kinds /\ "approve" \in Kinds
  BY <1>1 DEF Kind, Kinds, Commands
<1>3. NoProfile \in Profile
  BY DEF NoProfile, Profile, Unusable
<1>4. ProfileSent \in Profile
  BY <1>1, <1>3, TermsSentKeep DEF ProfileSent, Profile
<1>5. Amount(cmd.req) \in Nat /\ Given(cmd.req) \in SUBSET Terms
  BY <1>1, AmountNat DEF Given
<1> QED BY <1>1, <1>2, <1>3, <1>4, <1>5 DEF Transaction, Tx

-----------------------------------------------------------------------------
(* Types. *)

LEMMA Amounts ==
    ASSUME NEW a \in AccountType, NEW t \in Tx, Accepts(a, t)
    PROVE  Effect(a, t) \in AccountType
<1> USE DEF AccountType
<1>1. t.amount \in Nat /\ t.profile \in Profile /\ t.kind \in Kinds /\ Unlimited \in Nat
  BY AccountAssumption DEF Tx
<1>2. ASSUME Affordable(a, t.amount) PROVE Deposited(a, t.amount) \in AccountType
  <2>1. a.wallet - t.amount \in Nat /\ a.allowance - t.amount \in Nat /\ a.bond + t.amount \in Nat
    BY <1>1, <1>2 DEF Affordable
  <2> QED BY <2>1 DEF Deposited
<1>3. CASE t.kind = "approve"
  BY <1>1, <1>3 DEF Effect
<1>4. CASE t.kind \in {"register", "update"}
  <2>1. Affordable(a, t.amount)
    BY <1>4 DEF Accepts
  <2> QED BY <1>1, <1>2, <1>4, <2>1 DEF Effect
<1>5. CASE t.kind = "deposit"
  <2>1. Affordable(a, t.amount)
    BY <1>5 DEF Accepts
  <2> QED BY <1>1, <1>2, <1>5, <2>1 DEF Effect
<1>6. CASE t.kind = "withdraw"
  <2>1. a.bond - t.amount \in Nat /\ a.wallet + t.amount \in Nat
    BY <1>1, <1>6 DEF Accepts
  <2> QED BY <1>6, <2>1 DEF Effect
<1>7. CASE t.kind = "claim"
  <2>1. a.wallet + a.rewards \in Nat
    OBVIOUS
  <2> QED BY <1>7, <2>1 DEF Effect
<1> QED BY <1>1, <1>3, <1>4, <1>5, <1>6, <1>7 DEF Kinds

LEMMA InitTypes == Init => Types
<1> SUFFICES ASSUME Init PROVE Types
  OBVIOUS
<1>1. EnvTypeOK /\ AccountTypeOK
  BY EnvironmentAssumption, AccountAssumption
     DEF Init, EnvInit, AccountInit, EnvTypeOK, AccountTypeOK
<1>2. NoRequest \in Request /\ NoProfile \in Profile
  BY DEF NoRequest, Request, NoProfile, Profile, Unusable, Commands, Absent
<1>3. CommandTypeOK /\ Aimed
  BY <1>2, CommandLineAssumption
     DEF Init, CommandInit, Gone, CommandTypeOK, CmdType, Codes, Unusable, Aimed
<1>4. ServiceTypeOK
  BY <1>1, ServiceStartAssumption
     DEF Init, ServiceInit, ServiceTypeOK, NoChecks, CheckSteps, EnvTypeOK
<1> QED BY <1>1, <1>3, <1>4 DEF Types, TypeOK

(* What a command leaves when it ends. *)
LEMMA EndsTyped ==
    ASSUME CommandTypeOK, NEW code \in Codes, Ends(code)
    PROVE  CommandTypeOK' /\ Aimed'
<1>1. NoRequest \in Request /\ NoProfile \in Profile
  BY DEF NoRequest, Request, NoProfile, Profile, Unusable, Commands, Absent
<1> QED BY <1>1, CommandLineAssumption
        DEF Ends, Gone, CommandTypeOK, CmdType, Unusable, Aimed

LEMMA FailsTyped ==
    ASSUME CommandTypeOK, Fails
    PROVE  CommandTypeOK' /\ Aimed'
BY EndsTyped DEF Fails, Codes

LEMMA InvokeTyped ==
    ASSUME TypeOK, NEW r \in Requests, Invoke(r)
    PROVE  CommandTypeOK' /\ Aimed'
<1>1. NoRequest \in Request /\ NoProfile \in Profile
  BY DEF NoRequest, Request, NoProfile, Profile, Unusable, Commands, Absent
<1>2. r \in Request /\ MaxRuns \in Nat /\ MaxRetries \in Nat /\ NoNetwork \notin Networks
  BY CommandLineAssumption
<1>3. env.chains \subseteq Networks /\ env.domain \in Domains \cup Unusable
  BY EnvironmentAssumption DEF TypeOK, EnvTypeOK, Environment
<1>4. cmd.run + 1 \in Nat /\ cmd.run + 1 <= MaxRuns
  BY <1>2 DEF TypeOK, CommandTypeOK, CmdType, Invoke
<1>5. \A code \in Codes : Gone(cmd.run + 1, code) \in CmdType /\ Gone(cmd.run + 1, code).run <= MaxRuns
                         /\ Gone(cmd.run + 1, code).at = "none"
  BY <1>1, <1>2, <1>4 DEF Gone, CmdType, Unusable
<1>6. CASE cmd' \in {Gone(cmd.run + 1, Success), Gone(cmd.run + 1, BadEnv)}
  BY <1>5, <1>6 DEF CommandTypeOK, Aimed, Codes
<1>7. CASE /\ Network(r) \in env.chains
           /\ cmd' = [Gone(cmd.run + 1, Absent) EXCEPT
                        !.at = IF r.name = "guided" THEN "prompt" ELSE "profile",
                        !.req = r, !.domain = env.domain]
  <2>1. r.net \in Networks
    BY <1>2, <1>3, <1>7 DEF Network
  <2>2. cmd'.req = r /\ cmd'.run = cmd.run + 1
    BY <1>7 DEF Gone
  <2>3. cmd' = [at |-> IF r.name = "guided" THEN "prompt" ELSE "profile", req |-> r,
                domain |-> env.domain, phase |-> 1, read |-> NoProfile, consent |-> FALSE,
                time |-> 0, tries |-> 0, tx |-> 0, live |-> TRUE, run |-> cmd.run + 1,
                code |-> Absent]
    BY <1>7 DEF Gone
  <2>4. cmd' \in CmdType
    BY <1>1, <1>2, <1>3, <1>4, <2>3 DEF CmdType, Interactive, Working, Codes
  <2> QED BY <1>4, <2>1, <2>2, <2>4 DEF CommandTypeOK, Aimed, Net
<1> QED BY <1>6, <1>7 DEF Invoke, HasContext

(* A connection that closes leaves the command where it is. *)
LEMMA LineLost ==
    ASSUME cmd \in CmdType, LosesLine
    PROVE  /\ cmd' \in CmdType
           /\ \A f \in {"at", "req", "domain", "phase", "read", "consent", "time", "tries", "tx",
                       "run", "code"} : cmd'[f] = cmd[f]
BY DEF CmdType, LosesLine

LEMMA LineLostTyped ==
    ASSUME CommandTypeOK, Aimed, LosesLine
    PROVE  CommandTypeOK' /\ Aimed'
<1>1. cmd' \in CmdType /\ cmd'.at = cmd.at /\ cmd'.req = cmd.req /\ cmd'.run = cmd.run
  BY LineLost DEF CommandTypeOK
<1> QED BY <1>1 DEF CommandTypeOK, Aimed, Net

LEMMA AttemptTyped ==
    ASSUME TypeOK, Aimed, cmd.at # "none", NEW kind \in {"approve", Kind},
           NEW next \in {"approving", "sent"}, Attempt(Transaction(kind), next)
    PROVE  CommandTypeOK' /\ Aimed' /\ txs' \in Seq(Tx)
<1>1. CommandTypeOK /\ txs \in Seq(Tx) /\ MaxRetries \in Nat /\ cmd.tries \in 0..MaxRetries + 1
  BY CommandLineAssumption DEF TypeOK, AccountTypeOK, CommandTypeOK, CmdType
<1>2. Transaction(kind) \in Tx
  BY TransactionTyped DEF TypeOK, CommandTypeOK, Aimed
<1>3. txs' \in Seq(Tx)
  BY <1>1, <1>2 DEF Attempt
<1>4. ASSUME AttemptFails PROVE CommandTypeOK' /\ Aimed'
  <2>1. CASE Fails
    BY <1>1, <2>1, FailsTyped
  <2>2. CASE cmd.tries <= MaxRetries /\ cmd' = [cmd EXCEPT !.tries = @ + 1]
    <3>1. cmd.tries + 1 \in 0..MaxRetries + 1
      BY <1>1, <2>2
    <3> QED BY <1>1, <2>2, <3>1 DEF CommandTypeOK, CmdType, Aimed, Net
  <2> QED BY <1>4, <2>1, <2>2 DEF AttemptFails
<1>5. CASE cmd' = [cmd EXCEPT !.at = next, !.tx = Len(txs) + 1]
  <2>1. Len(txs) + 1 \in Nat
    BY <1>1
  <2>2. next \in Working
    BY DEF Working
  <2>3. cmd' \in CmdType
    BY <1>1, <1>5, <2>1, <2>2 DEF CommandTypeOK, CmdType
  <2>4. cmd'.req = cmd.req /\ cmd'.run = cmd.run
    BY <1>1, <1>5 DEF CommandTypeOK, CmdType
  <2> QED BY <1>1, <1>3, <2>3, <2>4 DEF CommandTypeOK, Aimed, Net
<1>6. CASE LosesLine
  BY <1>1, <1>3, <1>6, LineLostTyped
<1> QED BY <1>3, <1>4, <1>5, <1>6 DEF Attempt

(* A step that goes on to another stage, with what it has read. *)
LEMMA GoesOnTyped ==
    ASSUME CommandTypeOK, Aimed, cmd.at # "none",
           cmd' \in CmdType, cmd'.run = cmd.run, cmd'.req.net = cmd.req.net
    PROVE  CommandTypeOK' /\ Aimed'
BY DEF CommandTypeOK, Aimed, Net

LEMMA ProceedTyped ==
    ASSUME CommandTypeOK, Aimed, cmd.at # "none", Proceed
    PROVE  CommandTypeOK' /\ Aimed'
<1>1. AfterApproval \in Working
  BY DEF AfterApproval, Working
<1>2. cmd \in CmdType /\ MaxRetries \in Nat
  BY CommandLineAssumption DEF CommandTypeOK
<1>3. cmd' = [cmd EXCEPT !.at = AfterApproval, !.phase = 2, !.tries = 0, !.tx = 0]
  BY DEF Proceed
<1> HIDE DEF AfterApproval
<1>4. 0 \in 0..MaxRetries + 1 /\ 2 \in 1..2 /\ 0 \in Nat
  BY <1>2
<1>5. cmd' \in CmdType
  BY <1>1, <1>2, <1>3, <1>4 DEF CmdType
<1>6. cmd'.run = cmd.run /\ cmd'.req.net = cmd.req.net
  BY <1>2, <1>3 DEF CmdType
<1> QED BY <1>5, <1>6, GoesOnTyped

LEMMA CommandTyped ==
    ASSUME Types, CommandStep \/ OwnerStep
    PROVE  CommandTypeOK' /\ Aimed' /\ txs' \in Seq(Tx) /\ account' = account
<1> USE DEF accountVars
<1>1. /\ CommandTypeOK /\ cmd \in CmdType /\ Aimed /\ txs \in Seq(Tx) /\ MaxRetries \in Nat
      /\ account \in [Networks -> AccountType]
  BY CommandLineAssumption DEF Types, TypeOK, CommandTypeOK, AccountTypeOK
<1>2. CASE ReadFails \/ Dies
  BY <1>1, <1>2, EndsTyped DEF ReadFails, Dies, Codes
<1>3. CASE ProfileRead
  <2>1. CASE Ends(Success) \/ Ends(NoOnchainProfile)
    BY <1>1, <1>3, <2>1, EndsTyped DEF ProfileRead, Codes
  <2>2. CASE cmd' = [cmd EXCEPT !.at = SetupStage]
    <3>1. SetupStage \in {"prompt", "send"}
      BY DEF SetupStage
    <3> HIDE DEF SetupStage
    <3>2. cmd' \in CmdType /\ cmd'.run = cmd.run /\ cmd'.req.net = cmd.req.net
      BY <1>1, <2>2, <3>1 DEF CmdType, Interactive, Working
    <3> QED BY <1>1, <1>3, <3>2, GoesOnTyped DEF ProfileRead
  <2>3. CASE Net \in Networks /\ cmd' = [cmd EXCEPT !.at = SetupStage, !.read = Acct.profile]
    <3>1. SetupStage \in {"prompt", "send"} /\ Acct.profile \in Profile
      BY <1>1, <2>3 DEF SetupStage, Acct, AccountType
    <3> HIDE DEF SetupStage, Acct
    <3>2. cmd' \in CmdType /\ cmd'.run = cmd.run /\ cmd'.req.net = cmd.req.net
      BY <1>1, <2>3, <3>1 DEF CmdType, Interactive, Working
    <3> QED BY <1>1, <1>3, <3>2, GoesOnTyped DEF ProfileRead
  <2>4. CASE \E stage \in {"allowance", "balance", "send"} : cmd' = [cmd EXCEPT !.at = stage]
    <3>1. cmd' \in CmdType /\ cmd'.run = cmd.run /\ cmd'.req.net = cmd.req.net
      BY <1>1, <2>4 DEF CmdType, Working
    <3> QED BY <1>1, <1>3, <3>1, GoesOnTyped DEF ProfileRead
  <2>5. cmd.at = "profile" /\ Net \in Networks
    BY <1>1, <1>3 DEF ProfileRead, Aimed
  <2> QED BY <1>3, <2>1, <2>2, <2>3, <2>4, <2>5 DEF ProfileRead
<1>4. CASE BalanceRead
  <2>1. cmd.at = "balance" /\ Net \in Networks /\ Acct.bond \in Nat
    BY <1>1, <1>4 DEF BalanceRead, Aimed, Acct, AccountType
  <2>2. [cmd.req EXCEPT !.amount = Acct.bond] \in Request
    BY <1>1, <2>1 DEF CmdType, Request
  <2>3. cmd' = [cmd EXCEPT !.at = "send", !.req = [cmd.req EXCEPT !.amount = Acct.bond]]
    BY <1>4 DEF BalanceRead
  <2>4. cmd' \in CmdType
    BY <1>1, <2>2, <2>3 DEF CmdType, Working
  <2>5. cmd'.run = cmd.run /\ cmd'.req.net = cmd.req.net
    BY <1>1, <2>3 DEF CmdType, Request
  <2> QED BY <1>1, <1>4, <2>1, <2>4, <2>5, GoesOnTyped DEF BalanceRead
<1>5. CASE AllowanceRead
  <2>1. CASE Proceed
    BY <1>1, <1>5, <2>1, ProceedTyped DEF AllowanceRead
  <2>2. CASE \E stage \in {"unlimited", "prompt"} : cmd' = [cmd EXCEPT !.at = stage]
    <3>1. cmd' \in CmdType /\ cmd'.run = cmd.run /\ cmd'.req.net = cmd.req.net
      BY <1>1, <2>2 DEF CmdType, Working, Interactive
    <3> QED BY <1>1, <1>5, <3>1, GoesOnTyped DEF AllowanceRead
  <2> QED BY <1>5, <2>1, <2>2 DEF AllowanceRead
<1>6. CASE UnlimitedRead
  <2>1. CASE Proceed
    BY <1>1, <1>6, <2>1, ProceedTyped DEF UnlimitedRead
  <2>2. CASE cmd' = [cmd EXCEPT !.at = "approve", !.tries = 0]
    <3>1. 0 \in 0..MaxRetries + 1
      BY <1>1
    <3>2. cmd' \in CmdType
      BY <1>1, <2>2, <3>1 DEF CmdType, Working
    <3>3. cmd'.run = cmd.run /\ cmd'.req.net = cmd.req.net
      BY <1>1, <2>2 DEF CmdType
    <3> QED BY <1>1, <1>6, <3>2, <3>3, GoesOnTyped DEF UnlimitedRead
  <2> QED BY <1>6, <2>1, <2>2 DEF UnlimitedRead
<1>7. CASE TimeRead
  <2>1. cmd' \in CmdType /\ cmd'.run = cmd.run /\ cmd'.req.net = cmd.req.net
    BY <1>1, <1>7, CommandLineAssumption DEF TimeRead, CmdType, Interactive
  <2> QED BY <1>1, <1>7, <2>1, GoesOnTyped DEF TimeRead
<1>8. CASE FundsRead
  <2>1. cmd' \in CmdType /\ cmd'.run = cmd.run /\ cmd'.req.net = cmd.req.net
    BY <1>1, <1>8 DEF FundsRead, CmdType, Interactive
  <2> QED BY <1>1, <1>8, <2>1, GoesOnTyped DEF FundsRead
<1>9. CASE Approve
  BY <1>1, <1>9, AttemptTyped DEF Approve, Types
<1>10. CASE Send
  <2>1. CASE Ends(BadEnv) /\ UNCHANGED txs
    BY <1>1, <1>10, <2>1, EndsTyped DEF Send, Codes
  <2>2. CASE Fails /\ UNCHANGED txs
    BY <1>1, <1>10, <2>2, FailsTyped DEF Send
  <2>3. CASE Attempt(Transaction(Kind), "sent")
    BY <1>1, <1>10, <2>3, AttemptTyped DEF Send, Types
  <2> QED BY <1>10, <2>1, <2>2, <2>3 DEF Send
<1>11. CASE Receipt
  <2>1. CASE Proceed
    BY <1>1, <1>11, <2>1, ProceedTyped DEF Receipt
  <2>2. CASE cmd' = [cmd EXCEPT !.at = "report"]
    <3>1. cmd' \in CmdType /\ cmd'.run = cmd.run /\ cmd'.req.net = cmd.req.net
      BY <1>1, <2>2 DEF CmdType, Working
    <3> QED BY <1>1, <1>11, <3>1, GoesOnTyped DEF Receipt
  <2>3. CASE Ends(Success)
    BY <1>1, <1>11, <2>3, EndsTyped DEF Receipt, Codes
  <2>4. CASE Fails
    BY <1>1, <1>11, <2>4, FailsTyped DEF Receipt
  <2> QED BY <1>11, <2>1, <2>2, <2>3, <2>4 DEF Receipt
<1>12. CASE Report
  BY <1>1, <1>12, EndsTyped, FailsTyped DEF Report, Codes
<1>13. ASSUME NEW r \in Requests, Invoke(r)
       PROVE  CommandTypeOK' /\ Aimed' /\ txs' \in Seq(Tx) /\ account' = account
  BY <1>1, <1>13, InvokeTyped DEF Types, Invoke
<1>14. CASE ApprovalAnswered
  <2>1. CASE cmd' = [cmd EXCEPT !.at = "unlimited", !.consent = TRUE]
    <3>1. cmd' \in CmdType /\ cmd'.run = cmd.run /\ cmd'.req.net = cmd.req.net
      BY <1>1, <2>1 DEF CmdType, Working
    <3> QED BY <1>1, <1>14, <3>1, GoesOnTyped DEF ApprovalAnswered
  <2>2. CASE Ends(DeniedApproval)
    BY <1>1, <1>14, <2>2, EndsTyped DEF ApprovalAnswered, Codes
  <2> QED BY <1>14, <2>1, <2>2 DEF ApprovalAnswered
<1>15. CASE Answered
  <2>1. PICK a \in Answers :
           cmd' = [cmd EXCEPT !.at = "funds", !.req = [cmd.req EXCEPT !.terms = AnswerTerms(a)]]
    BY <1>15 DEF Answered
  <2>2. AnswerTerms(a) \in [Terms -> Nat]
    <3>1. a \in Answer /\ Day \in Nat /\ Month \in Nat /\ cmd.time \in Nat
      BY <1>1, CommandLineAssumption DEF CmdType
    <3>2. RewrapSeconds(a) \in Nat /\ MaxResTime(a) \in Nat
      BY <3>1 DEF Answer, RewrapSeconds, MaxResTime
    <3> QED BY <3>1, <3>2 DEF AnswerTerms, Terms, Answer
  <2>3. [cmd.req EXCEPT !.terms = AnswerTerms(a)] \in Request
    BY <1>1, <2>2 DEF CmdType, Request
  <2>4. cmd' \in CmdType
    BY <1>1, <2>1, <2>3 DEF CmdType, Working
  <2>5. cmd'.run = cmd.run /\ cmd'.req.net = cmd.req.net
    BY <1>1, <2>1 DEF CmdType, Request
  <2> QED BY <1>1, <1>15, <2>4, <2>5, GoesOnTyped DEF Answered
<1>16. CASE Confirmed
  <2>1. CASE cmd' = [cmd EXCEPT !.at = "time"]
    <3>1. cmd' \in CmdType /\ cmd'.run = cmd.run /\ cmd'.req.net = cmd.req.net
      BY <1>1, <2>1 DEF CmdType, Working
    <3> QED BY <1>1, <1>16, <3>1, GoesOnTyped DEF Confirmed
  <2>2. ASSUME NEW b \in Bonds,
               cmd' = [cmd EXCEPT !.at = "allowance", !.req = [cmd.req EXCEPT !.amount = b]]
        PROVE  CommandTypeOK' /\ Aimed'
    <3>1. [cmd.req EXCEPT !.amount = b] \in Request
      BY <1>1, CommandLineAssumption DEF CmdType, Request
    <3>2. cmd' \in CmdType
      BY <1>1, <2>2, <3>1 DEF CmdType, Working
    <3>3. cmd'.run = cmd.run /\ cmd'.req.net = cmd.req.net
      BY <1>1, <2>2 DEF CmdType, Request
    <3> QED BY <1>1, <1>16, <3>2, <3>3, GoesOnTyped DEF Confirmed
  <2> QED BY <1>1, <1>16, <2>1, <2>2 DEF Confirmed
<1>17. CASE ConnectionCloses
  BY <1>1, <1>17, LineLostTyped DEF ConnectionCloses
<1> QED BY <1>2, <1>3, <1>4, <1>5, <1>6, <1>7, <1>8, <1>9, <1>10, <1>11, <1>12, <1>13, <1>14,
           <1>15, <1>16, <1>17 DEF CommandStep, OwnerStep

LEMMA ChainTyped ==
    ASSUME AccountTypeOK, (\E i \in DOMAIN txs : Mine(i)) \/ (\E n \in Networks : OtherUpdate(n))
    PROVE  AccountTypeOK'
<1> USE DEF AccountTypeOK
<1>1. ASSUME NEW i \in DOMAIN txs, Mine(i) PROVE AccountTypeOK'
  <2>0. i \in 1..Len(txs) /\ txs[i] \in Tx
    OBVIOUS
  <2>1. i \in 1..Len(txs) /\ txs[i] \in Tx /\ txs[i].net \in Networks
    BY <2>0 DEF Tx
  <2>2. CASE /\ Accepts(account[txs[i].net], txs[i])
             /\ account' = [account EXCEPT ![txs[i].net] = Effect(@, txs[i])]
             /\ txs' = [txs EXCEPT ![i] = [@ EXCEPT !.status = "ok"]]
    <3>1. Effect(account[txs[i].net], txs[i]) \in AccountType
      BY <2>1, <2>2, Amounts
    <3>2. [txs[i] EXCEPT !.status = "ok"] \in Tx
      BY <2>1 DEF Tx
    <3> QED BY <2>1, <2>2, <3>1, <3>2
  <2>3. CASE /\ txs' = [txs EXCEPT ![i] = [@ EXCEPT !.status = "reverted"]]
             /\ account' = account
    <3>1. [txs[i] EXCEPT !.status = "reverted"] \in Tx
      BY <2>1 DEF Tx
    <3> QED BY <2>1, <2>3, <3>1
  <2> QED BY <1>1, <2>2, <2>3 DEF Mine
<1>2. ASSUME NEW n \in Networks, OtherUpdate(n) PROVE AccountTypeOK'
  <2>1. PICK p \in OtherProfiles : account' = [account EXCEPT ![n] = [@ EXCEPT !.profile = p]]
    BY <1>2 DEF OtherUpdate
  <2>2. [account[n] EXCEPT !.profile = p] \in AccountType
    BY AccountAssumption DEF AccountType
  <2> QED BY <1>2, <2>1, <2>2 DEF OtherUpdate
<1> QED BY <1>1, <1>2

LEMMA ServiceTyped ==
    ASSUME ServiceTypeOK, EnvTypeOK, ServiceStep
    PROVE  ServiceTypeOK'
<1> USE DEF CheckSteps
<1>1. /\ service \in [at : {"off", "boot", "up", "exited"}, code : {0, 1, 2, 101, 200},
                      conf : Environments, only : Starts]
      /\ checks \in [Networks -> CheckSteps] /\ faults \in 0..MaxFaults /\ MaxFaults \in Nat
      /\ node \in {"none", "starting", "up", "stopped"} /\ env \in Environments
  BY ServiceStartAssumption DEF ServiceTypeOK, EnvTypeOK
<1>2. ASSUME NEW code \in {1, 2, 101, 200}, Exit(code), faults' \in 0..MaxFaults PROVE ServiceTypeOK'
  BY <1>1, <1>2 DEF ServiceTypeOK, Exit, NoChecks
<1>3. Fault => faults' \in 0..MaxFaults
  BY <1>1 DEF Fault
<1>4. CASE Up
  <2>1. PICK only \in Starts : service' = [service EXCEPT !.at = "boot", !.conf = env, !.only = only]
    BY <1>4 DEF Up
  <2> QED BY <1>1, <1>4, <2>1 DEF Up, ServiceTypeOK
<1>5. CASE Down
  BY <1>1, <1>3, <1>5 DEF Down, ServiceTypeOK, NoChecks
<1>6. CASE DockerRestarts
  BY <1>1, <1>6 DEF DockerRestarts, ServiceTypeOK
<1>7. CASE Boot
  <2>1. CASE Exit(1)
    BY <1>1, <1>2, <1>7, <2>1 DEF Boot
  <2>2. CASE /\ service' = [service EXCEPT !.at = "up"] /\ node' = "starting"
             /\ checks' = [n \in Networks |-> IF n \in Chosen THEN "profile" ELSE "none"]
    BY <1>1, <1>7, <2>2 DEF Boot, ServiceTypeOK
  <2> QED BY <1>7, <2>1, <2>2 DEF Boot
<1>8. CASE NodeStarts \/ NodeStops \/ NodeStartsAgain
  <2>1. CASE Fault /\ (Exit(1) \/ Exit(2))
    BY <1>2, <1>3, <2>1
  <2>2. CASE node' \in {"up", "stopped"} /\ UNCHANGED <<service, checks, faults>>
    BY <1>1, <2>2 DEF ServiceTypeOK
  <2> QED BY <1>8, <2>1, <2>2 DEF NodeStarts, NodeStops, NodeStartsAgain
<1>9. ASSUME NEW n \in Networks, CheckStep(n) PROVE ServiceTypeOK'
  <2>1. CASE \E step \in {"bond", "served"} : Checked(n, step)
    BY <1>1, <2>1 DEF Checked, ServiceTypeOK
  <2>2. CASE Exit(200) /\ UNCHANGED faults
    BY <1>1, <1>2, <2>2
  <2> QED BY <1>9, <2>1, <2>2 DEF CheckStep, ProfileFetched, BondRead
<1>10. ASSUME NEW n \in Networks, CheckFails(n) \/ NobodyCatches(n) PROVE ServiceTypeOK'
  BY <1>2, <1>3, <1>10 DEF CheckFails, NobodyCatches
<1>11. ASSUME NEW n \in Networks, CheckHangs(n) PROVE ServiceTypeOK'
  BY <1>1, <1>3, <1>11 DEF CheckHangs, ServiceTypeOK
<1> QED BY <1>4, <1>5, <1>6, <1>7, <1>8, <1>9, <1>10, <1>11 DEF ServiceStep

LEMMA StepTypes == Types /\ [Next]_vars => Types'
<1> SUFFICES ASSUME Types, [Next]_vars PROVE Types'
  OBVIOUS
<1>1. EnvTypeOK /\ AccountTypeOK /\ CommandTypeOK /\ ServiceTypeOK /\ Aimed
  BY DEF Types, TypeOK
<1>2. CASE Edit
  <2>1. EnvTypeOK'
    BY <1>1, <1>2, EnvironmentAssumption DEF Edit, EditEnv, EnvTypeOK
  <2> QED BY <1>1, <1>2, <2>1
          DEF Edit, Types, TypeOK, AccountTypeOK, CommandTypeOK, ServiceTypeOK, Aimed, Net
<1>3. CASE Mined \/ Elsewhere
  <2>1. AccountTypeOK'
    BY <1>1, <1>3, ChainTyped DEF Mined, Elsewhere
  <2>2. EnvTypeOK'
    BY <1>1, <1>3, EnvironmentAssumption DEF Mined, Elsewhere, OtherUpdate, EnvTypeOK
  <2> QED BY <1>1, <1>3, <2>1, <2>2
          DEF Mined, Elsewhere, Types, TypeOK, CommandTypeOK, ServiceTypeOK, Aimed, Net
<1>4. CASE Command
  <2>1. CommandTypeOK' /\ Aimed' /\ txs' \in Seq(Tx) /\ account' = account
    BY <1>4, CommandTyped DEF Command
  <2> QED BY <1>1, <1>4, <2>1 DEF Command, Types, TypeOK, EnvTypeOK, AccountTypeOK, ServiceTypeOK
<1>5. CASE Service
  <2>1. ServiceTypeOK'
    BY <1>1, <1>5, ServiceTyped DEF Service
  <2> QED BY <1>1, <1>5, <2>1
          DEF Service, Types, TypeOK, EnvTypeOK, AccountTypeOK, CommandTypeOK, Aimed, Net
<1>6. CASE UNCHANGED vars
  BY <1>1, <1>6 DEF vars, Types, TypeOK, EnvTypeOK, AccountTypeOK, CommandTypeOK, ServiceTypeOK,
     Aimed, Net
<1> QED BY <1>2, <1>3, <1>4, <1>5, <1>6 DEF Next

(* Type correctness of the environment, the account, the command line and the
   service's process; no command goes on without a network it is for. *)
THEOREM DeploymentTypes == Spec => []TypeOK
<1>1. Types => TypeOK
  BY DEF Types
<1> QED BY <1>1, InitTypes, StepTypes, PTL DEF Spec

-----------------------------------------------------------------------------
(* Where a command may go on to from a stage, with what that does to phase and
   tries. *)
Leads(from, to) == cmd.at \in from /\ cmd'.at \in to

SamePhase == cmd'.phase = cmd.phase

Approved ==
    /\ cmd.at \in {"allowance", "unlimited", "approving"} /\ cmd'.phase = 2 /\ cmd'.tries = 0
    /\ cmd.phase = 2 => cmd'.at = "send"
    /\ cmd.phase = 1 => cmd'.at \in {"time", "allowance", "send"}

TriedAgain ==
    /\ cmd.at \in {"approve", "send"} /\ cmd'.at = cmd.at
    /\ SamePhase /\ cmd'.tries = cmd.tries + 1

LEMMA ProceedApproves ==
    ASSUME cmd \in CmdType, Proceed, cmd.at \in {"allowance", "unlimited", "approving"}
    PROVE  Approved
<1> DEFINE next == AfterApproval
<1>1. /\ next \in {"time", "allowance", "send"}
      /\ cmd.phase = 2 => next = "send"
  BY DEF AfterApproval
<1> HIDE DEF next
<1>2. cmd' = [cmd EXCEPT !.at = next, !.phase = 2, !.tries = 0, !.tx = 0]
  BY DEF Proceed, next
<1>3. cmd'.at = next /\ cmd'.phase = 2 /\ cmd'.tries = 0
  BY <1>2 DEF CmdType
<1> QED BY <1>1, <1>3 DEF Approved

LEMMA EndedIsGone ==
    ASSUME NEW code, Ends(code)
    PROVE  cmd'.at = "none"
BY DEF Ends, Gone

LEMMA AttemptLeads ==
    ASSUME cmd \in CmdType, cmd.at \in {"approve", "send"}, cmd'.at # "none",
           NEW t, NEW next \in {"approving", "sent"}, Attempt(t, next)
    PROVE  TriedAgain \/ LosesLine \/ (cmd'.at = next /\ SamePhase)
<1>1. \/ cmd' = [cmd EXCEPT !.at = next, !.tx = Len(txs) + 1]
      \/ AttemptFails \/ LosesLine
  BY DEF Attempt
<1>2. CASE cmd' = [cmd EXCEPT !.at = next, !.tx = Len(txs) + 1]
  BY <1>2 DEF CmdType, SamePhase
<1>3. CASE AttemptFails
  <2>1. ~Fails
    BY EndedIsGone DEF Fails
  <2>2. cmd' = [cmd EXCEPT !.tries = @ + 1]
    BY <1>3, <2>1 DEF AttemptFails
  <2> QED BY <2>2 DEF CmdType, TriedAgain, SamePhase
<1> QED BY <1>1, <1>2, <1>3

LEMMA CommandLeads ==
    ASSUME cmd \in CmdType, CommandStep \/ OwnerStep, cmd.at # "none", cmd'.at # "none"
    PROVE  \/ Approved \/ TriedAgain \/ LosesLine
           \/ /\ SamePhase
              /\ \/ Leads({"profile"}, {"prompt", "send", "allowance", "balance"})
                 \/ Leads({"balance"}, {"send"}) \/ Leads({"unlimited"}, {"approve"})
                 \/ Leads({"allowance"}, {"prompt", "unlimited"})
                 \/ Leads({"prompt"}, {"unlimited"})
                 \/ Leads({"time"}, {"answers"}) \/ Leads({"answers"}, {"funds"})
                 \/ Leads({"funds"}, {"confirm"}) \/ Leads({"confirm"}, {"allowance", "time"})
                 \/ Leads({"approve"}, {"approving"})
                 \/ Leads({"send"}, {"sent"}) \/ Leads({"sent"}, {"report"})
<1> USE EndedIsGone DEF Leads, SamePhase
<1>1. CASE ProfileRead
  <2>1. SetupStage \in {"prompt", "send"}
    BY DEF SetupStage
  <2> HIDE DEF SetupStage
  <2>2. \E next \in {"prompt", "send", "allowance", "balance"} :
           \/ cmd' = [cmd EXCEPT !.at = next]
           \/ cmd' = [cmd EXCEPT !.at = next, !.read = Acct.profile]
    BY <1>1, <2>1 DEF ProfileRead
  <2> QED BY <1>1, <2>2 DEF ProfileRead, CmdType
<1>2. CASE BalanceRead
  BY <1>2 DEF BalanceRead, CmdType
<1>3. CASE AllowanceRead
  <2>1. CASE Proceed
    BY <1>3, <2>1, ProceedApproves DEF AllowanceRead
  <2>2. CASE \E next \in {"prompt", "unlimited"} : cmd' = [cmd EXCEPT !.at = next]
    BY <1>3, <2>2 DEF AllowanceRead, CmdType
  <2> QED BY <1>3, <2>1, <2>2 DEF AllowanceRead
<1>4. CASE UnlimitedRead
  <2>1. CASE Proceed
    BY <1>4, <2>1, ProceedApproves DEF UnlimitedRead
  <2>2. CASE cmd' = [cmd EXCEPT !.at = "approve", !.tries = 0]
    BY <1>4, <2>2 DEF UnlimitedRead, CmdType
  <2> QED BY <1>4, <2>1, <2>2 DEF UnlimitedRead
<1>5. CASE TimeRead \/ FundsRead
  BY <1>5 DEF TimeRead, FundsRead, CmdType
<1>6. CASE Approve
  BY <1>6, AttemptLeads DEF Approve
<1>7. CASE Send
  BY <1>7, AttemptLeads DEF Send, Fails
<1>8. CASE Receipt
  <2>1. CASE Proceed /\ cmd.at = "approving"
    BY <2>1, ProceedApproves
  <2>2. CASE cmd.at = "sent" /\ cmd' = [cmd EXCEPT !.at = "report"]
    BY <2>2 DEF CmdType
  <2> QED BY <1>8, <2>1, <2>2 DEF Receipt, Fails
<1>9. CASE ReadFails \/ Report \/ Dies
  BY <1>9 DEF ReadFails, Report, Dies, Fails
<1>10. CASE \E r \in Requests : Invoke(r)
  BY <1>10 DEF Invoke
<1>11. CASE ApprovalAnswered
  BY <1>11 DEF ApprovalAnswered, CmdType
<1>12. CASE Answered
  BY <1>12 DEF Answered, CmdType
<1>13. CASE Confirmed
  BY <1>13 DEF Confirmed, CmdType
<1>14. CASE ConnectionCloses
  BY <1>14 DEF ConnectionCloses
<1> QED BY <1>1, <1>2, <1>3, <1>4, <1>5, <1>6, <1>7, <1>8, <1>9, <1>10, <1>11, <1>12, <1>13, <1>14
        DEF CommandStep, OwnerStep

LEMMA StageStepsAre ==
    ASSUME NEW n
    PROVE  /\ StageSteps("report", n) = 1
           /\ StageSteps("sent", n) = 2
           /\ StageSteps("send", n) = 3 + n
           /\ StageSteps("approving", n) = MaxRetries + 5
           /\ StageSteps("approve", n) = MaxRetries + 6 + n
           /\ StageSteps("unlimited", n) = 2 * MaxRetries + 8
           /\ StageSteps("prompt", n) = 2 * MaxRetries + 9
           /\ StageSteps("allowance", n) = 2 * MaxRetries + 10
           /\ StageSteps("confirm", n) = 2 * MaxRetries + 11
           /\ StageSteps("funds", n) = 2 * MaxRetries + 12
           /\ StageSteps("answers", n) = 2 * MaxRetries + 13
           /\ StageSteps("time", n) = 2 * MaxRetries + 14
           /\ StageSteps("balance", n) = 2 * MaxRetries + 15
           /\ StageSteps("profile", n) = 2 * MaxRetries + 16
BY DEF StageSteps

LEMMA CommandUsesUp ==
    ASSUME Types, CommandStep \/ OwnerStep, cmd.at # "none", cmd'.at # "none", Stage' # Stage,
           ~(cmd.at = "confirm" /\ cmd'.at = "time")
    PROVE  CommandStepsLeft' \in 0 .. CommandStepsLeft - 1
<1>1. cmd \in CmdType /\ cmd' \in CmdType
  BY CommandTyped DEF Types, TypeOK, CommandTypeOK
<1>2. PICK left, left2 : left = MaxRetries + 1 - cmd.tries /\ left2 = MaxRetries + 1 - cmd'.tries
  OBVIOUS
<1>3. PICK stage, stage2 : stage = StageSteps(cmd.at, left) /\ stage2 = StageSteps(cmd'.at, left2)
  OBVIOUS
<1>4. PICK round, round2 : /\ round = (IF cmd.phase = 1 THEN MaxRetries + 10 ELSE 0)
                           /\ round2 = (IF cmd'.phase = 1 THEN MaxRetries + 10 ELSE 0)
  OBVIOUS
<1>5. CommandStepsLeft = round + stage /\ CommandStepsLeft' = round2 + stage2
  BY <1>2, <1>3, <1>4 DEF CommandStepsLeft, SecondRound
<1>6. /\ MaxRetries \in Nat /\ left \in 0..MaxRetries + 1 /\ left2 \in 0..MaxRetries + 1
      /\ cmd.phase \in 1..2 /\ cmd'.phase \in 1..2
  BY <1>1, <1>2, CommandLineAssumption DEF CmdType
<1>7. round \in Nat /\ round2 \in Nat
  BY <1>4, <1>6
<1>8. CASE Approved
  <2>1. left2 = MaxRetries + 1
    BY <1>2, <1>6, <1>8 DEF Approved
  <2>2. stage \in Int /\ stage2 \in Int /\ stage >= MaxRetries + 5 /\ 0 <= stage2
    BY <1>3, <1>6, <1>8, <2>1, StageStepsAre DEF Approved
  <2>3. CASE cmd.phase = 2
    <3>1. stage2 = MaxRetries + 4
      BY <1>3, <1>6, <1>8, <2>1, <2>3, StageStepsAre DEF Approved
    <3>2. round = 0 /\ round2 = 0
      BY <1>4, <1>8, <2>3 DEF Approved
    <3> QED BY <1>5, <1>6, <2>2, <3>1, <3>2
  <2>4. CASE cmd.phase = 1
    <3>1. stage2 <= 2 * MaxRetries + 14
      BY <1>3, <1>6, <1>8, <2>1, <2>4, StageStepsAre DEF Approved
    <3>2. round = MaxRetries + 10 /\ round2 = 0
      BY <1>4, <1>8, <2>4 DEF Approved
    <3> QED BY <1>5, <1>6, <2>2, <3>1, <3>2
  <2> QED BY <1>6, <2>3, <2>4
<1>9. CASE TriedAgain
  <2>1. left2 = left - 1
    BY <1>1, <1>2, <1>6, <1>9, CommandLineAssumption DEF TriedAgain, CmdType
  <2>2. stage \in Int /\ 0 <= stage2 /\ stage2 = stage - 1
    BY <1>3, <1>6, <1>9, <2>1, StageStepsAre DEF TriedAgain
  <2>3. round2 = round
    BY <1>4, <1>9 DEF TriedAgain, SamePhase
  <2> QED BY <1>5, <1>7, <2>2, <2>3
<1>0. ~LosesLine
  BY <1>1, LineLost DEF Stage
<1>10. CASE SamePhase /\ ~Approved /\ ~TriedAgain
  <2>1. stage \in Int /\ stage2 \in Int /\ 0 <= stage2 /\ stage2 < stage
    BY <1>0, <1>1, <1>3, <1>6, <1>10, CommandLeads, StageStepsAre DEF Leads
  <2>2. round2 = round
    BY <1>4, <1>10 DEF SamePhase
  <2> QED BY <1>5, <1>7, <2>1, <2>2
<1> QED BY <1>0, <1>1, <1>8, <1>9, <1>10, CommandLeads

(* A command ends, but for the owner's second thoughts, within a number of steps
   fixed by the retries, whatever the calls answer and whatever else changes the
   account meanwhile; on a connection that has closed it takes none at all. *)
THEOREM CommandsEnd == Spec => CommandsWindDown
<1>1. Types /\ [Next]_vars =>
        [/\ cmd.at # "none" /\ cmd'.at # "none" /\ Stage' # Stage
         /\ ~(cmd.at = "confirm" /\ cmd'.at = "time")
         => CommandStepsLeft' \in 0 .. CommandStepsLeft - 1]_vars
  <2>1. Next => (CommandStep \/ OwnerStep) \/ UNCHANGED cmd
    BY DEF Next, Edit, Mined, Elsewhere, Command, Service
  <2>2. UNCHANGED cmd => Stage' = Stage
    BY DEF Stage
  <2> QED BY <2>1, <2>2, CommandUsesUp
<1> QED BY <1>1, InitTypes, StepTypes, PTL DEF Spec, CommandsWindDown

-----------------------------------------------------------------------------
(* The owner has agreed before the stages that approve, and from the start of a
   guided registration, which does not ask again. *)
Consented ==
    /\ cmd.at \in {"unlimited", "approve"} => cmd.consent
    /\ Name = "guided" /\ cmd.at \notin {"none", "prompt"} => cmd.consent

(* Of every transaction, as it was sent. *)
TxInv(t) ==
    /\ t.kind = "approve" => t.consent
    /\ t.kind \in {"register", "update"} => t.profile.exists
    /\ t.kind = "update" =>
          \A f \in Terms \ t.given : t.profile.terms[f] = t.read.terms[f]

TxsInv == \A i \in DOMAIN txs : TxInv(txs[i])

(* A checked network is one the process was started for, with an environment it
   accepted; past fetchProfileOrExit it has a profile, which it never loses. *)
ServedInv ==
    /\ service.at = "up" =>
          /\ ValidEnvVars(service.conf) /\ ContextsBuilt(service.conf)
          /\ Chosen \subseteq service.conf.chains
    /\ \A n \in Networks :
          /\ checks[n] # "none" => service.at = "up" /\ n \in Chosen
          /\ checks[n] \in {"bond", "served"} => account[n].profile.exists

SafeInv == Types /\ Consented /\ TxsInv /\ ServedInv

-----------------------------------------------------------------------------
(* How the transactions change. *)
Appended(kind) == txs' = Append(txs, Transaction(kind))
Decided(i, status) == txs' = [txs EXCEPT ![i] = [@ EXCEPT !.status = status]]

(* What an attempt may do. *)
LEMMA AttemptSends ==
    ASSUME NEW kind, NEW next, Attempt(Transaction(kind), next)
    PROVE  /\ txs' = txs \/ (Appended(kind) /\ Accepts(Acct, Transaction(kind)))
           /\ \/ AttemptFails \/ LosesLine
              \/ Appended(kind) /\ cmd' = [cmd EXCEPT !.at = next, !.tx = Len(txs) + 1]
BY DEF Attempt, Appended

(* Only these two send. *)
LEMMA OtherStepsSendNothing ==
    ASSUME CommandStep \/ OwnerStep, ~Approve, ~Send
    PROVE  UNCHANGED txs
<1> USE DEF accountVars
<1>1. CASE CommandStep
  BY <1>1 DEF CommandStep, ProfileRead, BalanceRead, AllowanceRead, UnlimitedRead, TimeRead,
     FundsRead, ReadFails, Receipt, Report
<1>2. CASE OwnerStep
  BY <1>2 DEF OwnerStep, Invoke, ApprovalAnswered, Answered, Confirmed, Dies,
     ConnectionCloses
<1> QED BY <1>1, <1>2

LEMMA NewTransaction ==
    ASSUME Types, Consented, cmd.at # "none", NEW kind \in {"approve", Kind},
           kind = "approve" => cmd.consent
    PROVE  TxInv(Transaction(kind)) /\ Transaction(kind) \in Tx
<1>1. cmd \in CmdType /\ Net \in Networks /\ cmd.req \in Request /\ cmd.read \in Profile
  BY DEF Types, TypeOK, CommandTypeOK, Aimed, CmdType
<1>2. \A f \in Terms \ Given(cmd.req) : TermsSent(cmd.req, cmd.read)[f] = cmd.read.terms[f]
  BY <1>1, TermsSentKeep
<1>3. kind \in {"register", "update"} =>
         /\ Transaction(kind).profile.exists
         /\ Transaction(kind).profile.terms = TermsSent(cmd.req, cmd.read)
  BY DEF Transaction, ProfileSent
<1>4. /\ Transaction(kind).kind = kind /\ Transaction(kind).consent = cmd.consent
      /\ Transaction(kind).read = cmd.read /\ Transaction(kind).given = Given(cmd.req)
  BY DEF Transaction
<1> QED BY <1>1, <1>2, <1>3, <1>4, TransactionTyped DEF TxInv

LEMMA KindIsNoApproval ==
    ASSUME Types
    PROVE  Kind # "approve" /\ Kind \in Kinds
<1>1. Name \in Commands
  BY DEF Types, TypeOK, CommandTypeOK, CmdType, Request, Name
<1> QED BY <1>1 DEF Kind, Commands, Kinds

(* The transactions keep their own. *)
LEMMA TxsStep ==
    ASSUME Types, Consented, TxsInv, [Next]_vars
    PROVE  TxsInv'
<1>1. txs \in Seq(Tx)
  BY DEF Types, TypeOK, AccountTypeOK
<1>2. ASSUME NEW kind \in {"approve", Kind}, Appended(kind), TxInv(Transaction(kind)) PROVE TxsInv'
  <2>1. DOMAIN txs' = 1..Len(txs) + 1 /\ DOMAIN txs = 1..Len(txs)
    BY <1>1, <1>2 DEF Appended
  <2>2. \A i \in DOMAIN txs : txs'[i] = txs[i]
    BY <1>1, <1>2 DEF Appended
  <2>3. txs'[Len(txs) + 1] = Transaction(kind)
    BY <1>1, <1>2 DEF Appended
  <2>4. \A i \in DOMAIN txs' : i \in DOMAIN txs \/ i = Len(txs) + 1
    BY <1>1, <2>1
  <2> QED BY <1>2, <2>2, <2>3, <2>4 DEF TxsInv
<1>3. ASSUME NEW i \in DOMAIN txs, Mine(i) PROVE TxsInv'
  <2>1. PICK status : Decided(i, status)
    BY <1>3 DEF Mine, Decided
  <2>2. DOMAIN txs' = DOMAIN txs
    BY <2>1 DEF Decided
  <2>3. ASSUME NEW j \in DOMAIN txs PROVE TxInv(txs'[j])
    <3>1. txs[j] \in Tx /\ TxInv(txs[j])
      BY <1>1 DEF TxsInv
    <3>2. /\ txs'[j].kind = txs[j].kind /\ txs'[j].consent = txs[j].consent
          /\ txs'[j].profile = txs[j].profile /\ txs'[j].read = txs[j].read
          /\ txs'[j].given = txs[j].given
      BY <2>1, <3>1 DEF Decided, Tx
    <3> QED BY <3>1, <3>2 DEF TxInv
  <2> QED BY <2>2, <2>3 DEF TxsInv
<1>4. CASE Command
  <2>1. CASE Approve
    <3>1. cmd.at # "none" /\ cmd.consent
      BY <2>1 DEF Approve, Consented
    <3>2. TxInv(Transaction("approve"))
      BY <3>1, NewTransaction
    <3>3. txs' = txs \/ Appended("approve")
      BY <2>1, AttemptSends DEF Approve
    <3> QED BY <1>2, <3>2, <3>3 DEF TxsInv
  <2>2. CASE Send
    <3>1. TxInv(Transaction(Kind))
      BY <2>2, NewTransaction, KindIsNoApproval DEF Send
    <3>2. txs' = txs \/ Appended(Kind)
      BY <2>2, AttemptSends DEF Send
    <3> QED BY <1>2, <3>1, <3>2 DEF TxsInv
  <2>3. CASE ~Approve /\ ~Send
    BY <1>4, <2>3, OtherStepsSendNothing DEF Command, TxsInv
  <2> QED BY <2>1, <2>2, <2>3
<1>5. CASE txs' = txs
  BY <1>5 DEF TxsInv
<1> QED BY <1>3, <1>4, <1>5 DEF Next, Edit, Mined, Elsewhere, OtherUpdate, Service, vars

-----------------------------------------------------------------------------
(* Consent. *)

LEMMA EndedConsents ==
    ASSUME NEW code, Ends(code)
    PROVE  Consented'
BY DEF Ends, Gone, NoRequest, Consented, Name

LEMMA FailedConsents ==
    ASSUME Fails
    PROVE  Consented'
BY EndedConsents DEF Fails

LEMMA AttemptConsents ==
    ASSUME Types, Consented, cmd.at \in {"approve", "send"}, NEW kind,
           NEW next \in {"approving", "sent"}, Attempt(Transaction(kind), next)
    PROVE  Consented'
<1>1. cmd \in CmdType
  BY DEF Types, TypeOK, CommandTypeOK
<1>2. CASE Fails
  BY <1>2, FailedConsents
<1>3. CASE cmd' = [cmd EXCEPT !.tries = @ + 1]
  BY <1>1, <1>3 DEF Consented, CmdType, Name
<1>4. CASE cmd' = [cmd EXCEPT !.at = next, !.tx = Len(txs) + 1]
  BY <1>1, <1>4 DEF Consented, CmdType, Name
<1>5. CASE LosesLine
  BY <1>1, <1>5, LineLost DEF Consented, Name
<1> QED BY <1>2, <1>3, <1>4, <1>5, AttemptSends DEF AttemptFails

LEMMA ProceedConsents ==
    ASSUME Types, Consented, cmd.at \notin {"none", "prompt"}, Proceed
    PROVE  Consented'
<1>1. cmd \in CmdType
  BY DEF Types, TypeOK, CommandTypeOK
<1>2. AfterApproval \in {"time", "allowance", "send"}
  BY DEF AfterApproval
<1>3. cmd' = [cmd EXCEPT !.at = AfterApproval, !.phase = 2, !.tries = 0, !.tx = 0]
  BY DEF Proceed
<1> HIDE DEF AfterApproval
<1> QED BY <1>1, <1>2, <1>3 DEF Consented, CmdType, Name

LEMMA ConsentStep ==
    ASSUME Types, Consented, [Next]_vars
    PROVE  Consented'
<1> USE DEF accountVars
<1>1. cmd \in CmdType
  BY DEF Types, TypeOK, CommandTypeOK
(* A stage that is left for one where nothing is approved, or with the owner's consent. *)
<1>2. ASSUME NEW stage \in Working \cup Interactive, stage \notin {"unlimited", "approve"},
             cmd.at \notin {"none", "prompt"}, cmd'.at = stage, cmd'.req.name = cmd.req.name,
             cmd'.consent = cmd.consent
      PROVE  Consented'
  BY <1>2 DEF Consented, Name
<1>3. CASE ReadFails \/ Dies
  BY <1>3, EndedConsents DEF ReadFails, Dies
<1>4. CASE ProfileRead
  <2>1. CASE Ends(Success) \/ Ends(NoOnchainProfile)
    BY <2>1, EndedConsents
  <2>2. cmd.at = "profile"
    BY <1>4 DEF ProfileRead
  <2>5. ASSUME NEW stage \in {"prompt", "send", "allowance", "balance"},
               cmd' = [cmd EXCEPT !.at = stage]
        PROVE  Consented'
    BY <1>1, <2>2, <2>5 DEF Consented, CmdType, Name
  <2>6. ASSUME NEW stage \in {"prompt", "send"}, NEW read,
               cmd' = [cmd EXCEPT !.at = stage, !.read = read]
        PROVE  Consented'
    BY <1>1, <2>2, <2>6 DEF Consented, CmdType, Name
  <2>3. SetupStage \in {"prompt", "send"}
    BY DEF SetupStage
  <2>4. \/ Ends(Success) \/ Ends(NoOnchainProfile)
        \/ cmd' = [cmd EXCEPT !.at = SetupStage]
        \/ cmd' = [cmd EXCEPT !.at = SetupStage, !.read = Acct.profile]
        \/ \E stage \in {"allowance", "balance", "send"} : cmd' = [cmd EXCEPT !.at = stage]
    BY <1>4 DEF ProfileRead
  <2> HIDE DEF SetupStage, Acct
  <2> QED BY <2>1, <2>3, <2>4, <2>5, <2>6
<1>5. CASE BalanceRead
  <2>1. cmd.at = "balance" /\ cmd'.at = "send" /\ cmd'.consent = cmd.consent
    BY <1>1, <1>5 DEF BalanceRead, CmdType
  <2>2. cmd'.req = [cmd.req EXCEPT !.amount = Acct.bond] /\ cmd.req \in Request
    BY <1>1, <1>5 DEF BalanceRead, CmdType
  <2>3. cmd'.req.name = cmd.req.name
    BY <2>2 DEF Request
  <2> QED BY <1>2, <2>1, <2>3 DEF Working
<1>6. CASE AllowanceRead
  <2>1. cmd.at = "allowance"
    BY <1>6 DEF AllowanceRead
  <2>2. CASE Proceed
    BY <2>1, <2>2, ProceedConsents
  <2>3. CASE cmd' = [cmd EXCEPT !.at = IF Name = "guided" THEN "unlimited" ELSE "prompt"]
    BY <1>1, <2>1, <2>3 DEF Consented, CmdType, Name
  <2> QED BY <1>6, <2>2, <2>3 DEF AllowanceRead
<1>7. CASE UnlimitedRead
  <2>1. cmd.at = "unlimited"
    BY <1>7 DEF UnlimitedRead
  <2>2. CASE Proceed
    BY <2>1, <2>2, ProceedConsents
  <2>3. CASE cmd' = [cmd EXCEPT !.at = "approve", !.tries = 0]
    BY <1>1, <2>1, <2>3 DEF Consented, CmdType, Name
  <2> QED BY <1>7, <2>2, <2>3 DEF UnlimitedRead
<1>8. CASE TimeRead \/ FundsRead
  BY <1>1, <1>8 DEF TimeRead, FundsRead, Consented, CmdType, Name
<1>9. CASE Approve
  BY <1>9, AttemptConsents DEF Approve
<1>10. CASE Send
  BY <1>10, AttemptConsents, EndedConsents, FailedConsents DEF Send
<1>11. CASE Receipt
  <2>1. cmd.at \in {"approving", "sent"}
    BY <1>11 DEF Receipt
  <2>2. CASE Proceed
    BY <2>1, <2>2, ProceedConsents
  <2>3. CASE cmd' = [cmd EXCEPT !.at = "report"]
    BY <1>1, <2>1, <2>3 DEF Consented, CmdType, Name
  <2> QED BY <1>11, <2>2, <2>3, EndedConsents, FailedConsents DEF Receipt
<1>12. CASE Report
  BY <1>12, EndedConsents, FailedConsents DEF Report
<1>13. ASSUME NEW r \in Requests, Invoke(r) PROVE Consented'
  <2>1. CASE cmd' \in {Gone(cmd.run + 1, Success), Gone(cmd.run + 1, BadEnv)}
    BY <2>1 DEF Gone, NoRequest, Consented, Name
  <2>2. CASE cmd' = [Gone(cmd.run + 1, Absent) EXCEPT
                        !.at = IF r.name = "guided" THEN "prompt" ELSE "profile",
                        !.req = r, !.domain = env.domain]
    BY <2>2 DEF Gone, Consented, Name
  <2> QED BY <1>13, <2>1, <2>2 DEF Invoke
<1>14. CASE ApprovalAnswered
  BY <1>1, <1>14, EndedConsents DEF ApprovalAnswered, Consented, CmdType
<1>15. CASE Answered
  <2>1. PICK a \in Answers :
           cmd' = [cmd EXCEPT !.at = "funds", !.req = [cmd.req EXCEPT !.terms = AnswerTerms(a)]]
    BY <1>15 DEF Answered
  <2>2. cmd'.at = "funds" /\ cmd'.req = [cmd.req EXCEPT !.terms = AnswerTerms(a)]
        /\ cmd'.consent = cmd.consent /\ cmd.req \in Request
    BY <1>1, <2>1 DEF CmdType
  <2>3. cmd'.req.name = cmd.req.name
    BY <2>2 DEF Request
  <2> QED BY <1>2, <1>15, <2>2, <2>3 DEF Answered, Working
<1>16. CASE Confirmed
  <2>1. CASE cmd' = [cmd EXCEPT !.at = "time"]
    BY <1>1, <1>16, <2>1 DEF Confirmed, Consented, CmdType, Name
  <2>2. ASSUME NEW b \in Bonds,
               cmd' = [cmd EXCEPT !.at = "allowance", !.req = [cmd.req EXCEPT !.amount = b]]
        PROVE  Consented'
    <3>1. cmd'.at = "allowance" /\ cmd'.req = [cmd.req EXCEPT !.amount = b]
          /\ cmd'.consent = cmd.consent /\ cmd.req \in Request
      BY <1>1, <2>2 DEF CmdType
    <3>2. cmd'.req.name = cmd.req.name
      BY <3>1 DEF Request
    <3> QED BY <1>2, <1>16, <3>1, <3>2 DEF Confirmed, Working
  <2> QED BY <1>16, <2>1, <2>2 DEF Confirmed
<1>17. CASE UNCHANGED cmd
  BY <1>17 DEF Consented, Name
<1>18. CASE ConnectionCloses
  BY <1>1, <1>18, LineLost DEF ConnectionCloses, Consented, Name
<1> QED BY <1>3, <1>4, <1>5, <1>6, <1>7, <1>8, <1>9, <1>10, <1>11, <1>12, <1>13, <1>14, <1>15,
           <1>16, <1>17, <1>18
        DEF Next, Edit, Mined, Elsewhere, Command, CommandStep, OwnerStep, Service, vars

-----------------------------------------------------------------------------
(* Profiles stay, and so does what is served. *)

LEMMA ProfilesStay ==
    ASSUME Types, TxsInv, [Next]_vars, NEW n \in Networks, account[n].profile.exists
    PROVE  account'[n].profile.exists
<1>1. account \in [Networks -> AccountType] /\ txs \in Seq(Tx)
  BY DEF Types, TypeOK, AccountTypeOK
<1>2. ASSUME NEW i \in DOMAIN txs, Mine(i) PROVE account'[n].profile.exists
  <2>1. txs[i] \in Tx /\ TxInv(txs[i])
    BY <1>1 DEF TxsInv
  <2>2. CASE account' = [account EXCEPT ![txs[i].net] = Effect(account[txs[i].net], txs[i])]
             /\ txs[i].net = n
    <3>1. Effect(account[n], txs[i]).profile.exists
      <4>1. txs[i].kind \in Kinds /\ account[n] \in AccountType
        BY <1>1, <2>1 DEF Tx
      <4>2. CASE txs[i].kind \in {"register", "update"}
        BY <2>1, <4>1, <4>2 DEF Effect, Deposited, AccountType, TxInv
      <4>3. CASE txs[i].kind \notin {"register", "update"}
        BY <4>1, <4>3 DEF Effect, Deposited, AccountType, Kinds
      <4> QED BY <4>2, <4>3
    <3> QED BY <1>1, <2>2, <3>1
  <2> QED BY <1>1, <1>2, <2>2 DEF Mine
<1>3. ASSUME NEW m \in Networks, OtherUpdate(m) PROVE account'[n].profile.exists
  <2>1. PICK p \in OtherProfiles : account' = [account EXCEPT ![m] = [@ EXCEPT !.profile = p]]
    BY <1>3 DEF OtherUpdate
  <2>2. p.exists
    BY AccountAssumption
  <2> QED BY <1>1, <2>1, <2>2 DEF AccountType
<1>4. CASE Command
  BY <1>4, CommandTyped DEF Command
<1> QED BY <1>2, <1>3, <1>4 DEF Next, Edit, Mined, Elsewhere, Service, vars

LEMMA ServedStep ==
    ASSUME Types, TxsInv, ServedInv, [Next]_vars
    PROVE  ServedInv'
<1>1. /\ service \in [at : {"off", "boot", "up", "exited"}, code : {0, 1, 2, 101, 200},
                       conf : Environments, only : Starts]
      /\ checks \in [Networks -> CheckSteps]
  BY DEF Types, TypeOK, ServiceTypeOK
<1>2. \A n \in Networks : account[n].profile.exists => account'[n].profile.exists
  BY ProfilesStay
<1>3. CASE UNCHANGED <<service, checks>>
  BY <1>2, <1>3 DEF ServedInv, Chosen
<1>4. ASSUME NEW code, Exit(code) PROVE ServedInv'
  BY <1>1, <1>4 DEF Exit, NoChecks, ServedInv
<1>5. CASE Up \/ DockerRestarts
  <2>1. service.at # "up" /\ checks' = checks
    BY <1>5 DEF Up, DockerRestarts
  <2>2. service'.at = "boot"
    <3>1. CASE Up
      <4>1. PICK only \in Starts :
               service' = [service EXCEPT !.at = "boot", !.conf = env, !.only = only]
        BY <3>1 DEF Up
      <4> QED BY <1>1, <4>1
    <3>2. CASE DockerRestarts
      <4>1. service' = [service EXCEPT !.at = "boot", !.code = 0]
        BY <3>2 DEF DockerRestarts
      <4> QED BY <1>1, <4>1
    <3> QED BY <1>5, <3>1, <3>2
  <2> QED BY <2>1, <2>2 DEF ServedInv
<1>6. CASE Down
  BY <1>1, <1>6 DEF Down, NoChecks, ServedInv
<1>7. CASE Boot
  <2>1. CASE /\ Bootable /\ service' = [service EXCEPT !.at = "up"]
             /\ checks' = [n \in Networks |-> IF n \in Chosen THEN "profile" ELSE "none"]
    <3>1. service'.at = "up" /\ service'.conf = service.conf /\ service'.only = service.only
      BY <1>1, <2>1
    <3>2. Chosen' = Chosen
      BY <3>1 DEF Chosen
    <3> QED BY <2>1, <3>1, <3>2 DEF Bootable, ServedInv
  <2> QED BY <1>4, <1>7, <2>1 DEF Boot
<1>8. ASSUME NEW n \in Networks, CheckStep(n) PROVE ServedInv'
  <2>1. CASE ProfileFetched(n) /\ account[n].profile.exists /\ Checked(n, "bond")
    BY <1>1, <1>2, <2>1 DEF ProfileFetched, Checked, ServedInv, Chosen
  <2>2. CASE BondRead(n)
    BY <1>1, <1>2, <2>2 DEF BondRead, Checked, ServedInv, Chosen
  <2> QED BY <1>4, <1>8, <2>1, <2>2 DEF CheckStep, ProfileFetched
<1>10. ASSUME NEW n \in Networks, CheckHangs(n) PROVE ServedInv'
  BY <1>1, <1>2, <1>10 DEF CheckHangs, ServedInv, Chosen
<1>9. CASE Service
  BY <1>3, <1>4, <1>5, <1>6, <1>7, <1>8, <1>9, <1>10
     DEF Service, ServiceStep, NodeStarts, NodeStops, NodeStartsAgain, CheckFails, NobodyCatches
<1> QED BY <1>3, <1>9 DEF Next, Edit, Mined, Elsewhere, Command, vars

LEMMA ServedIsSafe == Types /\ ServedInv => ServedWithProfile
<1> SUFFICES ASSUME Types, ServedInv, NEW n \in Networks, checks[n] = "served"
             PROVE  /\ account[n].profile.exists
                    /\ n \in service.conf.chains
                    /\ \A m \in service.conf.chains \ (Local \cup {n}) :
                          n \notin Local => service.conf.mnemonic[m] # service.conf.mnemonic[n]
  BY DEF ServedWithProfile
<1>1. service.at = "up" /\ n \in service.conf.chains /\ account[n].profile.exists
  BY DEF ServedInv
<1>2. ValidEnvVars(service.conf) /\ ContextsBuilt(service.conf)
  BY <1>1 DEF ServedInv
<1>3. service.conf \in Environment
  BY EnvironmentAssumption DEF Types, TypeOK, ServiceTypeOK
<1>4. service.conf.chains \subseteq Networks
  BY <1>3 DEF Environment
<1>5. ASSUME NEW m \in service.conf.chains \ (Local \cup {n}), n \notin Local
      PROVE  service.conf.mnemonic[m] # service.conf.mnemonic[n]
  <2>1. Distinct(service.conf, Networks \ Local)
    BY <1>2 DEF ValidEnvVars
  <2>2. service.conf.mnemonic[m] \notin Unusable
    BY <1>2, EnvironmentAssumption DEF ContextsBuilt
  <2> QED BY <1>4, <1>5, <2>1, <2>2 DEF Distinct
<1> QED BY <1>1, <1>5

-----------------------------------------------------------------------------
LEMMA InitSafe == Init => SafeInv
<1> SUFFICES ASSUME Init PROVE SafeInv
  OBVIOUS
<1>1. Consented
  BY DEF Init, CommandInit, Gone, NoRequest, Consented, Name
<1>2. TxsInv
  BY DEF Init, AccountInit, TxsInv
<1>3. ServedInv
  BY DEF Init, ServiceInit, NoChecks, ServedInv
<1> QED BY <1>1, <1>2, <1>3, InitTypes DEF SafeInv

(* The inductive invariant behind the promises below. *)
THEOREM SafeInvariant == Spec => []SafeInv
<1>1. SafeInv /\ [Next]_vars => SafeInv'
  BY StepTypes, ConsentStep, TxsStep, ServedStep DEF SafeInv
<1> QED BY <1>1, InitSafe, PTL DEF Spec

(* Every approval on its way to the chain has the owner's consent. *)
THEOREM ApprovalsConsented == Spec => []ConsentedApproval
<1>1. SafeInv => ConsentedApproval
  BY DEF SafeInv, TxsInv, TxInv, ConsentedApproval
<1> QED BY <1>1, SafeInvariant, PTL

(* What an update is not told to change it sends as it was read, through the
   conversion of the fee to a month and back. *)
THEOREM UpdatesKeepTheRest == Spec => []UpdateKeepsTheRest
<1>1. SafeInv => UpdateKeepsTheRest
  BY DEF SafeInv, TxsInv, TxInv, UpdateKeepsTheRest
<1> QED BY <1>1, SafeInvariant, PTL

(* A served network has a profile and a mnemonic of its own. *)
THEOREM ServedProperly == Spec => []ServedWithProfile
<1>1. SafeInv => ServedWithProfile
  BY ServedIsSafe DEF SafeInv
<1> QED BY <1>1, SafeInvariant, PTL

=============================================================================
