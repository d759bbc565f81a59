------------------------- MODULE DeploymentBooksProofs -------------------------
(***************************************************************************)
(* What SUCCESS means and how many transactions a command may cost, from    *)
(* what is known of the transactions at each stage of the command.          *)
(***************************************************************************)
EXTENDS DeploymentProofs, FiniteSetTheorems

Last == Len(txs)

(* The transactions of a command are for its network, of its kind, and sent
   after those of earlier commands; the one it waits for is the last of all. *)
SentInv ==
    /\ \A i \in DOMAIN txs : txs[i].run <= cmd.run
    /\ cmd.at # "none" =>
          \A i \in SentBy(cmd.run) : txs[i].net = Net /\ txs[i].kind \in {"approve", Kind}
    /\ cmd.at = "profile" => SentBy(cmd.run) = {}
    /\ cmd.at \in {"approving", "sent", "report"} => Last > 0 /\ txs[Last].run = cmd.run
    /\ cmd.at \in {"approving", "sent"} => cmd.tx = Last
    /\ cmd.at = "approving" => txs[Last].kind = "approve"
    /\ cmd.at = "report" => txs[Last].status = "ok"

(* Of one network the transactions are decided in their order. *)
Ordered ==
    \A i, j \in DOMAIN txs :
        i < j /\ txs[i].net = txs[j].net /\ txs[j].status # "pending" => txs[i].status # "pending"

Books == SentInv /\ Ordered /\ SuccessSettled

(* Stages in which nothing is awaited of a transaction. *)
Thinking ==
    Interactive \cup {"balance", "allowance", "unlimited", "approve", "time", "funds", "send"}

-----------------------------------------------------------------------------
(* The shapes of a step of the command line. *)

EndsBadly == \E code \in Codes \ {Success} : Ends(code)

EndsWell ==
    /\ Ends(Success)
    /\ \/ cmd.at \in {"profile", "report"}
       \/ cmd.at = "sent" /\ txs[cmd.tx].status = "ok"

Same == cmd'.run = cmd.run /\ cmd'.req.net = cmd.req.net /\ cmd'.req.name = cmd.req.name

GoesOn ==
    /\ cmd.at \notin {"none", "approve", "send", "sent", "report"}
    /\ cmd'.at \in Thinking /\ Same
    /\ cmd.at = "approving" => txs[cmd.tx].status = "ok"
    /\ cmd'.at = "approve" =>
          cmd.at = "unlimited" /\ Acct.allowance < Unlimited /\ cmd'.tries = 0

ToReport ==
    /\ cmd.at = "sent" /\ cmd'.at = "report" /\ Same
    /\ txs[cmd.tx].status = "ok"

AttemptKind == IF cmd.at = "approve" THEN "approve" ELSE Kind

Tries ==
    /\ cmd.at \in {"approve", "send"} /\ cmd.live
    /\ txs' = txs \/ Appended(AttemptKind)
    /\ \/ AttemptFails
       \/ LosesLine
       \/ /\ Appended(AttemptKind)
          /\ cmd' = [cmd EXCEPT !.at = IF cmd.at = "approve" THEN "approving" ELSE "sent",
                                !.tx = Last + 1]

Begins ==
    /\ cmd.at = "none" /\ cmd'.run = cmd.run + 1
    /\ cmd'.at \in {"none", "prompt", "profile"}

LEMMA SameKind ==
    ASSUME Same
    PROVE  Net' = Net /\ Kind' = Kind /\ Name' = Name
BY DEF Same, Net, Kind, Name

LEMMA ProceedShape ==
    ASSUME Types, Proceed, cmd.at \in {"allowance", "unlimited", "approving"},
           cmd.at = "approving" => txs[cmd.tx].status = "ok"
    PROVE  GoesOn
<1>1. cmd \in CmdType
  BY DEF Types, TypeOK, CommandTypeOK
<1>2. AfterApproval \in {"time", "allowance", "send"}
  BY DEF AfterApproval
<1>3. cmd' = [cmd EXCEPT !.at = AfterApproval, !.phase = 2, !.tries = 0, !.tx = 0]
  BY DEF Proceed
<1> HIDE DEF AfterApproval
<1> QED BY <1>1, <1>2, <1>3 DEF GoesOn, Same, Thinking, Interactive, CmdType

LEMMA Shapes ==
    ASSUME Types, CommandStep \/ OwnerStep
    PROVE  \/ (EndsBadly \/ EndsWell \/ GoesOn \/ ToReport \/ Begins) /\ UNCHANGED txs
           \/ cmd.at # "none" /\ LosesLine /\ UNCHANGED txs
           \/ Tries
<1> USE DEF accountVars
<1>1. cmd \in CmdType /\ cmd.req \in Request
  BY DEF Types, TypeOK, CommandTypeOK, CmdType
<1>2. \A code \in Codes \ {Success} : Ends(code) => EndsBadly
  BY DEF EndsBadly
<1>3. Fails => EndsBadly
  BY <1>2 DEF Fails, Codes, Success, BadEnv, RpcException
<1>4. CASE ReadFails \/ Dies
  BY <1>2, <1>4 DEF ReadFails, Dies, Codes, Success, BadEnv, Interrupted
<1>5. CASE ProfileRead
  <2>1. cmd.at = "profile" /\ UNCHANGED txs
    BY <1>5 DEF ProfileRead
  <2>2. CASE Ends(Success)
    BY <2>1, <2>2 DEF EndsWell
  <2>3. CASE Ends(NoOnchainProfile)
    BY <1>2, <2>1, <2>3 DEF Codes, Success, NoOnchainProfile
  <2>4. ASSUME NEW stage \in {"prompt", "send", "allowance", "balance"},
               cmd' = [cmd EXCEPT !.at = stage]
        PROVE  GoesOn
    BY <1>1, <2>1, <2>4 DEF GoesOn, Same, Thinking, Interactive, CmdType
  <2>5. ASSUME NEW stage \in {"prompt", "send"}, NEW read,
               cmd' = [cmd EXCEPT !.at = stage, !.read = read]
        PROVE  GoesOn
    BY <1>1, <2>1, <2>5 DEF GoesOn, Same, Thinking, Interactive, CmdType
  <2>6. SetupStage \in {"prompt", "send"}
    BY DEF SetupStage
  <2>7. \/ Ends(Success) \/ Ends(NoOnchainProfile)
        \/ cmd' = [cmd EXCEPT !.at = SetupStage]
        \/ cmd' = [cmd EXCEPT !.at = SetupStage, !.read = Acct.profile]
        \/ \E stage \in {"allowance", "balance", "send"} : cmd' = [cmd EXCEPT !.at = stage]
    BY <1>5 DEF ProfileRead
  <2> HIDE DEF SetupStage, Acct
  <2> QED BY <2>1, <2>2, <2>3, <2>4, <2>5, <2>6, <2>7
<1>6. CASE BalanceRead
  <2>1. cmd.at = "balance" /\ cmd'.at = "send" /\ cmd'.run = cmd.run /\ UNCHANGED txs
        /\ cmd'.req = [cmd.req EXCEPT !.amount = Acct.bond]
    BY <1>1, <1>6 DEF BalanceRead, CmdType
  <2>2. Same
    BY <1>1, <2>1 DEF Same, Request
  <2> QED BY <2>1, <2>2 DEF GoesOn, Thinking
<1>7. CASE AllowanceRead
  <2>1. cmd.at = "allowance" /\ UNCHANGED txs
    BY <1>7 DEF AllowanceRead
  <2>2. CASE Proceed
    BY <2>1, <2>2, ProceedShape
  <2>3. ASSUME NEW stage \in {"unlimited", "prompt"}, cmd' = [cmd EXCEPT !.at = stage] PROVE GoesOn
    BY <1>1, <2>1, <2>3 DEF GoesOn, Same, Thinking, Interactive, CmdType
  <2> QED BY <1>7, <2>1, <2>2, <2>3 DEF AllowanceRead
<1>8. CASE UnlimitedRead
  <2>1. cmd.at = "unlimited" /\ UNCHANGED txs
    BY <1>8 DEF UnlimitedRead
  <2>2. CASE Proceed
    BY <2>1, <2>2, ProceedShape
  <2>3. CASE Acct.allowance < Unlimited /\ cmd' = [cmd EXCEPT !.at = "approve", !.tries = 0]
    BY <1>1, <2>1, <2>3 DEF GoesOn, Same, Thinking, Interactive, CmdType
  <2> QED BY <1>8, <2>1, <2>2, <2>3 DEF UnlimitedRead
<1>9. CASE TimeRead \/ FundsRead
  BY <1>1, <1>9 DEF TimeRead, FundsRead, GoesOn, Same, Thinking, Interactive, CmdType
<1>10. CASE Approve /\ cmd.live
  <2>1. cmd.at = "approve" /\ Attempt(Transaction("approve"), "approving")
    BY <1>10 DEF Approve
  <2> QED BY <1>10, <2>1, AttemptSends DEF Tries, AttemptKind, Last
<1>11. CASE Send
  <2>1. cmd.at = "send"
    BY <1>11 DEF Send
  <2>2. CASE cmd.live /\ Attempt(Transaction(Kind), "sent")
    BY <2>1, <2>2, AttemptSends DEF Tries, AttemptKind, Last
  <2>3. CASE (Ends(BadEnv) \/ Fails) /\ UNCHANGED txs
    BY <1>2, <1>3, <2>3 DEF Codes, Success, BadEnv
  <2> QED BY <1>11, <2>2, <2>3 DEF Send
<1>12. CASE Receipt
  <2>1. cmd.at \in {"approving", "sent"} /\ UNCHANGED txs
    BY <1>12 DEF Receipt
  <2>2. CASE txs[cmd.tx].status = "ok" /\ cmd.at = "approving" /\ Proceed
    BY <2>1, <2>2, ProceedShape
  <2>3. CASE txs[cmd.tx].status = "ok" /\ cmd.at = "sent" /\ cmd' = [cmd EXCEPT !.at = "report"]
    BY <1>1, <2>1, <2>3 DEF ToReport, Same, CmdType
  <2>4. CASE txs[cmd.tx].status = "ok" /\ cmd.at = "sent" /\ Ends(Success)
    BY <2>1, <2>4 DEF EndsWell
  <2>5. CASE Fails
    BY <1>3, <2>1, <2>5
  <2> QED BY <1>12, <2>1, <2>2, <2>3, <2>4, <2>5 DEF Receipt
<1>13. CASE Report
  <2>1. cmd.at = "report" /\ UNCHANGED txs /\ (Ends(Success) \/ Fails)
    BY <1>13 DEF Report
  <2> QED BY <1>3, <2>1 DEF EndsWell
<1>14. ASSUME NEW r \in Requests, Invoke(r) PROVE Begins /\ UNCHANGED txs
  <2>1. CASE cmd' \in {Gone(cmd.run + 1, Success), Gone(cmd.run + 1, BadEnv)}
    BY <1>14, <2>1 DEF Invoke, Gone, Begins
  <2>2. CASE cmd' = [Gone(cmd.run + 1, Absent) EXCEPT
                        !.at = IF r.name = "guided" THEN "prompt" ELSE "profile",
                        !.req = r, !.domain = env.domain]
    BY <1>14, <2>2 DEF Invoke, Gone, Begins
  <2> QED BY <1>14, <2>1, <2>2 DEF Invoke
<1>15. CASE ApprovalAnswered
  <2>1. cmd.at = "prompt" /\ UNCHANGED txs
    BY <1>15 DEF ApprovalAnswered
  <2>2. CASE Ends(DeniedApproval)
    BY <1>2, <2>1, <2>2 DEF Codes, Success, DeniedApproval
  <2>3. CASE cmd' = [cmd EXCEPT !.at = "unlimited", !.consent = TRUE]
    BY <1>1, <2>1, <2>3 DEF GoesOn, Same, Thinking, CmdType
  <2> QED BY <1>15, <2>1, <2>2, <2>3 DEF ApprovalAnswered
<1>16. CASE Answered
  <2>1. PICK a \in Answers :
           cmd' = [cmd EXCEPT !.at = "funds", !.req = [cmd.req EXCEPT !.terms = AnswerTerms(a)]]
    BY <1>16 DEF Answered
  <2>2. cmd.at = "answers" /\ cmd'.at = "funds" /\ cmd'.run = cmd.run /\ UNCHANGED txs
        /\ cmd'.req = [cmd.req EXCEPT !.terms = AnswerTerms(a)]
    BY <1>1, <1>16, <2>1 DEF Answered, CmdType
  <2>3. Same
    BY <1>1, <2>2 DEF Same, Request
  <2> QED BY <2>2, <2>3 DEF GoesOn, Thinking
<1>17. CASE Confirmed
  <2>1. cmd.at = "confirm" /\ UNCHANGED txs
    BY <1>17 DEF Confirmed
  <2>2. CASE cmd' = [cmd EXCEPT !.at = "time"]
    BY <1>1, <2>1, <2>2 DEF GoesOn, Same, Thinking, CmdType
  <2>3. ASSUME NEW b \in Bonds,
               cmd' = [cmd EXCEPT !.at = "allowance", !.req = [cmd.req EXCEPT !.amount = b]]
        PROVE  GoesOn
    <3>1. cmd'.at = "allowance" /\ cmd'.run = cmd.run /\ cmd'.req = [cmd.req EXCEPT !.amount = b]
      BY <1>1, <2>3 DEF CmdType
    <3>2. Same
      BY <1>1, <3>1 DEF Same, Request
    <3> QED BY <2>1, <3>1, <3>2 DEF GoesOn, Thinking
  <2> QED BY <1>17, <2>1, <2>2, <2>3 DEF Confirmed
<1>18. CASE ConnectionCloses
  BY <1>18 DEF ConnectionCloses
<1> QED BY <1>4, <1>5, <1>6, <1>7, <1>8, <1>9, <1>10, <1>11, <1>12, <1>13, <1>14, <1>15,
           <1>16, <1>17, <1>18 DEF CommandStep, OwnerStep

-----------------------------------------------------------------------------
(* How the books change with the transactions. *)

LEMMA AppendFacts ==
    ASSUME Types, NEW kind, Appended(kind)
    PROVE  /\ Last' = Last + 1 /\ Last \in Nat
           /\ DOMAIN txs = 1..Last /\ DOMAIN txs' = 1..Last + 1
           /\ \A i \in DOMAIN txs : txs'[i] = txs[i]
           /\ txs'[Last + 1] = Transaction(kind)
<1>1. txs \in Seq(Tx)
  BY DEF Types, TypeOK, AccountTypeOK
<1> QED BY <1>1 DEF Appended, Last

LEMMA NewFacts ==
    ASSUME NEW kind
    PROVE  /\ Transaction(kind).run = cmd.run /\ Transaction(kind).net = Net
           /\ Transaction(kind).kind = kind /\ Transaction(kind).status = "pending"
BY DEF Transaction

(* A step that ends a command other than well: nothing is claimed. *)
LEMMA EndsBooks ==
    ASSUME Types, SentInv, Ordered, NEW code, Ends(code), cmd.at # "none",
           txs' = txs \/ Appended(AttemptKind)
    PROVE  SentInv' /\ Ordered'
<1>1. cmd'.at = "none" /\ cmd'.run = cmd.run
  BY DEF Ends, Gone
<1>2. CASE txs' = txs
  BY <1>1, <1>2 DEF SentInv, Ordered, SentBy, Last
<1>3. CASE Appended(AttemptKind)
  <2>1. \A i \in DOMAIN txs' : i \in DOMAIN txs \/ i = Last + 1
    BY <1>3, AppendFacts
  <2>2. \A i \in DOMAIN txs' : txs'[i].run <= cmd.run
    <3>1. cmd.run \in Nat /\ cmd.run <= cmd.run
      BY DEF Types, TypeOK, CommandTypeOK, CmdType
    <3> QED BY <1>3, <2>1, <3>1, AppendFacts, NewFacts DEF SentInv
  <2>3. Ordered'
    BY <1>3, <2>1, AppendFacts, NewFacts DEF Ordered
  <2> QED BY <1>1, <2>2, <2>3 DEF SentInv
<1> QED BY <1>2, <1>3

LEMMA TriesBooks ==
    ASSUME Types, SentInv, Ordered, Tries
    PROVE  SentInv' /\ Ordered' /\ SuccessSettled'
<1>1. cmd \in CmdType /\ cmd.at \in {"approve", "send"} /\ cmd.run \in Nat
  BY DEF Tries, Types, TypeOK, CommandTypeOK, CmdType
<1>2. CASE Fails
  <2>1. PICK code \in {RpcException, BadEnv} : Ends(code)
    BY <1>2 DEF Fails
  <2>2. SentInv' /\ Ordered'
    BY <1>1, <2>1, EndsBooks DEF Tries
  <2>3. SuccessSettled'
    BY <2>1 DEF Ends, Gone, SuccessSettled, RpcException, BadEnv, Success
  <2> QED BY <2>2, <2>3
<1>3. ASSUME cmd'.at \in {"approve", "approving", "send", "sent"}, Same,
             cmd'.at \in {"approve", "approving"} <=> cmd.at = "approve",
             \/ txs' = txs /\ cmd'.at = cmd.at
             \/ Appended(AttemptKind) /\ (cmd'.at = cmd.at \/ cmd'.tx = Last + 1)
      PROVE  SentInv' /\ Ordered' /\ SuccessSettled'
  <2>1. Net' = Net /\ Kind' = Kind /\ cmd'.run = cmd.run
    BY <1>3, SameKind DEF Same
  <2>2. SuccessSettled'
    BY <1>3 DEF SuccessSettled
  <2>3. CASE txs' = txs /\ cmd'.at = cmd.at
    <3>1. Last' = Last /\ SentBy(cmd.run)' = SentBy(cmd.run)
      BY <2>1, <2>3 DEF Last, SentBy
    <3> QED BY <1>1, <2>1, <2>2, <2>3, <3>1 DEF SentInv, Ordered
  <2>4. CASE Appended(AttemptKind)
    <3>1. \A i \in DOMAIN txs' : i \in DOMAIN txs \/ i = Last + 1
      BY <2>4, AppendFacts
    <3>2. Ordered'
      BY <2>4, <3>1, AppendFacts, NewFacts DEF Ordered
    <3>3. \A i \in DOMAIN txs' : txs'[i].run <= cmd.run
      BY <1>1, <2>4, <3>1, AppendFacts, NewFacts DEF SentInv
    <3>4. \A i \in DOMAIN txs' :
             txs'[i].run = cmd.run => txs'[i].net = Net /\ txs'[i].kind \in {"approve", Kind}
      BY <1>1, <2>4, <3>1, AppendFacts, NewFacts DEF SentInv, SentBy, AttemptKind
    <3>5. Last' > 0 /\ txs'[Last'].run = cmd.run /\ txs'[Last'].kind = AttemptKind
      BY <2>4, AppendFacts, NewFacts
    <3>6. cmd'.at \in {"approving", "sent"} => cmd'.tx = Last'
      BY <1>1, <1>3, <2>4, AppendFacts
    <3>7. cmd'.at = "approving" => txs'[Last'].kind = "approve"
      BY <1>3, <3>5 DEF AttemptKind
    <3> QED BY <1>3, <2>1, <2>2, <3>2, <3>3, <3>4, <3>5, <3>6, <3>7 DEF SentInv, SentBy
  <2> QED BY <1>3, <2>3, <2>4
<1>4. CASE cmd' = [cmd EXCEPT !.tries = @ + 1]
  <2>1. Same /\ cmd'.at = cmd.at
    BY <1>1, <1>4 DEF Same, CmdType
  <2> QED BY <1>1, <1>3, <2>1 DEF Tries
<1>5. CASE /\ Appended(AttemptKind)
           /\ cmd' = [cmd EXCEPT !.at = IF cmd.at = "approve" THEN "approving" ELSE "sent",
                                 !.tx = Last + 1]
  <2>1. Same /\ cmd'.tx = Last + 1 /\ cmd'.at = IF cmd.at = "approve" THEN "approving" ELSE "sent"
    BY <1>1, <1>5 DEF Same, CmdType
  <2> QED BY <1>1, <1>3, <1>5, <2>1
<1>6. CASE LosesLine
  <2>1. Same /\ cmd'.at = cmd.at
    BY <1>1, <1>6, LineLost DEF Same
  <2> QED BY <1>1, <1>3, <2>1 DEF Tries
<1> QED BY <1>2, <1>4, <1>5, <1>6 DEF Tries, AttemptFails

(* Nothing of the command is pending once what it sent last is decided. *)
LEMMA LastDecidesAll ==
    ASSUME Types, SentInv, Ordered, cmd.at # "none",
           Last > 0, txs[Last].run = cmd.run, txs[Last].status = "ok"
    PROVE  \A i \in SentBy(cmd.run) : txs[i].status # "pending" /\ (i = Last \/ i < Last)
<1>1. txs \in Seq(Tx)
  BY DEF Types, TypeOK, AccountTypeOK
<1>2. Last \in DOMAIN txs /\ \A i \in DOMAIN txs : i = Last \/ i < Last
  BY <1>1 DEF Last
<1>3. Last \in SentBy(cmd.run)
  BY <1>2 DEF SentBy
<1>4. \A i \in SentBy(cmd.run) : i \in DOMAIN txs /\ txs[i].net = txs[Last].net
  BY <1>3 DEF SentInv, SentBy
<1> QED BY <1>2, <1>4 DEF Ordered

LEMMA EndsWellBooks ==
    ASSUME Types, SentInv, Ordered, EndsWell, UNCHANGED txs
    PROVE  SentInv' /\ Ordered' /\ SuccessSettled'
<1>1. cmd.at # "none" /\ Ends(Success)
  BY DEF EndsWell
<1>2. SentInv' /\ Ordered'
  BY <1>1, EndsBooks
<1>3. cmd'.run = cmd.run /\ SentBy(cmd.run)' = SentBy(cmd.run)
  BY <1>1 DEF Ends, Gone, SentBy
<1>4. CASE cmd.at = "profile"
  <2>1. SentBy(cmd.run) = {}
    BY <1>4 DEF SentInv
  <2> QED BY <1>2, <1>3, <2>1 DEF SuccessSettled, SentBy
<1>5. CASE cmd.at \in {"report", "sent"}
  <2>1. Last > 0 /\ txs[Last].run = cmd.run /\ txs[Last].status = "ok"
    BY <1>5 DEF SentInv, EndsWell
  <2>2. \A i \in SentBy(cmd.run) : txs[i].status # "pending" /\ (i = Last \/ i < Last)
    BY <1>1, <2>1, LastDecidesAll
  <2>3. txs \in Seq(Tx) /\ Last \in SentBy(cmd.run)
    BY <2>1 DEF Types, TypeOK, AccountTypeOK, SentBy, Last
  <2>4. ASSUME NEW i \in SentBy(cmd.run), \A j \in SentBy(cmd.run) : j <= i
        PROVE  txs[i].status = "ok"
    <3>1. i \in Nat /\ Last \in Nat /\ Last <= i
      BY <2>3, <2>4 DEF SentBy, Last
    <3>2. i = Last
      BY <2>2, <3>1
    <3> QED BY <2>1, <3>2
  <2> QED BY <1>2, <1>3, <2>2, <2>4 DEF SuccessSettled, SentBy
<1> QED BY <1>4, <1>5 DEF EndsWell

LEMMA EndsBadlyBooks ==
    ASSUME Types, Books, cmd.at # "none", EndsBadly, UNCHANGED txs
    PROVE  Books'
<1>1. PICK code \in Codes \ {Success} : Ends(code)
  BY DEF EndsBadly
<1>2. SentInv' /\ Ordered'
  BY <1>1, EndsBooks DEF Books
<1>3. SuccessSettled'
  BY <1>1 DEF Ends, Gone, SuccessSettled
<1> QED BY <1>2, <1>3 DEF Books

LEMMA GoesOnBooks ==
    ASSUME Types, Books, GoesOn \/ ToReport, UNCHANGED txs
    PROVE  Books'
<1>1. Same /\ cmd.at # "none" /\ cmd'.at \in Thinking \cup {"report"}
  BY DEF GoesOn, ToReport
<1>2. Net' = Net /\ Kind' = Kind /\ cmd'.run = cmd.run
  BY <1>1, SameKind DEF Same
<1>3. Last' = Last /\ SentBy(cmd.run)' = SentBy(cmd.run)
  BY <1>2 DEF Last, SentBy
<1>4. /\ \A i \in DOMAIN txs' : txs'[i].run <= cmd'.run
      /\ \A i \in SentBy(cmd.run)' : txs'[i].net = Net' /\ txs'[i].kind \in {"approve", Kind'}
  BY <1>1, <1>2, <1>3 DEF Books, SentInv
<1>5. cmd'.at \notin {"none", "profile", "approving", "sent"}
  BY <1>1 DEF Thinking, Interactive
<1>6. cmd'.at = "report" => Last > 0 /\ txs[Last].run = cmd.run /\ txs[Last].status = "ok"
  <2>1. ASSUME cmd'.at = "report" PROVE cmd.at = "sent" /\ txs[cmd.tx].status = "ok"
    BY <2>1 DEF GoesOn, ToReport, Thinking, Interactive
  <2> QED BY <2>1 DEF Books, SentInv
<1>7. SentInv'
  BY <1>2, <1>3, <1>4, <1>5, <1>6 DEF SentInv
<1>8. Ordered' /\ SuccessSettled'
  BY <1>5 DEF Books, Ordered, SuccessSettled
<1> QED BY <1>7, <1>8 DEF Books

(* A connection that closes sends nothing. *)
LEMMA LineLostBooks ==
    ASSUME Types, Books, LosesLine, UNCHANGED txs
    PROVE  Books'
<1>1. /\ cmd'.at = cmd.at /\ cmd'.run = cmd.run /\ cmd'.req = cmd.req /\ cmd'.tx = cmd.tx
      /\ cmd'.code = cmd.code
  BY LineLost DEF Types, TypeOK, CommandTypeOK
<1> QED BY <1>1 DEF Books, SentInv, Ordered, SuccessSettled, SentBy, Last, Net, Kind, Name

(* The run that begins has sent nothing. *)
LEMMA BeginsBooks ==
    ASSUME Types, Books, Begins, UNCHANGED txs
    PROVE  Books'
<1>1. txs \in Seq(Tx) /\ cmd.run \in Nat /\ cmd'.run = cmd.run + 1
  BY DEF Types, TypeOK, AccountTypeOK, CommandTypeOK, CmdType, Begins
<1>2. \A i \in DOMAIN txs : txs[i].run \in Nat /\ txs[i].run <= cmd.run
  <2>1. \A i \in DOMAIN txs : txs[i] \in Tx
    BY <1>1
  <2>2. \A i \in DOMAIN txs : txs[i].run \in Nat
    BY <2>1 DEF Tx
  <2> QED BY <2>2 DEF Books, SentInv
<1>3. SentBy(cmd.run)' = {}
  BY <1>1, <1>2 DEF SentBy
<1>4. \A i \in DOMAIN txs' : txs'[i].run <= cmd'.run
  BY <1>1, <1>2
<1>5. SentInv'
  BY <1>3, <1>4 DEF SentInv, Begins
<1>6. Ordered' /\ SuccessSettled'
  BY <1>3 DEF Books, Ordered, SuccessSettled
<1> QED BY <1>5, <1>6 DEF Books

(* A transaction is decided after those of its network that came before. *)
LEMMA MinedBooks ==
    ASSUME Types, Books, NEW i \in DOMAIN txs, Mine(i), UNCHANGED cmd
    PROVE  Books'
<1>1. txs \in Seq(Tx)
  BY DEF Types, TypeOK, AccountTypeOK
<1>2. PICK status \in {"ok", "reverted"} : Decided(i, status)
  BY DEF Mine, Decided
<1>3. /\ DOMAIN txs' = DOMAIN txs /\ Last' = Last
      /\ \A j \in DOMAIN txs : /\ txs'[j].run = txs[j].run /\ txs'[j].net = txs[j].net
                               /\ txs'[j].kind = txs[j].kind
                               /\ j # i => txs'[j].status = txs[j].status
      /\ txs[i].status = "pending" /\ txs'[i].status # "pending"
  <2>1. DOMAIN txs' = DOMAIN txs /\ Len(txs') = Len(txs)
    BY <1>1, <1>2 DEF Decided
  <2>2. ASSUME NEW j \in DOMAIN txs
        PROVE  /\ txs'[j].run = txs[j].run /\ txs'[j].net = txs[j].net
               /\ txs'[j].kind = txs[j].kind
               /\ j # i => txs'[j].status = txs[j].status
    <3>1. txs[j] \in Tx
      BY <1>1
    <3> QED BY <1>1, <1>2, <3>1 DEF Decided, Tx
  <2>3. txs'[i].status = status
    <3>1. txs[i] \in Tx
      BY <1>1
    <3> QED BY <1>1, <1>2, <3>1 DEF Decided, Tx
  <2> QED BY <2>1, <2>2, <2>3 DEF Last, Mine
<1>4. SentBy(cmd.run)' = SentBy(cmd.run) /\ Net' = Net /\ Kind' = Kind
  BY <1>3 DEF SentBy, Net, Kind, Name
<1>5. SentInv'
  <2>1. Last > 0 => Last \in DOMAIN txs
    BY <1>1 DEF Last
  <2>2. \A j \in SentBy(cmd.run) : j \in DOMAIN txs
    BY DEF SentBy
  <2>3. cmd.at = "report" => txs'[Last].status = "ok"
    BY <1>3, <2>1 DEF Books, SentInv
  <2> QED BY <1>3, <1>4, <2>1, <2>2, <2>3 DEF Books, SentInv
<1>6. Ordered'
  <2> SUFFICES ASSUME NEW j \in DOMAIN txs, NEW k \in DOMAIN txs, j < k,
                      txs'[j].net = txs'[k].net, txs'[k].status # "pending"
               PROVE  txs'[j].status # "pending"
    BY <1>3 DEF Ordered
  <2>1. CASE k = i
    BY <1>1, <1>3, <2>1 DEF Mine
  <2>2. CASE k # i
    BY <1>3, <2>2 DEF Books, Ordered
  <2> QED BY <2>1, <2>2
<1>7. SuccessSettled'
  BY <1>3, <1>4 DEF Books, SuccessSettled, SentBy
<1> QED BY <1>5, <1>6, <1>7 DEF Books

LEMMA BooksStep == Types /\ Books /\ [Next]_vars => Books'
<1> SUFFICES ASSUME Types, Books, [Next]_vars PROVE Books'
  OBVIOUS
<1>1. CASE Command
  <2>1. CommandStep \/ OwnerStep
    BY <1>1 DEF Command
  <2>2. CASE Tries
    BY <2>2, TriesBooks DEF Books
  <2>3. CASE EndsWell /\ UNCHANGED txs
    BY <2>3, EndsWellBooks DEF Books
  <2>4. CASE (GoesOn \/ ToReport) /\ UNCHANGED txs
    BY <2>4, GoesOnBooks
  <2>5. CASE Begins /\ UNCHANGED txs
    BY <2>5, BeginsBooks
  <2>6. CASE EndsBadly /\ UNCHANGED txs
    <3>1. CASE cmd.at # "none"
      BY <2>6, <3>1, EndsBadlyBooks
    <3>2. CASE cmd.at = "none"
      <4>1. cmd'.at = "none" /\ cmd'.run = cmd.run /\ cmd'.code # Success
        BY <2>6 DEF EndsBadly, Ends, Gone
      <4> QED BY <2>6, <3>2, <4>1
              DEF Books, SentInv, Ordered, SuccessSettled, SentBy, Last
    <3> QED BY <3>1, <3>2
  <2>7. CASE LosesLine /\ UNCHANGED txs
    BY <2>7, LineLostBooks
  <2> QED BY <2>1, <2>2, <2>3, <2>4, <2>5, <2>6, <2>7, Shapes
<1>2. CASE Mined
  BY <1>2, MinedBooks DEF Mined
<1>3. CASE UNCHANGED <<txs, cmd>>
  BY <1>3 DEF Books, SentInv, Ordered, SuccessSettled, SentBy, Last, Net, Kind, Name
<1> QED BY <1>1, <1>2, <1>3 DEF Next, Edit, Elsewhere, OtherUpdate, Service, vars

LEMMA InitBooks == Init => Books
BY DEF Init, AccountInit, CommandInit, Gone, Absent, Success, Books, SentInv, Ordered,
   SuccessSettled, SentBy

(* SUCCESS is not reported while something the command has sent is undecided, a
   retried attempt whose answer was lost included, nor when the last was refused. *)
THEOREM SuccessIsSettled == Spec => []SuccessSettled
<1>1. Types /\ Books /\ [Next]_vars => (Types /\ Books)'
  BY StepTypes, BooksStep
<1>2. Init => Types /\ Books
  BY InitTypes, InitBooks
<1>3. Types /\ Books => SuccessSettled
  BY DEF Books
<1> QED BY <1>1, <1>2, <1>3, PTL DEF Spec

-----------------------------------------------------------------------------
(* How much a command may cost. *)

Approvals(run) == {i \in SentBy(run) : txs[i].kind = "approve"}
Own(run) == {i \in SentBy(run) : txs[i].kind # "approve"}
OfProfile(run) == {i \in SentBy(run) : txs[i].kind \in {"register", "update"}}

(* An approval that has taken effect is never used up. *)
Granted ==
    \A i \in DOMAIN txs :
        txs[i].kind = "approve" /\ txs[i].status = "ok" => account[txs[i].net].allowance = Unlimited

(* Before its round of approvals a command has sent none, after it the allowance
   is unlimited; while it sends, every transaction has cost it an attempt, but
   for one whose answer the closing connection took along. *)
ApprovalsInv ==
    /\ cmd.at = "approve" /\ cmd.live => Cardinality(Approvals(cmd.run)) <= cmd.tries
    /\ cmd.at = "approving" => Cardinality(Approvals(cmd.run)) <= cmd.tries + 1
    /\ cmd.at \notin {"none", "approve", "approving"} /\ Approvals(cmd.run) # {}
          => Acct.allowance = Unlimited

OwnInv ==
    /\ cmd.at \notin {"none", "send", "sent", "report"} => Own(cmd.run) = {}
    /\ cmd.at = "send" /\ cmd.live => Cardinality(Own(cmd.run)) <= cmd.tries
    /\ cmd.at = "send" /\ cmd.live /\ Kind \in {"register", "update"} => Own(cmd.run) = {}

Rounds ==
    /\ RoundsBounded /\ Granted /\ ApprovalsInv /\ OwnInv
    /\ cmd.at # "none" => cmd.run > 0

LEMMA FiniteCounts ==
    ASSUME Types, NEW run
    PROVE  /\ IsFiniteSet(Approvals(run)) /\ Cardinality(Approvals(run)) \in Nat
           /\ IsFiniteSet(Own(run)) /\ Cardinality(Own(run)) \in Nat
           /\ IsFiniteSet(OfProfile(run)) /\ Cardinality(OfProfile(run)) \in Nat
<1>1. txs \in Seq(Tx)
  BY DEF Types, TypeOK, AccountTypeOK
<1>2. IsFiniteSet(1..Len(txs)) /\ DOMAIN txs = 1..Len(txs)
  BY <1>1, FS_Interval
<1>3. Approvals(run) \subseteq DOMAIN txs /\ Own(run) \subseteq DOMAIN txs
      /\ OfProfile(run) \subseteq DOMAIN txs
  BY DEF Approvals, Own, OfProfile, SentBy
<1>4. IsFiniteSet(Approvals(run)) /\ IsFiniteSet(Own(run)) /\ IsFiniteSet(OfProfile(run))
  BY <1>2, <1>3, FS_Subset
<1> QED BY <1>4, FS_CardinalityType

(* The sets, when a transaction is added to the command's. *)
LEMMA AppendCounts ==
    ASSUME Types, SentInv, NEW kind \in {"approve", Kind}, Appended(kind), cmd'.run = cmd.run
    PROVE  /\ Approvals(cmd.run)' = IF kind = "approve" THEN Approvals(cmd.run) \cup {Last + 1}
                                                        ELSE Approvals(cmd.run)
           /\ Own(cmd.run)' = IF kind = "approve" THEN Own(cmd.run) ELSE Own(cmd.run) \cup {Last + 1}
           /\ OfProfile(cmd.run)' = IF kind \in {"register", "update"}
                                    THEN OfProfile(cmd.run) \cup {Last + 1} ELSE OfProfile(cmd.run)
           /\ \A run : run # cmd.run =>
                 /\ (Approvals(run))' = Approvals(run) /\ (Own(run))' = Own(run)
                 /\ (OfProfile(run))' = OfProfile(run)
<1>1. DOMAIN txs' = DOMAIN txs \cup {Last + 1}
  <2>1. DOMAIN txs = 1..Last /\ DOMAIN txs' = 1..Last + 1 /\ Last \in Nat
    BY AppendFacts
  <2> QED BY <2>1
<1>2. \A i \in DOMAIN txs : txs'[i] = txs[i]
  BY AppendFacts
<1>3. txs'[Last + 1].run = cmd.run /\ txs'[Last + 1].kind = kind
  BY AppendFacts, NewFacts
<1>4. Last + 1 \notin DOMAIN txs
  BY AppendFacts
<1> QED BY <1>1, <1>2, <1>3, <1>4 DEF Approvals, Own, OfProfile, SentBy

(* The bounds of one command, as RoundsBounded states them. *)
Bounded(run) ==
    /\ Cardinality(Approvals(run)) <= MaxRetries + 2
    /\ Cardinality(OfProfile(run)) <= 1
    /\ Cardinality(Own(run)) <= MaxRetries + 2

LEMMA BoundedIsRounds == RoundsBounded <=> \A run \in 1..cmd.run : Bounded(run)
BY DEF RoundsBounded, Bounded, Approvals, OfProfile, Own

LEMMA OneMore ==
    ASSUME NEW S, IsFiniteSet(S), NEW x, NEW n \in Nat, Cardinality(S) <= n
    PROVE  IsFiniteSet(S \cup {x}) /\ Cardinality(S \cup {x}) <= n + 1
<1>1. Cardinality(S) \in Nat
  BY FS_CardinalityType
<1>2. Cardinality(S \cup {x}) \in {Cardinality(S), Cardinality(S) + 1} /\ IsFiniteSet(S \cup {x})
  BY FS_AddElement
<1> QED BY <1>1, <1>2

(* A stage that has sent nothing of its kind yet has no profile on the way. *)
LEMMA ProfilesAreOwn ==
    ASSUME Types, NEW run
    PROVE  Own(run) = {} => OfProfile(run) = {} /\ Cardinality(OfProfile(run)) = 0
<1>1. OfProfile(run) \subseteq Own(run)
  BY DEF OfProfile, Own
<1> QED BY <1>1, FS_EmptySet

(* Each attempt is paid for, whatever becomes of it. *)
LEMMA AttemptRounds ==
    ASSUME Types, SentInv, Rounds, cmd.at \in {"approve", "send"}, cmd.live,
           cmd'.run = cmd.run,
           txs' = txs \/ Appended(AttemptKind)
    PROVE  /\ RoundsBounded'
           /\ cmd.at = "approve" =>
                 /\ Cardinality((Approvals(cmd.run))') <= cmd.tries + 1
                 /\ (Own(cmd.run))' = {}
           /\ cmd.at = "send" =>
                 /\ Cardinality((Own(cmd.run))') <= cmd.tries + 1
                 /\ (Approvals(cmd.run))' = Approvals(cmd.run)
<1>1. /\ cmd \in CmdType /\ cmd.tries \in 0..MaxRetries + 1 /\ MaxRetries \in Nat
      /\ cmd.run \in 1..cmd.run
  BY CommandLineAssumption DEF Types, TypeOK, CommandTypeOK, CmdType, Rounds
<1>2. Kind # "approve"
  BY KindIsNoApproval
<1>3. RoundsBounded /\ \A run \in 1..cmd.run : Bounded(run)
  BY BoundedIsRounds DEF Rounds
<1>4. CASE txs' = txs
  <2>1. \A run : /\ (Approvals(run))' = Approvals(run) /\ (Own(run))' = Own(run)
                 /\ (OfProfile(run))' = OfProfile(run)
    BY <1>4 DEF Approvals, Own, OfProfile, SentBy
  <2>2. RoundsBounded'
    <3>1. \A run \in 1..cmd'.run : Bounded(run)'
      BY <1>3, <2>1 DEF Bounded
    <3> QED BY <3>1 DEF RoundsBounded, Bounded, Approvals, Own, OfProfile
  <2>3. Cardinality(Approvals(cmd.run)) \in Nat /\ Cardinality(Own(cmd.run)) \in Nat
    BY FiniteCounts
  <2> QED BY <1>1, <2>1, <2>2, <2>3 DEF Rounds, ApprovalsInv, OwnInv
<1>5. CASE Appended(AttemptKind)
  <2>1. AttemptKind \in {"approve", Kind} /\ (AttemptKind = "approve" <=> cmd.at = "approve")
    BY <1>2 DEF AttemptKind
  <2>2. \A run \in 1..cmd.run : run # cmd.run => Bounded(run)'
    BY <1>3, <1>5, <2>1, AppendCounts DEF Bounded
  <2>3. CASE cmd.at = "approve"
    <3>1. /\ (Approvals(cmd.run))' = Approvals(cmd.run) \cup {Last + 1}
          /\ (Own(cmd.run))' = {} /\ (OfProfile(cmd.run))' = OfProfile(cmd.run)
      BY <1>5, <2>1, <2>3, AppendCounts DEF Rounds, OwnInv
    <3>2. /\ Cardinality((Approvals(cmd.run))') <= cmd.tries + 1
          /\ IsFiniteSet((Approvals(cmd.run))')
      <4>1. Cardinality(Approvals(cmd.run)) <= cmd.tries
        BY <2>3 DEF Rounds, ApprovalsInv
      <4>2. IsFiniteSet(Approvals(cmd.run)) /\ cmd.tries \in Nat
        BY <1>1, FiniteCounts
      <4>3. /\ IsFiniteSet(Approvals(cmd.run) \cup {Last + 1})
            /\ Cardinality(Approvals(cmd.run) \cup {Last + 1}) <= cmd.tries + 1
        BY <4>1, <4>2, OneMore
      <4> QED BY <3>1, <4>3
    <3>3. Bounded(cmd.run)'
      <4>1. Cardinality((Approvals(cmd.run))') \in Nat
        BY <3>2, FS_CardinalityType
      <4>2. Cardinality((OfProfile(cmd.run))') <= 1
        BY <1>1, <1>3, <3>1 DEF Bounded
      <4>3. Cardinality((Own(cmd.run))') = 0
        BY <3>1, FS_EmptySet
      <4>4. Cardinality((Approvals(cmd.run))') <= MaxRetries + 2
        BY <1>1, <3>2, <4>1
      <4>5. Cardinality((Own(cmd.run))') <= MaxRetries + 2
        BY <1>1, <4>3
      <4> QED BY <4>2, <4>4, <4>5 DEF Bounded
    <3>4. \A run \in 1..cmd'.run : Bounded(run)'
      BY <2>2, <3>3
    <3>5. RoundsBounded'
      BY <3>4 DEF RoundsBounded, Bounded, Approvals, Own, OfProfile
    <3> QED BY <2>3, <3>1, <3>2, <3>5
  <2>4. CASE cmd.at = "send"
    <3>1. /\ (Own(cmd.run))' = Own(cmd.run) \cup {Last + 1}
          /\ (Approvals(cmd.run))' = Approvals(cmd.run)
          /\ (OfProfile(cmd.run))' = IF Kind \in {"register", "update"}
                                     THEN OfProfile(cmd.run) \cup {Last + 1}
                                     ELSE OfProfile(cmd.run)
      BY <1>2, <1>5, <2>1, <2>4, AppendCounts DEF AttemptKind
    <3>2. Cardinality((Own(cmd.run))') <= cmd.tries + 1 /\ IsFiniteSet((Own(cmd.run))')
      <4>1. Cardinality(Own(cmd.run)) <= cmd.tries
        BY <2>4 DEF Rounds, OwnInv
      <4>2. IsFiniteSet(Own(cmd.run)) /\ cmd.tries \in Nat
        BY <1>1, FiniteCounts
      <4>3. /\ IsFiniteSet(Own(cmd.run) \cup {Last + 1})
            /\ Cardinality(Own(cmd.run) \cup {Last + 1}) <= cmd.tries + 1
        BY <4>1, <4>2, OneMore
      <4> QED BY <3>1, <4>3
    <3>3. Cardinality((Own(cmd.run))') <= MaxRetries + 2
      <4>1. Cardinality((Own(cmd.run))') \in Nat
        BY <3>2, FS_CardinalityType
      <4> QED BY <1>1, <3>2, <4>1
    <3>4. Cardinality((OfProfile(cmd.run))') <= 1
      <4>1. CASE Kind \in {"register", "update"}
        <5>1. OfProfile(cmd.run) = {}
          BY <2>4, <4>1, ProfilesAreOwn DEF Rounds, OwnInv
        <5>2. (OfProfile(cmd.run))' = {Last + 1}
          BY <3>1, <4>1, <5>1
        <5>3. Cardinality({Last + 1}) = 1
          BY FS_Singleton
        <5> QED BY <5>2, <5>3
      <4>2. CASE Kind \notin {"register", "update"}
        BY <1>1, <1>3, <3>1, <4>2 DEF Bounded
      <4> QED BY <4>1, <4>2
    <3>5. Cardinality((Approvals(cmd.run))') <= MaxRetries + 2
      BY <1>1, <1>3, <3>1 DEF Bounded
    <3>6. \A run \in 1..cmd'.run : Bounded(run)'
      BY <2>2, <3>3, <3>4, <3>5 DEF Bounded
    <3>7. RoundsBounded'
      BY <3>6 DEF RoundsBounded, Bounded, Approvals, Own, OfProfile
    <3> QED BY <2>4, <3>1, <3>2, <3>7
  <2> QED BY <2>3, <2>4
<1> QED BY <1>4, <1>5

(* Approvals that have taken effect, and an allowance that nothing uses up. *)
LEMMA GrantedStep ==
    ASSUME Types, Granted, NEW kind \in {"approve", Kind},
           UNCHANGED account, txs' = txs \/ Appended(kind)
    PROVE  Granted'
<1>1. CASE txs' = txs
  BY <1>1 DEF Granted
<1>2. CASE Appended(kind)
  <2>1. \A i \in DOMAIN txs' : i \in DOMAIN txs \/ i = Last + 1
    BY <1>2, AppendFacts
  <2>2. txs'[Last + 1].status = "pending" /\ \A i \in DOMAIN txs : txs'[i] = txs[i]
    BY <1>2, AppendFacts, NewFacts
  <2> QED BY <2>1, <2>2 DEF Granted
<1> QED BY <1>1, <1>2

LEMMA TriesRounds ==
    ASSUME Types, SentInv, Rounds, Tries, UNCHANGED account
    PROVE  Rounds'
<1>1. cmd \in CmdType /\ cmd.tries \in Nat /\ cmd.at \in {"approve", "send"}
  BY DEF Types, TypeOK, CommandTypeOK, CmdType, Tries
<1>2. AttemptKind \in {"approve", Kind}
  BY DEF AttemptKind
<1>3. Granted'
  BY <1>2, GrantedStep DEF Rounds, Tries
<1>4. CASE Fails
  <2>1. cmd'.at = "none" /\ cmd'.run = cmd.run
    BY <1>4 DEF Fails, Ends, Gone
  <2> QED BY <1>1, <1>3, <2>1, AttemptRounds DEF Rounds, ApprovalsInv, OwnInv, Tries
<1>5. CASE Retried /\ cmd' = [cmd EXCEPT !.tries = @ + 1]
  <2>1. Same /\ cmd'.at = cmd.at /\ cmd'.tries = cmd.tries + 1
    BY <1>1, <1>5 DEF Same, CmdType
  <2>2. Net' = Net /\ Kind' = Kind /\ cmd'.run = cmd.run /\ Acct' = Acct
    BY <2>1, SameKind DEF Same, Acct, Net
  <2>3. cmd.at = "send" => Kind \notin {"register", "update"}
    BY <1>5 DEF Retried
  <2>4. ApprovalsInv' /\ OwnInv'
    BY <1>1, <2>1, <2>2, <2>3, AttemptRounds DEF Rounds, ApprovalsInv, OwnInv, Tries
  <2> QED BY <1>1, <1>3, <2>1, <2>2, <2>4, AttemptRounds DEF Rounds, Tries
<1>6. CASE /\ Appended(AttemptKind)
           /\ cmd' = [cmd EXCEPT !.at = IF cmd.at = "approve" THEN "approving" ELSE "sent",
                                 !.tx = Last + 1]
  <2>1. /\ Same /\ cmd'.tries = cmd.tries
        /\ cmd'.at = IF cmd.at = "approve" THEN "approving" ELSE "sent"
    BY <1>1, <1>6 DEF Same, CmdType
  <2>2. Net' = Net /\ cmd'.run = cmd.run /\ Acct' = Acct
    BY <2>1 DEF Same, Acct, Net
  <2>3. ApprovalsInv' /\ OwnInv'
    BY <1>1, <2>1, <2>2, AttemptRounds DEF Rounds, ApprovalsInv, OwnInv, Tries
  <2> QED BY <1>1, <1>3, <2>1, <2>2, <2>3, AttemptRounds DEF Rounds, Tries
<1>7. CASE LosesLine
  <2>1. /\ cmd'.at = cmd.at /\ cmd'.run = cmd.run /\ cmd'.req = cmd.req
        /\ ~cmd'.live
    BY <1>1, <1>7, LineLost DEF LosesLine, CmdType
  <2>2. Acct' = Acct /\ Kind' = Kind
    BY <2>1 DEF Acct, Net, Kind, Name
  <2>3. ApprovalsInv'
    BY <1>1, <2>1, <2>2, AttemptRounds DEF Rounds, ApprovalsInv, Tries
  <2>4. OwnInv'
    BY <1>1, <2>1, <2>2, AttemptRounds DEF Rounds, OwnInv, Tries
  <2> QED BY <1>1, <1>3, <2>1, <2>3, <2>4, AttemptRounds DEF Rounds, Tries
<1> QED BY <1>4, <1>5, <1>6, <1>7 DEF Tries, AttemptFails

(* A stage that goes on without sending; from the round of approvals it takes
   the unlimited allowance with it. *)
LEMMA GoesOnRounds ==
    ASSUME Types, Types', SentInv, Rounds, GoesOn \/ ToReport, UNCHANGED <<account, txs>>
    PROVE  Rounds'
<1>1. Same /\ cmd.at # "none" /\ cmd'.at \in Thinking \cup {"report"}
  BY DEF GoesOn, ToReport
<1>2. Net' = Net /\ cmd'.run = cmd.run /\ Acct' = Acct
  BY <1>1 DEF Same, Acct, Net
<1>3. \A run : (Approvals(run))' = Approvals(run) /\ (Own(run))' = Own(run)
  BY DEF Approvals, Own, SentBy
<1>4. cmd'.at \notin {"none", "approving", "sent"}
  BY <1>1 DEF Thinking, Interactive
<1>5. RoundsBounded' /\ Granted'
  BY <1>2 DEF Rounds, RoundsBounded, Granted, SentBy
<1>6. cmd.at \notin {"none", "approve"} /\ Approvals(cmd.run) # {} => Acct.allowance = Unlimited
  <2>1. ASSUME cmd.at = "approving" PROVE Acct.allowance = Unlimited
    <3>1. txs[Last].status = "ok" /\ txs[Last].kind = "approve" /\ Last > 0
          /\ txs[Last].run = cmd.run
      BY <2>1 DEF GoesOn, ToReport, SentInv
    <3>2. txs \in Seq(Tx)
      BY DEF Types, TypeOK, AccountTypeOK
    <3>3. Last \in DOMAIN txs
      BY <3>1, <3>2 DEF Last
    <3>4. txs[Last].net = Net
      BY <1>1, <3>1, <3>3 DEF SentInv, SentBy
    <3> QED BY <3>1, <3>3, <3>4 DEF Rounds, Granted, Acct
  <2>2. ASSUME cmd.at \notin {"none", "approve", "approving"}, Approvals(cmd.run) # {}
        PROVE  Acct.allowance = Unlimited
    BY <2>2 DEF Rounds, ApprovalsInv
  <2> QED BY <2>1, <2>2
<1>7. ApprovalsInv'
  <2>1. ASSUME cmd'.at = "approve" PROVE Cardinality(Approvals(cmd.run)) <= cmd'.tries
    <3>1. cmd.at = "unlimited" /\ Acct.allowance < Unlimited /\ cmd'.tries = 0
      BY <2>1 DEF GoesOn, ToReport
    <3>2. Acct.allowance \in Nat /\ Unlimited \in Nat
      <4>1. Net \in Networks /\ account \in [Networks -> AccountType]
        BY <1>1 DEF Types, TypeOK, AccountTypeOK, Aimed
      <4>2. Acct \in AccountType
        BY <4>1 DEF Acct
      <4> QED BY <4>2, AccountAssumption DEF AccountType
    <3>3. Approvals(cmd.run) = {}
      BY <1>6, <3>1, <3>2
    <3> QED BY <3>1, <3>3, FS_EmptySet
  <2>2. cmd.at # "approve"
    BY DEF GoesOn, ToReport
  <2> QED BY <1>1, <1>2, <1>3, <1>4, <1>6, <2>1, <2>2 DEF ApprovalsInv
<1>8. OwnInv'
  <2>1. cmd'.at \in Thinking => Own(cmd.run) = {}
    BY <1>1 DEF GoesOn, ToReport, Rounds, OwnInv, Thinking, Interactive
  <2>2. cmd'.tries \in Nat /\ Cardinality({}) = 0
    BY FS_EmptySet DEF Types, TypeOK, CommandTypeOK, CmdType
  <2>3. cmd'.at = "send" => Own(cmd.run) = {}
    BY <2>1 DEF Thinking
  <2> QED BY <1>1, <1>2, <1>3, <2>1, <2>2, <2>3 DEF OwnInv, Thinking
<1> QED BY <1>1, <1>2, <1>5, <1>7, <1>8 DEF Rounds

LEMMA LineLostRounds ==
    ASSUME Types, Rounds, LosesLine, UNCHANGED <<account, txs>>
    PROVE  Rounds'
<1>1. /\ cmd'.at = cmd.at /\ cmd'.run = cmd.run /\ cmd'.req = cmd.req /\ cmd'.tries = cmd.tries
      /\ ~cmd'.live
  BY LineLost DEF LosesLine, CmdType, Types, TypeOK, CommandTypeOK
<1>2. \A run : (Approvals(run))' = Approvals(run) /\ (Own(run))' = Own(run)
  BY DEF Approvals, Own, SentBy
<1>3. RoundsBounded' /\ Granted'
  BY <1>1 DEF Rounds, RoundsBounded, Granted, SentBy
<1>4. Acct' = Acct
  BY <1>1 DEF Acct, Net
<1> QED BY <1>1, <1>2, <1>3, <1>4 DEF Rounds, ApprovalsInv, OwnInv

LEMMA EndsRounds ==
    ASSUME Rounds, NEW code, Ends(code), UNCHANGED <<account, txs>>
    PROVE  Rounds'
<1>1. cmd'.at = "none" /\ cmd'.run = cmd.run
  BY DEF Ends, Gone
<1>2. RoundsBounded' /\ Granted'
  BY <1>1 DEF Rounds, RoundsBounded, Granted, SentBy
<1> QED BY <1>1, <1>2 DEF Rounds, ApprovalsInv, OwnInv

LEMMA BeginsRounds ==
    ASSUME Types, SentInv, Rounds, Begins, UNCHANGED <<account, txs>>
    PROVE  Rounds'
<1>1. txs \in Seq(Tx) /\ cmd.run \in Nat /\ cmd'.run = cmd.run + 1 /\ MaxRetries \in Nat
  BY CommandLineAssumption
     DEF Types, TypeOK, AccountTypeOK, CommandTypeOK, CmdType, Begins
<1>2. SentBy(cmd.run)' = {}
  <2>1. \A i \in DOMAIN txs : txs[i] \in Tx
    BY <1>1
  <2>2. \A i \in DOMAIN txs : txs[i].run \in Nat
    BY <2>1 DEF Tx
  <2>3. \A i \in DOMAIN txs : txs'[i].run # cmd'.run
    BY <1>1, <2>2 DEF SentInv
  <2> QED BY <2>3 DEF SentBy
<1>3. /\ (Approvals(cmd.run))' = {} /\ (Own(cmd.run))' = {} /\ (OfProfile(cmd.run))' = {}
  BY <1>2 DEF Approvals, Own, OfProfile
<1>4. \A run : /\ (Approvals(run))' = Approvals(run) /\ (Own(run))' = Own(run)
               /\ (OfProfile(run))' = OfProfile(run)
  BY DEF Approvals, Own, OfProfile, SentBy
<1>5. \A run \in 1..cmd.run : Bounded(run)'
  BY <1>4, BoundedIsRounds DEF Rounds, Bounded
<1>6. Bounded(cmd.run)'
  <2>1. Cardinality({}) = 0 /\ 0 <= MaxRetries + 2 /\ 0 <= 1
    BY <1>1, FS_EmptySet
  <2> QED BY <1>3, <2>1 DEF Bounded
<1>7. \A run \in 1..cmd'.run : run \in 1..cmd.run \/ run = cmd'.run
  BY <1>1
<1>8. \A run \in 1..cmd'.run : Bounded(run)'
  BY <1>5, <1>6, <1>7
<1>9. RoundsBounded'
  BY <1>8 DEF RoundsBounded, Bounded, Approvals, Own, OfProfile
<1>10. Granted'
  BY DEF Rounds, Granted
<1> QED BY <1>1, <1>3, <1>9, <1>10 DEF Rounds, ApprovalsInv, OwnInv, Begins

LEMMA MinedRounds ==
    ASSUME Types, Rounds, NEW i \in DOMAIN txs, Mine(i), UNCHANGED cmd
    PROVE  Rounds'
<1> DEFINE n == txs[i].net
<1>1. txs \in Seq(Tx) /\ account \in [Networks -> AccountType]
  BY DEF Types, TypeOK, AccountTypeOK
<1>2. txs[i] \in Tx /\ n \in Networks /\ account[n] \in AccountType
  <2>1. txs[i] \in Tx
    BY <1>1
  <2> QED BY <1>1, <2>1 DEF Tx
<1>3. PICK status \in {"ok", "reverted"} :
         /\ Decided(i, status)
         /\ \/ status = "ok" /\ account' = [account EXCEPT ![n] = Effect(@, txs[i])]
            \/ status = "reverted" /\ UNCHANGED account
  BY DEF Mine, Decided
<1>4. /\ DOMAIN txs' = DOMAIN txs /\ txs'[i].status = status
      /\ \A j \in DOMAIN txs : /\ txs'[j].run = txs[j].run /\ txs'[j].net = txs[j].net
                               /\ txs'[j].kind = txs[j].kind
                               /\ j # i => txs'[j].status = txs[j].status
  <2>1. ASSUME NEW j \in DOMAIN txs
        PROVE  /\ txs'[j].run = txs[j].run /\ txs'[j].net = txs[j].net
               /\ txs'[j].kind = txs[j].kind
               /\ j # i => txs'[j].status = txs[j].status
    <3>1. txs[j] \in Tx
      BY <1>1
    <3> QED BY <1>1, <1>3, <3>1 DEF Decided, Tx
  <2>2. DOMAIN txs' = DOMAIN txs /\ txs'[i].status = status
    BY <1>1, <1>2, <1>3 DEF Decided, Tx
  <2> QED BY <2>1, <2>2
<1>5. \A run : /\ (Approvals(run))' = Approvals(run) /\ (Own(run))' = Own(run)
               /\ (OfProfile(run))' = OfProfile(run)
  BY <1>4 DEF Approvals, Own, OfProfile, SentBy
<1>6. RoundsBounded'
  <2>1. \A run \in 1..cmd'.run : Bounded(run)'
    BY <1>5, BoundedIsRounds DEF Bounded, Rounds
  <2> QED BY <2>1 DEF RoundsBounded, Bounded, Approvals, Own, OfProfile
<1>7. \A m \in Networks : account[m].allowance = Unlimited => account'[m].allowance = Unlimited
  <2>1. account[n].allowance = Unlimited => Effect(account[n], txs[i]).allowance = Unlimited
    BY <1>2 DEF Effect, Deposited, AccountType, Tx, Kinds
  <2> QED BY <1>1, <1>2, <1>3, <2>1
<1>8. txs[i].kind = "approve" /\ status = "ok" => account'[n].allowance = Unlimited
  <2>1. txs[i].kind = "approve" => Effect(account[n], txs[i]).allowance = Unlimited
    BY <1>2 DEF Effect, AccountType
  <2> QED BY <1>1, <1>2, <1>3, <2>1
<1>9. Granted'
  <2> SUFFICES ASSUME NEW j \in DOMAIN txs, txs'[j].kind = "approve", txs'[j].status = "ok"
               PROVE  account'[txs'[j].net].allowance = Unlimited
    BY <1>4 DEF Granted
  <2>1. CASE j = i
    BY <1>4, <1>8, <2>1
  <2>2. CASE j # i
    <3>1. txs[j] \in Tx
      BY <1>1
    <3>2. txs[j].net \in Networks
      BY <3>1 DEF Tx
    <3> QED BY <1>4, <1>7, <2>2, <3>2 DEF Rounds, Granted
  <2> QED BY <2>1, <2>2
<1>10. ApprovalsInv'
  <2>1. cmd.at # "none" => Net \in Networks
    BY DEF Types, Aimed
  <2>2. cmd.at # "none" /\ Acct.allowance = Unlimited => (Acct.allowance)' = Unlimited
    BY <1>7, <2>1 DEF Acct, Net
  <2> QED BY <1>5, <2>2 DEF Rounds, ApprovalsInv
<1>11. OwnInv'
  BY <1>5 DEF Rounds, OwnInv, Kind, Name
<1> QED BY <1>6, <1>9, <1>10, <1>11 DEF Rounds

LEMMA ElsewhereRounds ==
    ASSUME Types, Rounds, NEW n \in Networks, OtherUpdate(n), UNCHANGED cmd
    PROVE  Rounds'
<1>1. account \in [Networks -> AccountType] /\ UNCHANGED txs
  BY DEF Types, TypeOK, AccountTypeOK, OtherUpdate
<1>2. PICK p : account' = [account EXCEPT ![n] = [@ EXCEPT !.profile = p]]
  BY DEF OtherUpdate
<1>3. \A m \in Networks : account'[m].allowance = account[m].allowance
  BY <1>1, <1>2 DEF AccountType
<1>4. \A run : (Approvals(run))' = Approvals(run) /\ (Own(run))' = Own(run)
  BY <1>1 DEF Approvals, Own, SentBy
<1>5. RoundsBounded'
  BY <1>1 DEF Rounds, RoundsBounded, SentBy
<1>6. Granted'
  <2>1. \A i \in DOMAIN txs : txs[i].net \in Networks
    <3>1. txs \in Seq(Tx)
      BY DEF Types, TypeOK, AccountTypeOK
    <3>2. \A i \in DOMAIN txs : txs[i] \in Tx
      BY <3>1
    <3> QED BY <3>2 DEF Tx
  <2> QED BY <1>1, <1>3, <2>1 DEF Rounds, Granted
<1>7. ApprovalsInv'
  <2>1. cmd.at # "none" => (Acct.allowance)' = Acct.allowance
    BY <1>3 DEF Types, Aimed, Acct, Net
  <2> QED BY <1>4, <2>1 DEF Rounds, ApprovalsInv
<1>8. OwnInv'
  BY <1>4 DEF Rounds, OwnInv, Kind, Name
<1> QED BY <1>5, <1>6, <1>7, <1>8 DEF Rounds

LEMMA RoundsStep == Types /\ Types' /\ Books /\ Rounds /\ [Next]_vars => Rounds'
<1> SUFFICES ASSUME Types, Types', Books, Rounds, [Next]_vars PROVE Rounds'
  OBVIOUS
<1>1. SentInv
  BY DEF Books
<1>2. CASE Command
  <2>1. CommandStep \/ OwnerStep
    BY <1>2 DEF Command
  <2>2. UNCHANGED account
    BY <2>1 DEF CommandStep, OwnerStep, accountVars, ProfileRead, BalanceRead, AllowanceRead,
       UnlimitedRead, TimeRead, FundsRead, ReadFails, Approve, Send, Receipt, Report, Invoke,
       ApprovalAnswered, Answered, Confirmed, Dies, ConnectionCloses
  <2>3. CASE Tries
    BY <1>1, <2>2, <2>3, TriesRounds
  <2>4. CASE (EndsBadly \/ EndsWell) /\ UNCHANGED txs
    BY <2>2, <2>4, EndsRounds DEF EndsBadly, EndsWell
  <2>5. CASE (GoesOn \/ ToReport) /\ UNCHANGED txs
    BY <1>1, <2>2, <2>5, GoesOnRounds
  <2>6. CASE Begins /\ UNCHANGED txs
    BY <1>1, <2>2, <2>6, BeginsRounds
  <2>7. CASE LosesLine /\ UNCHANGED txs
    BY <2>2, <2>7, LineLostRounds
  <2> QED BY <2>1, <2>3, <2>4, <2>5, <2>6, <2>7, Shapes
<1>3. CASE Mined
  BY <1>3, MinedRounds DEF Mined
<1>4. CASE Elsewhere
  BY <1>4, ElsewhereRounds DEF Elsewhere
<1>5. CASE UNCHANGED <<account, txs, cmd>>
  BY <1>5 DEF Rounds, RoundsBounded, Granted, ApprovalsInv, OwnInv, Approvals, Own, SentBy,
     Acct, Net, Kind, Name
<1> QED BY <1>2, <1>3, <1>4, <1>5 DEF Next, Edit, Service, vars

LEMMA InitRounds == Init => Rounds
<1> SUFFICES ASSUME Init PROVE Rounds
  OBVIOUS
<1>1. cmd.at = "none" /\ cmd.run = 0 /\ txs = <<>>
  BY DEF Init, AccountInit, CommandInit, Gone
<1>2. RoundsBounded
  BY <1>1 DEF RoundsBounded
<1>3. Granted
  BY <1>1 DEF Granted
<1> QED BY <1>1, <1>2, <1>3 DEF Rounds, ApprovalsInv, OwnInv

(* A command costs at most one round of approvals and one of its own
   transaction; a profile is never sent twice by one command. *)
THEOREM CommandsAreBounded == Spec => []RoundsBounded
<1> DEFINE J == Types /\ Books /\ Rounds
<1>1. J /\ [Next]_vars => J'
  BY StepTypes, BooksStep, RoundsStep
<1>2. Init => J
  BY InitTypes, InitBooks, InitRounds
<1>3. J => RoundsBounded
  BY DEF Rounds
<1> QED BY <1>1, <1>2, <1>3, PTL DEF Spec

=============================================================================
