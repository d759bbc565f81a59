------------------------------- MODULE Account --------------------------------
(***************************************************************************)
(* External: the archaeologist's account on each network, as far as the     *)
(* command line and the start of the service use it.  Transactions of one   *)
(* account take effect in the order of their nonces; an attempt to send is  *)
(* simulated on the latest block, which does not know the pending ones.     *)
(***************************************************************************)
EXTENDS Environment, Sequences

CONSTANTS
    Unlimited,      \* MaxUint256
    Accounts,       \* what the networks may hold to begin with
    OtherProfiles   \* what the owner may store with another program

Terms == {"fee", "rewrap", "maxRes", "curse"}

(* The digging fee of a profile is per second. *)
Profile == [exists : BOOLEAN, domain : Domains \cup Unusable, terms : [Terms -> Nat]]
NoProfile == [exists |-> FALSE, domain |-> "unset", terms |-> [f \in Terms |-> 0]]

AccountType == [profile : Profile, bond : Nat, wallet : Nat, allowance : Nat, rewards : Nat]

Kinds == {"approve", "register", "update", "deposit", "withdraw", "claim"}

(* A transaction as it was sent: profile and amount are its arguments, run the
   command that sent it, consent whether the owner had agreed to an approval,
   read the profile the command had read, given the terms it was told to set. *)
Tx ==
    [net : Networks, kind : Kinds, profile : Profile, amount : Nat, run : Nat,
     consent : BOOLEAN, read : Profile, given : SUBSET Terms,
     status : {"pending", "ok", "reverted"}]

ASSUME AccountAssumption ==
    /\ Unlimited \in Nat
    /\ Accounts \subseteq [Networks -> AccountType]
    /\ OtherProfiles \subseteq {p \in Profile : p.exists}

VARIABLES account, txs
accountVars == <<account, txs>>

AccountTypeOK == account \in [Networks -> AccountType] /\ txs \in Seq(Tx)

AccountInit == account \in Accounts /\ txs = <<>>

-----------------------------------------------------------------------------
(* A deposit is a transfer the token allows. *)
Affordable(a, n) == n <= a.wallet /\ n <= a.allowance

Accepts(a, t) ==
    CASE t.kind = "approve"  -> TRUE
      [] t.kind = "register" -> ~a.profile.exists /\ Affordable(a, t.amount)
      [] t.kind \in {"update", "deposit"} -> a.profile.exists /\ Affordable(a, t.amount)
      [] t.kind = "withdraw" -> a.profile.exists /\ t.amount <= a.bond
      [] t.kind = "claim"    -> a.profile.exists

Deposited(a, n) ==
    [a EXCEPT !.bond = @ + n, !.wallet = @ - n,
              !.allowance = IF @ = Unlimited THEN @ ELSE @ - n]

Effect(a, t) ==
    CASE t.kind = "approve"  -> [a EXCEPT !.allowance = Unlimited]
      [] t.kind \in {"register", "update"} -> [Deposited(a, t.amount) EXCEPT !.profile = t.profile]
      [] t.kind = "deposit"  -> Deposited(a, t.amount)
      [] t.kind = "withdraw" -> [a EXCEPT !.bond = @ - t.amount, !.wallet = @ + t.amount]
      [] t.kind = "claim"    -> [a EXCEPT !.rewards = 0, !.wallet = @ + a.rewards]

(* The first pending transaction of a network is mined. *)
Mine(i) ==
    LET n == txs[i].net IN
    /\ txs[i].status = "pending"
    /\ \A j \in 1..i - 1 : txs[j].net = n => txs[j].status # "pending"
    /\ \/ /\ Accepts(account[n], txs[i])
          /\ account' = [account EXCEPT ![n] = Effect(@, txs[i])]
          /\ txs' = [txs EXCEPT ![i] = [@ EXCEPT !.status = "ok"]]
       \/ /\ ~Accepts(account[n], txs[i])
          /\ txs' = [txs EXCEPT ![i] = [@ EXCEPT !.status = "reverted"]]
          /\ UNCHANGED account

(* The owner changes the profile with another program, a block explorer say. *)
OtherUpdate(n) ==
    /\ account[n].profile.exists
    /\ edits < MaxEdits /\ edits' = edits + 1
    /\ \E p \in OtherProfiles : account' = [account EXCEPT ![n] = [@ EXCEPT !.profile = p]]
    /\ UNCHANGED <<env, txs>>

=============================================================================
