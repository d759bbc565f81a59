------------------------- MODULE SarcophagusContract -------------------------
(***************************************************************************)
(* What the service assumes of its two sources of truth, neither of which  *)
(* is part of the repository: the Sarcophagus diamond contract, seen by    *)
(* one cursed archaeologist, and the subgraph that indexes it.             *)
(*                                                                         *)
(* `published' is about this archaeologist's key.  A sarcophagus can be    *)
(* rewrapped, buried and accused only before its resurrection time, a key  *)
(* is accepted from that time until the grace period ends, and cleaning is *)
(* for what was not published by then.                                     *)
(***************************************************************************)
EXTENDS Integers

CONSTANTS
    Sarcos,         \* sarcophagi this archaeologist gets cursed on
    Times,          \* resurrection times embalmers choose from
    Grace,          \* gracePeriod
    SubgraphLags,   \* may the subgraph index a sarcophagus later?
    MaxTime         \* bound on the clock

ASSUME ContractAssumption ==
    /\ Times \subseteq Nat \ {0}
    /\ Grace \in Nat
    /\ SubgraphLags \in BOOLEAN
    /\ MaxTime \in Nat

VARIABLES
    now,        \* block.timestamp
    sarco,      \* each sarcophagus as the contract stores it
    indexed     \* the sarcophagi the subgraph returns

contractVars == <<now, sarco, indexed>>

Status == {"absent", "active", "buried", "compromised", "cleaned"}

ContractTypeOK ==
    /\ now \in Nat
    /\ sarco \in [Sarcos -> [status : Status, res : Times \cup {0}, published : BOOLEAN]]
    /\ indexed \subseteq Sarcos

ContractInit ==
    /\ now = 0
    /\ sarco = [s \in Sarcos |-> [status |-> "absent", res |-> 0, published |-> FALSE]]
    /\ indexed = {}

Active(s) == sarco[s].status = "active"
GraceOver(s) == now > sarco[s].res + Grace

(* The archaeologist owes its key: the bond is lost if it is not published. *)
Owed(s) == Active(s) /\ ~sarco[s].published /\ ~GraceOver(s)

(* ArchaeologistFacet.publishPrivateKey does not revert. *)
PublishAccepted(s) == Owed(s) /\ sarco[s].res <= now

-----------------------------------------------------------------------------
Create(s, r) ==
    /\ sarco[s].status = "absent"
    /\ r > now
    /\ sarco' = [sarco EXCEPT ![s] = [status |-> "active", res |-> r, published |-> FALSE]]
    /\ indexed' = IF SubgraphLags THEN indexed ELSE indexed \cup {s}

Rewrap(s, r) ==
    /\ Active(s) /\ now < sarco[s].res
    /\ r > now /\ r # sarco[s].res
    /\ sarco' = [sarco EXCEPT ![s].res = r]
    /\ UNCHANGED indexed

Bury(s) ==
    /\ Active(s) /\ now < sarco[s].res
    /\ sarco' = [sarco EXCEPT ![s].status = "buried"]
    /\ UNCHANGED indexed

(* Accusing compromises the sarcophagus once enough key shares leaked. *)
Accuse(s) ==
    /\ Active(s) /\ now < sarco[s].res
    /\ \E status \in {"active", "compromised"} :
          sarco' = [sarco EXCEPT ![s].status = status]
    /\ UNCHANGED indexed

Clean(s) ==
    /\ Active(s) /\ ~sarco[s].published /\ GraceOver(s)
    /\ sarco' = [sarco EXCEPT ![s].status = "cleaned"]
    /\ UNCHANGED indexed

Publish(s) ==
    /\ PublishAccepted(s)
    /\ sarco' = [sarco EXCEPT ![s].published = TRUE]
    /\ UNCHANGED indexed

Index(s) ==
    /\ sarco[s].status # "absent"
    /\ s \notin indexed
    /\ indexed' = indexed \cup {s}
    /\ UNCHANGED sarco

=============================================================================
