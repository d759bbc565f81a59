------------------------------ MODULE PublishRun ------------------------------
(***************************************************************************)
(* What a publication promises the rest of the service                     *)
(* (src/utils/blockchain/publish-private-key.ts), whatever retries, late   *)
(* answers and failures it goes through: while it runs its sarcophagus is  *)
(* in the in-process list; the key gets on chain only after a run of that  *)
(* sarcophagus began; and the sarcophagus is written off only by a run     *)
(* that ends with the key on chain.  Publication implements this.          *)
(***************************************************************************)

CONSTANT Sarcos     \* sarcophagi whose keys are published

VARIABLES
    begun,      \* sarcophagi a publication was ever begun for
    inProcess,  \* sarcoIdsInProcessOfHavingPrivateKeyPublished
    published,  \* sarcophagi whose key is on chain
    dead        \* deadSarcophagusIds, as entered by publications

vars == <<begun, inProcess, published, dead>>

Init ==
    /\ begun = {} /\ inProcess = {}
    /\ published = {} /\ dead = {}

Begin(s) ==
    /\ s \notin inProcess
    /\ begun' = begun \cup {s}
    /\ inProcess' = inProcess \cup {s}
    /\ UNCHANGED <<published, dead>>

(* A transaction is mined: perhaps of a run that has already ended. *)
KeyOnChain(s) ==
    /\ s \in begun
    /\ published' = published \cup {s}
    /\ UNCHANGED <<begun, inProcess, dead>>

(* The finally block, after a receipt ... *)
EndUnwrapped(s) ==
    /\ s \in inProcess /\ s \in published
    /\ inProcess' = inProcess \ {s}
    /\ dead' = dead \cup {s}
    /\ UNCHANGED <<begun, published>>

(* ... or after an error. *)
EndFailed(s) ==
    /\ s \in inProcess
    /\ inProcess' = inProcess \ {s}
    /\ UNCHANGED <<begun, published, dead>>

(* The process dies: what it holds in memory is lost, the chain is not. *)
ProcessLost ==
    /\ inProcess' = {} /\ dead' = {}
    /\ UNCHANGED <<begun, published>>

Next ==
    \/ \E s \in Sarcos : Begin(s) \/ KeyOnChain(s) \/ EndUnwrapped(s) \/ EndFailed(s)
    \/ ProcessLost

Spec == Init /\ [][Next]_vars

=============================================================================
