------------------------------ MODULE Negotiation ------------------------------
(***************************************************************************)
(* Negotiations with embalmers on one network (src/models/archaeologist.ts,*)
(* src/models/key-finder.ts): an embalmer sends the terms of a sarcophagus *)
(* over a libp2p stream, the service compares them with the profile it has *)
(* in memory, counts its sarcophagi in the subgraph to choose the next     *)
(* encryption key, and signs terms and key.  Beside it the owner changes   *)
(* the profile on chain from the command line, embalmers create sarcophagi *)
(* from what was signed, the subgraph indexes them late or fails, block    *)
(* timestamps fall back to the clock, and connections and the process fail.*)
(*                                                                         *)
(* A fee is a text.  What the two uses the code makes of it see is kept:   *)
(* parseEther for the comparison, the text itself as a uint256 in what is  *)
(* signed.                                                                 *)
(***************************************************************************)
EXTENDS Integers, Sequences

CONSTANTS
    Embalmers,
    Profiles,       \* what registerArchaeologist and updateArchaeologist may store
    Proposals,      \* well-formed SarcophagusNegotiationParams
    Garbage,        \* a message that cannot be parsed
    Ether,          \* wei in an ether, 10^18
    Second,         \* milliseconds in a second, 1000
    Drift,          \* CREATION_TIMESTAMP_DRIFT_ALLOWED_MS
    Skew,           \* seconds the system clock is ahead of the chain
    PageSize,       \* `first' of getSarcophagiIds, 100
    Faults,         \* what may go wrong, of AllFaults
    Refetch,        \* REFETCH_CONTRACT_DATA is set
    MaxVersions, MaxSarcos, MaxNow, MaxMessages   \* bounds

AllFaults == {"subgraph", "timestamp", "connection", "crash"}

FeeTexts == [form : {"integer", "decimal", "other"}, n : Nat]

Profile == [rewrap : Nat, resurrection : Nat, diggingFee : Nat, curseFee : Nat]
Proposal ==
    [rewrap : Nat, resurrection : Nat, diggingFee : FeeTexts, curseFee : FeeTexts, timestamp : Nat]

ASSUME NegotiationAssumption ==
    /\ Profiles \subseteq Profile
    /\ Proposals \subseteq Proposal /\ Garbage \notin Proposals
    /\ {Ether, Second, PageSize} \subseteq Nat \ {0}
    /\ {Drift, Skew, MaxVersions, MaxSarcos, MaxNow, MaxMessages} \subseteq Nat
    /\ Faults \subseteq AllFaults
    /\ Refetch \in BOOLEAN

VARIABLES
    (* the chain and the subgraph *)
    now,        \* timestamp of the latest block, in seconds
    profiles,   \* the archaeologist's profile, version after version
    created,    \* key index of each sarcophagus made, in order
    indexed,    \* how many of them the subgraph knows
    (* the process *)
    since,      \* version on chain when the process started (history)
    cached,     \* version in inMemoryStore, 0 while it has no entry
    fetch,      \* the fetchProfileAndSchedulePublish call in flight
    stream,     \* each embalmer's stream and the handler reading it
    (* the embalmers *)
    signed,     \* agreements signed
    messages    \* messages handled

chainVars == <<now, profiles, created, indexed>>
processVars == <<since, cached, fetch>>
vars == <<chainVars, processVars, stream, signed, messages>>

Version == Len(profiles)

(* What a handler awaits: nothing for want of a stream, the next message, the
   block timestamp, the timestamp again for its error message, or a page. *)
Busy == {"timestamp", "tooLate", "count"}
Stages == {"none", "open"} \cup Busy

(* live: the stream's network context still has its connection.
   skip: how far the count has got; terms: the message being handled. *)
Idle(at, live) == [at |-> at, live |-> live, skip |-> 0, terms |-> Garbage]
NoStream == Idle("none", FALSE)

(* known: the sarcophagi in the subgraph when they were counted, if they were;
   since, when: the process's `since' and the block time of the signature. *)
Agreement ==
    [terms : Proposals, key : Nat \ {0}, counted : BOOLEAN, known : Nat,
     since : Nat \ {0}, when : Nat]

NoFetch == [at |-> "idle", version |-> 0]
FirstFetch == [at |-> "asked", version |-> 0]

TypeOK ==
    /\ now \in 0..MaxNow
    /\ profiles \in Seq(Profiles)
    /\ created \in Seq(Nat \ {0})
    /\ indexed \in 0..Len(created)
    /\ since \in 1..Version /\ cached \in 0..Version
    /\ fetch \in [at : {"idle", "asked", "read"}, version : 0..Version]
    /\ stream \in [Embalmers -> [at : Stages, live : BOOLEAN, skip : Nat,
                                 terms : Proposals \cup {Garbage}]]
    /\ signed \subseteq Agreement
    /\ messages \in 0..MaxMessages

Init ==
    /\ now = 0
    /\ profiles \in {<<p>> : p \in Profiles}
    /\ created = <<>> /\ indexed = 0
    /\ since = 1 /\ cached = 0 /\ fetch = FirstFetch
    /\ stream = [e \in Embalmers |-> NoStream]
    /\ signed = {} /\ messages = 0

-----------------------------------------------------------------------------
(* The two readings of a fee: parseEther's, of a text that is a number (a
   decimal one is given by the wei it parses to), and a uint256's. *)
Parses(fee) == fee.form # "other"
ParseEther(fee) == IF fee.form = "integer" THEN fee.n * Ether ELSE fee.n
Encodes(fee) == fee.form = "integer"
SignedWei(fee) == fee.n

Conforms(t, p) ==
    /\ t.rewrap <= p.rewrap
    /\ t.resurrection <= p.resurrection
    /\ Parses(t.diggingFee) /\ ParseEther(t.diggingFee) >= p.diggingFee
    /\ Parses(t.curseFee) /\ ParseEther(t.curseFee) >= p.curseFee

(* One of the comparisons, which are made in this order, fails before a text
   that is not a number throws. *)
Declined(t, p) ==
    \/ t.rewrap > p.rewrap
    \/ t.resurrection > p.resurrection
    \/ /\ Parses(t.diggingFee)
       /\ \/ ParseEther(t.diggingFee) < p.diggingFee
          \/ Parses(t.curseFee) /\ ParseEther(t.curseFee) < p.curseFee

(* Mutant: the fees are not compared. *)
VerdictNoFees(m) ==
    CASE m = Garbage \/ cached = 0 -> "throws"
      [] m.rewrap <= profiles[cached].rewrap -> "conforms"
      [] OTHER -> "declined"

(* What the handler makes of a message up to its first await.  Without an entry
   in the store, `.profile!' of undefined throws. *)
Verdict(m) ==
    CASE m = Garbage \/ cached = 0 -> "throws"
      [] m \in Proposals /\ cached # 0 /\ Conforms(m, profiles[cached]) -> "conforms"
      [] m \in Proposals /\ cached # 0 /\ Declined(m, profiles[cached]) -> "declined"
      [] OTHER -> "throws"

(* getBlockTimestamp: the latest block, or on an RPC error the clock. *)
BlockTimestamp == {now} \cup IF "timestamp" \in Faults THEN {now + Skew} ELSE {}

-----------------------------------------------------------------------------
(* The process. *)

(* An embalmer opens a stream; the handler takes the registered context. *)
OpenStream(e) ==
    /\ stream[e].at = "none"
    /\ stream' = [stream EXCEPT ![e] = Idle("open", TRUE)]
    /\ UNCHANGED <<chainVars, processVars, signed, messages>>

(* A message is read: an exception is answered with UNKNOWN_ERROR and the next
   message read, a term out of bounds with its error, after which nothing is. *)
Receive(e) ==
    /\ stream[e].at = "open"
    /\ messages < MaxMessages
    /\ messages' = messages + 1
    /\ \E m \in Proposals \cup {Garbage} :
          \/ Verdict(m) = "throws" /\ UNCHANGED stream
          \/ Verdict(m) = "declined" /\ stream' = [stream EXCEPT ![e] = NoStream]
          \/ /\ Verdict(m) = "conforms"
             /\ stream' = [stream EXCEPT ![e] = [@ EXCEPT !.at = "timestamp", !.terms = m]]
    /\ UNCHANGED <<chainVars, processVars, signed>>

(* Mutant: seconds taken for milliseconds. *)
TimestampReadSeconds(e) ==
    /\ stream[e].at = "timestamp" /\ stream[e].live
    /\ \E b \in BlockTimestamp :
          \/ /\ stream[e].terms.timestamp \div Second > b * Second + Drift
             /\ stream' = [stream EXCEPT ![e] = [@ EXCEPT !.at = "tooLate"]]
          \/ /\ stream[e].terms.timestamp \div Second <= b * Second + Drift
             /\ stream' = [stream EXCEPT ![e] = [@ EXCEPT !.at = "count"]]
    /\ UNCHANGED <<chainVars, processVars, signed, messages>>

(* The block timestamp the handler awaited; a call on a connection that is gone
   is never answered. *)
TimestampRead(e) ==
    /\ stream[e].at = "timestamp" /\ stream[e].live
    /\ \E b \in BlockTimestamp :
          \/ /\ stream[e].terms.timestamp > b * Second + Drift
             /\ stream' = [stream EXCEPT ![e] = [@ EXCEPT !.at = "tooLate"]]
          \/ /\ stream[e].terms.timestamp <= b * Second + Drift
             /\ stream' = [stream EXCEPT ![e] = [@ EXCEPT !.at = "count"]]
    /\ UNCHANGED <<chainVars, processVars, signed, messages>>

(* INVALID_TIMESTAMP, with a second reading in its text. *)
TooLateAnswered(e) ==
    /\ stream[e].at = "tooLate" /\ stream[e].live
    /\ stream' = [stream EXCEPT ![e] = NoStream]
    /\ UNCHANGED <<chainVars, processVars, signed, messages>>

(* Mutants: the count itself; one more than needed. *)
NextKeyZero(n) == n
NextKeyLate(n) == n + 2

(* getNextPublicKey's index for a number of sarcophagi. *)
NextKey(n) == n + 1

(* signPacked and the answer; a fee that is not an integer cannot be encoded
   and is answered with UNKNOWN_ERROR. *)
Sign(e, key, counted) ==
    LET terms == stream[e].terms IN
    /\ \/ /\ Encodes(terms.diggingFee) /\ Encodes(terms.curseFee)
          /\ signed' = signed \cup {[terms |-> terms, key |-> key, counted |-> counted,
                                     known |-> indexed, since |-> since, when |-> now]}
       \/ /\ ~Encodes(terms.diggingFee) \/ ~Encodes(terms.curseFee)
          /\ UNCHANGED signed
    /\ stream' = [stream EXCEPT ![e] = Idle("open", stream[e].live)]

(* Mutant: the last page's sarcophagi replace those of the pages before. *)
PageArrivesLast(e) ==
    /\ stream[e].at = "count"
    /\ LET skip == stream[e].skip
           left == indexed - skip
       IN  \/ left < PageSize /\ Sign(e, NextKey(left), TRUE)
           \/ /\ left >= PageSize
              /\ stream' = [stream EXCEPT ![e] = [@ EXCEPT !.skip = skip + PageSize]]
              /\ UNCHANGED signed
    /\ UNCHANGED <<chainVars, processVars, messages>>

(* Mutant: the next page is asked for with the same skip. *)
PageArrivesAgain(e) ==
    /\ stream[e].at = "count"
    /\ \/ indexed < PageSize /\ Sign(e, NextKey(indexed), TRUE)
       \/ indexed >= PageSize /\ UNCHANGED <<stream, signed>>
    /\ UNCHANGED <<chainVars, processVars, messages>>

(* A page of getSarcophagiIds arrives: a full one asks for the next. *)
PageArrives(e) ==
    /\ stream[e].at = "count"
    /\ LET skip == stream[e].skip
           left == indexed - skip
       IN  \/ left < PageSize /\ Sign(e, NextKey(skip + left), TRUE)
           \/ /\ left >= PageSize
              /\ stream' = [stream EXCEPT ![e] = [@ EXCEPT !.skip = skip + PageSize]]
              /\ UNCHANGED signed
    /\ UNCHANGED <<chainVars, processVars, messages>>

(* A query fails: getSarcophagiIds returns no sarcophagi at all. *)
CountFails(e) ==
    /\ "subgraph" \in Faults
    /\ stream[e].at = "count"
    /\ Sign(e, NextKey(0), FALSE)
    /\ UNCHANGED <<chainVars, processVars, messages>>

(* fetchProfileAndSchedulePublish reads the profile.  The first call works on
   an object of its own until it ends; a later one on the store's entry. *)
ProfileRead ==
    /\ fetch.at = "asked"
    /\ fetch' = [at |-> "read", version |-> Version]
    /\ cached' = IF cached = 0 THEN 0 ELSE Version
    /\ UNCHANGED <<chainVars, since, stream, signed, messages>>

FetchEnds ==
    /\ fetch.at = "read"
    /\ cached' = fetch.version
    /\ fetch' = NoFetch
    /\ UNCHANGED <<chainVars, since, stream, signed, messages>>

RefetchInterval ==
    /\ Refetch /\ fetch = NoFetch
    /\ fetch' = FirstFetch
    /\ UNCHANGED <<chainVars, since, cached, stream, signed, messages>>

(* A provider closes: the calls on it wait for ever, the sync's too, which
   nobody repeats. *)
ConnectionResets ==
    /\ "connection" \in Faults
    /\ stream' = [e \in Embalmers |-> [stream[e] EXCEPT !.live = FALSE]]
    /\ fetch' = NoFetch
    /\ UNCHANGED <<chainVars, since, cached, signed, messages>>

(* The process dies and is restarted, with an empty store and no streams. *)
ProcessRestarts ==
    /\ "crash" \in Faults
    /\ since' = Version /\ cached' = 0 /\ fetch' = FirstFetch
    /\ stream' = [e \in Embalmers |-> NoStream]
    /\ UNCHANGED <<chainVars, signed, messages>>

-----------------------------------------------------------------------------
(* The surroundings. *)
EmbalmerLeaves(e) ==
    /\ stream[e].at = "open"
    /\ stream' = [stream EXCEPT ![e] = NoStream]
    /\ UNCHANGED <<chainVars, processVars, signed, messages>>

(* createSarcophagus takes keys and terms that the archaeologist signed. *)
CreateSarcophagus ==
    /\ Len(created) < MaxSarcos
    /\ \E a \in signed : created' = Append(created, a.key)
    /\ UNCHANGED <<now, profiles, indexed, processVars, stream, signed, messages>>

SubgraphIndexes ==
    /\ indexed < Len(created)
    /\ indexed' = indexed + 1
    /\ UNCHANGED <<now, profiles, created, processVars, stream, signed, messages>>

(* The command line's update, in a process of its own. *)
UpdateProfile ==
    /\ Version < MaxVersions
    /\ \E p \in Profiles : profiles' = Append(profiles, p)
    /\ UNCHANGED <<now, created, indexed, processVars, stream, signed, messages>>

Tick ==
    /\ now < MaxNow
    /\ now' = now + 1
    /\ UNCHANGED <<profiles, created, indexed, processVars, stream, signed, messages>>

HandlerStep(e) == TimestampRead(e) \/ TooLateAnswered(e) \/ PageArrives(e) \/ CountFails(e)

Next ==
    \/ \E e \in Embalmers : OpenStream(e) \/ Receive(e) \/ HandlerStep(e) \/ EmbalmerLeaves(e)
    \/ ProfileRead \/ FetchEnds \/ RefetchInterval
    \/ ConnectionResets \/ ProcessRestarts
    \/ CreateSarcophagus \/ SubgraphIndexes \/ UpdateProfile \/ Tick

Spec == Init /\ [][Next]_vars

(* Calls on an open connection, and those to the subgraph, are answered. *)
FairSpec ==
    /\ Spec
    /\ \A e \in Embalmers :
          WF_vars(TimestampRead(e)) /\ WF_vars(TooLateAnswered(e)) /\ WF_vars(PageArrives(e))

-----------------------------------------------------------------------------
(* What was signed conforms with a profile that was on chain while the process
   that signed it ran, however the profile changes beneath the cached one. *)
SignedSinceStart ==
    \A a \in signed : \E v \in a.since..Version : Conforms(a.terms, profiles[v])

(* A key that was chosen by a count is not the key of a sarcophagus that was
   counted, however many pages the count took and whatever was indexed meanwhile;
   two keys can only be the same if the second was chosen before the first's
   sarcophagus was indexed, or a query failed. *)
FreshAgainstIndex ==
    \A a \in signed : a.counted => \A i \in 1..a.known : created[i] # a.key

(* The n-th sarcophagus has one of the first n keys: this bounds the search of
   deriveHdWalletFromPublicKey, which tries index after index from 0. *)
KeyWithinReach == \A n \in 1..Len(created) : created[n] <= n

(* No signature is for a creation time later than the drift allows, by the
   chain's time or the clock it falls back to. *)
NotSignedAhead ==
    \A a \in signed :
        (a.terms.timestamp \div Second) * Second <= (a.when + Skew) * Second + Drift

(* Every message is answered, but for those on a connection that is gone. *)
EveryMessageAnswered ==
    \A e \in Embalmers :
        stream[e].at \in Busy ~> (stream[e].at \notin Busy \/ ~stream[e].live)

(* archaeologist.ts:134 and :185: the fee "is assumed to, and should, be in
   wei" and is validated to be "sufficient"; so what is signed, which the
   contract takes for wei, should reach the minimum of the profile. *)
SignedFeesSuffice ==
    \A a \in signed : \E v \in a.since..Version :
        /\ SignedWei(a.terms.diggingFee) >= profiles[v].diggingFee
        /\ SignedWei(a.terms.curseFee) >= profiles[v].curseFee

=============================================================================
