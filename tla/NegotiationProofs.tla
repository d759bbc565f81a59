-------------------------- MODULE NegotiationProofs --------------------------
(***************************************************************************)
(* What is signed, for any profiles, proposals, embalmers, page size and   *)
(* number of sarcophagi.                                                   *)
(*                                                                         *)
(* The inductive invariant follows a proposal from the comparison with the *)
(* cached profile over the awaits to the signature, and a count from page  *)
(* to page while the subgraph goes on indexing.                            *)
(***************************************************************************)
EXTENDS Negotiation, TLAPS

(* Terms a profile of version v or later allows. *)
AllowedSince(t, v) == \E w \in v..Version : Conforms(t, profiles[w])

(* A creation time the drift allows at block time b. *)
InTime(t, b) == t.timestamp <= (b + Skew) * Second + Drift

(* What the process has read of the profile is not older than itself. *)
CacheFresh ==
    /\ cached # 0 => cached >= since
    /\ fetch.at = "read" => fetch.version >= since

StreamOK(st) ==
    /\ st.skip <= indexed
    /\ st.at \in Busy => st.terms \in Proposals /\ AllowedSince(st.terms, since)
    /\ st.at = "count" => InTime(st.terms, now)

AgreementOK(a) ==
    /\ AllowedSince(a.terms, a.since)
    /\ InTime(a.terms, a.when)
    /\ a.known <= Len(created) /\ a.key <= a.known + 1
    /\ a.counted => a.key = a.known + 1

NegotiationInv ==
    /\ TypeOK
    /\ CacheFresh
    /\ \A e \in Embalmers : StreamOK(stream[e])
    /\ \A a \in signed : AgreementOK(a)
    /\ KeyWithinReach

-----------------------------------------------------------------------------
(* A stream that waits for a message holds nothing of an earlier one. *)
StreamType ==
    [at : Stages, live : BOOLEAN, skip : Nat, terms : Proposals \cup {Garbage}]

LEMMA IdleType ==
    ASSUME NEW live \in BOOLEAN, NEW at \in {"none", "open"}
    PROVE  Idle(at, live) \in StreamType
  BY DEF Idle, StreamType, Stages, Busy

LEMMA StreamUpdates ==
    ASSUME NEW st \in StreamType, NEW at \in Stages, NEW m \in Proposals \cup {Garbage},
           NEW k \in Nat
    PROVE  /\ [st EXCEPT !.at = at] \in StreamType
           /\ [st EXCEPT !.at = at, !.terms = m] \in StreamType
           /\ [st EXCEPT !.skip = k] \in StreamType
           /\ [st EXCEPT !.live = FALSE] \in StreamType
  BY DEF StreamType

LEMMA InitInv == Init => NegotiationInv
<1> SUFFICES ASSUME Init PROVE NegotiationInv
  OBVIOUS
<1> USE NegotiationAssumption DEF Init
<1>1. TypeOK
  <2>1. Version = 1 /\ profiles \in Seq(Profiles)
    <3>1. PICK p \in Profiles : profiles = <<p>>
      OBVIOUS
    <3> QED BY <3>1 DEF Version
  <2>2. NoStream \in StreamType
    BY IdleType DEF NoStream
  <2> QED BY <2>1, <2>2 DEF TypeOK, FirstFetch, StreamType
<1>2. CacheFresh /\ KeyWithinReach
  BY DEF CacheFresh, KeyWithinReach, FirstFetch
<1>3. \A e \in Embalmers : StreamOK(stream[e])
  <2>1. StreamOK(NoStream)
    BY DEF StreamOK, NoStream, Idle, Busy
  <2> QED BY <2>1
<1> QED BY <1>1, <1>2, <1>3 DEF NegotiationInv

(* The sizes involved are numbers. *)
LEMMA Sizes ==
    ASSUME TypeOK
    PROVE  /\ now \in Nat /\ indexed \in Nat /\ Len(created) \in Nat /\ Version \in Nat
           /\ indexed <= Len(created) /\ since \in 1..Version /\ cached \in 0..Version
           /\ fetch.version \in 0..Version
  BY NegotiationAssumption DEF TypeOK, Version

LEMMA NatSums == ASSUME NEW m \in Nat, NEW n \in Nat PROVE m + n \in Nat /\ m + (n - m) \in Nat
  OBVIOUS

LEMMA NextKeyType == ASSUME NEW n \in Nat PROVE NextKey(n) \in Nat \ {0} /\ NextKey(n) = n + 1
  BY DEF NextKey

(* What a signature adds. *)
LEMMA SignTypes ==
    ASSUME TypeOK, NEW e \in Embalmers, NEW key \in Nat \ {0}, NEW counted \in BOOLEAN,
           stream[e].terms \in Proposals, Sign(e, key, counted)
    PROVE  /\ signed' \subseteq Agreement
           /\ stream' \in [Embalmers -> StreamType]
<1> DEFINE a == [terms |-> stream[e].terms, key |-> key, counted |-> counted,
                 known |-> indexed, since |-> since, when |-> now]
<1>1. a \in Agreement
  <2>1. indexed \in Nat /\ now \in Nat /\ since \in Nat \ {0}
    BY Sizes
  <2> QED BY <2>1 DEF Agreement
<1>2. signed' \subseteq signed \cup {a}
  BY DEF Sign
<1>3. Idle("open", stream[e].live) \in StreamType
  BY IdleType DEF TypeOK
<1>4. stream' = [stream EXCEPT ![e] = Idle("open", stream[e].live)]
  BY DEF Sign
<1> HIDE DEF a
<1> QED BY <1>1, <1>2, <1>3, <1>4 DEF TypeOK, StreamType

LEMMA TypeStep == NegotiationInv /\ [Next]_vars => TypeOK'
<1> SUFFICES ASSUME NegotiationInv, [Next]_vars PROVE TypeOK'
  OBVIOUS
<1>0. TypeOK
  BY DEF NegotiationInv
<1>a. stream \in [Embalmers -> StreamType]
  BY <1>0 DEF TypeOK, StreamType
<1>b. indexed \in Nat /\ Len(created) \in Nat /\ PageSize \in Nat
  BY <1>0, Sizes, NegotiationAssumption
<1>d. ASSUME stream' \in [Embalmers -> StreamType], UNCHANGED <<chainVars, processVars, signed>>,
             messages' \in 0..MaxMessages
      PROVE  TypeOK'
  BY <1>0, <1>d DEF TypeOK, StreamType, chainVars, processVars, Version
<1>e. messages \in 0..MaxMessages
  BY <1>0 DEF TypeOK
<1>c. "count" \in Stages /\ "timestamp" \in Stages /\ Garbage \in Proposals \cup {Garbage} /\ 0 \in Nat
  BY DEF Stages, Busy
<1>1. ASSUME NEW e \in Embalmers, OpenStream(e) \/ TooLateAnswered(e) \/ EmbalmerLeaves(e) PROVE TypeOK'
  <2>1. \E at \in {"none", "open"}, live \in BOOLEAN : stream' = [stream EXCEPT ![e] = Idle(at, live)]
    BY <1>1 DEF OpenStream, TooLateAnswered, EmbalmerLeaves, NoStream
  <2>2. stream' \in [Embalmers -> StreamType]
    <3>1. PICK at \in {"none", "open"}, live \in BOOLEAN :
             stream' = [stream EXCEPT ![e] = Idle(at, live)]
      BY <2>1
    <3>2. Idle(at, live) \in StreamType
      BY IdleType
    <3> QED BY <1>a, <3>1, <3>2
  <2>3. UNCHANGED <<chainVars, processVars, signed, messages>>
    BY <1>1 DEF OpenStream, TooLateAnswered, EmbalmerLeaves
  <2> QED BY <1>d, <1>e, <2>2, <2>3
<1>2. ASSUME NEW e \in Embalmers, Receive(e) PROVE TypeOK'
  <2>1. PICK m \in Proposals \cup {Garbage} :
           \/ UNCHANGED stream
           \/ stream' = [stream EXCEPT ![e] = NoStream]
           \/ stream' = [stream EXCEPT ![e] = [stream[e] EXCEPT !.at = "timestamp", !.terms = m]]
    BY <1>2 DEF Receive
  <2>2. NoStream \in StreamType
    BY IdleType DEF NoStream
  <2>3. [stream[e] EXCEPT !.at = "timestamp", !.terms = m] \in StreamType
    BY <1>a, <1>c, StreamUpdates
  <2>4. stream' \in [Embalmers -> StreamType]
    BY <1>a, <2>1, <2>2, <2>3
  <2>5. messages < MaxMessages /\ messages' = messages + 1
    BY <1>2 DEF Receive
  <2>6. messages' \in 0..MaxMessages
    BY <1>e, <2>5, NegotiationAssumption
  <2>7. UNCHANGED <<chainVars, processVars, signed>>
    BY <1>2 DEF Receive
  <2> QED BY <1>d, <2>4, <2>6, <2>7
<1>3. ASSUME NEW e \in Embalmers, TimestampRead(e) PROVE TypeOK'
  <2>1. PICK at \in Stages : stream' = [stream EXCEPT ![e] = [stream[e] EXCEPT !.at = at]]
    BY <1>3 DEF TimestampRead, Stages, Busy
  <2>2. [stream[e] EXCEPT !.at = at] \in StreamType
    BY <1>a, <1>c, StreamUpdates
  <2>3. stream' \in [Embalmers -> StreamType]
    BY <1>a, <2>1, <2>2
  <2>4. UNCHANGED <<chainVars, processVars, signed, messages>>
    BY <1>3 DEF TimestampRead
  <2> QED BY <1>d, <1>e, <2>3, <2>4
<1>10. CASE UpdateProfile
  <2>1. PICK p \in Profiles : profiles' = Append(profiles, p)
    BY <1>10 DEF UpdateProfile
  <2>2. profiles' \in Seq(Profiles) /\ Len(profiles') = Len(profiles) + 1
    BY <1>0, <2>1 DEF TypeOK
  <2>3. UNCHANGED <<since, cached, fetch>>
    BY <1>10 DEF UpdateProfile, processVars
  <2>4. Len(profiles) \in Nat /\ since \in 1..Len(profiles) /\ cached \in 0..Len(profiles)
    BY <1>0, Sizes DEF Version
  <2>5. since' \in 1..Len(profiles') /\ cached' \in 0..Len(profiles')
    BY <2>2, <2>3, <2>4
  <2>6. fetch' \in [at : {"idle", "asked", "read"}, version : 0..Len(profiles')]
    <3>1. 0..Len(profiles) \subseteq 0..Len(profiles')
      BY <2>2, <2>4
    <3>2. fetch \in [at : {"idle", "asked", "read"}, version : 0..Len(profiles)]
      BY <1>0 DEF TypeOK, Version
    <3> HIDE DEF Version
    <3> QED BY <2>3, <3>1, <3>2
  <2> QED BY <1>0, <1>10, <2>2, <2>5, <2>6 DEF UpdateProfile, TypeOK, Version
<1> USE <1>0, NegotiationAssumption DEF TypeOK, chainVars, processVars, Version
<1>4. ASSUME NEW e \in Embalmers, PageArrives(e) PROVE TypeOK'
  <2>0. stream[e].at = "count" /\ stream[e].terms \in Proposals /\ stream[e].skip \in Nat
    BY <1>4 DEF PageArrives, NegotiationInv, StreamOK, Busy
  <2>a. stream[e] \in StreamType
    BY <1>a
  <2>1. CASE Sign(e, NextKey(stream[e].skip + (indexed - stream[e].skip)), TRUE)
    <3>1. NextKey(stream[e].skip + (indexed - stream[e].skip)) \in Nat \ {0}
      <4>1. stream[e].skip + (indexed - stream[e].skip) \in Nat
        BY <1>b, <2>0, NatSums
      <4> QED BY <4>1, NextKeyType
    <3> QED BY <1>4, <2>0, <2>1, <3>1, SignTypes DEF PageArrives, StreamType
  <2>2. CASE /\ stream' = [stream EXCEPT ![e] = [stream[e] EXCEPT !.skip = stream[e].skip + PageSize]]
             /\ UNCHANGED signed
    <3>1. [stream[e] EXCEPT !.skip = stream[e].skip + PageSize] \in StreamType
      <4>1. stream[e].skip + PageSize \in Nat
        BY <1>b, <2>0, NatSums
      <4> QED BY <1>c, <2>a, <4>1, StreamUpdates
    <3>2. stream' \in [Embalmers -> StreamType]
      BY <1>a, <2>2, <3>1
    <3> QED BY <1>4, <2>2, <3>2 DEF PageArrives, StreamType
  <2> QED BY <1>4, <2>1, <2>2 DEF PageArrives
<1>5. ASSUME NEW e \in Embalmers, CountFails(e) PROVE TypeOK'
  <2>1. stream[e].terms \in Proposals
    BY <1>5 DEF CountFails, NegotiationInv, StreamOK, Busy
  <2>2. Sign(e, NextKey(0), FALSE) /\ NextKey(0) \in Nat \ {0}
    BY <1>5, <1>c, NextKeyType DEF CountFails
  <2> QED BY <1>5, <2>1, <2>2, SignTypes DEF CountFails, StreamType
<1>6. CASE ProfileRead \/ FetchEnds \/ RefetchInterval
  <2>1. Version \in Nat /\ Version >= 1
    OBVIOUS
  <2>2. /\ fetch' \in [at : {"idle", "asked", "read"}, version : 0..Version]
        /\ cached' \in 0..Version
    <3>1. CASE ProfileRead
      BY <2>1, <3>1 DEF ProfileRead
    <3>2. CASE FetchEnds
      BY <2>1, <3>2 DEF FetchEnds, NoFetch
    <3>3. CASE RefetchInterval
      BY <2>1, <3>3 DEF RefetchInterval, FirstFetch
    <3> QED BY <1>6, <3>1, <3>2, <3>3
  <2> QED BY <1>6, <2>2 DEF ProfileRead, FetchEnds, RefetchInterval
<1>7. CASE ConnectionResets
  <2>1. \A e \in Embalmers : [stream[e] EXCEPT !.live = FALSE] \in StreamType
    BY <1>a, <1>c, StreamUpdates
  <2> QED BY <1>7, <2>1 DEF ConnectionResets, NoFetch, StreamType
<1>8. CASE ProcessRestarts
  <2>1. NoStream \in StreamType
    BY IdleType DEF NoStream
  <2>2. stream' \in [Embalmers -> StreamType]
    BY <1>8, <2>1 DEF ProcessRestarts
  <2>3. Version \in Nat /\ Version >= 1
    OBVIOUS
  <2>4. since' \in 1..Version /\ cached' \in 0..Version
    BY <1>8, <2>3 DEF ProcessRestarts
  <2>5. fetch' \in [at : {"idle", "asked", "read"}, version : 0..Version]
    BY <1>8, <2>3 DEF ProcessRestarts, FirstFetch
  <2>6. UNCHANGED <<chainVars, signed, messages>>
    BY <1>8 DEF ProcessRestarts
  <2> HIDE DEF Version
  <2> QED BY <2>2, <2>4, <2>5, <2>6 DEF StreamType, Version
<1>9. CASE CreateSarcophagus \/ SubgraphIndexes
  <2>1. CASE CreateSarcophagus
    <3>1. PICK a \in signed : created' = Append(created, a.key)
      BY <2>1 DEF CreateSarcophagus
    <3>2. a.key \in Nat \ {0}
      BY DEF Agreement
    <3>3. created' \in Seq(Nat \ {0}) /\ Len(created') = Len(created) + 1
      BY <3>1, <3>2
    <3>4. indexed \in 0..Len(created')
      BY <1>b, <3>3
    <3> QED BY <2>1, <3>3, <3>4 DEF CreateSarcophagus
  <2>2. CASE SubgraphIndexes
    BY <2>2 DEF SubgraphIndexes
  <2> QED BY <1>9, <2>1, <2>2
<1>11. CASE Tick
  BY <1>11 DEF Tick
<1>12. CASE UNCHANGED vars
  BY <1>12 DEF vars
<1> QED BY <1>1, <1>2, <1>3, <1>4, <1>5, <1>6, <1>7, <1>8, <1>9, <1>10, <1>11, <1>12
        DEF Next, HandlerStep

-----------------------------------------------------------------------------
(* The chain only grows. *)
ChainGrowth ==
    /\ now' = now \/ now' = now + 1
    /\ indexed' >= indexed
    /\ Len(created') >= Len(created)
    /\ Len(profiles') >= Version
    /\ \A v \in 1..Version : profiles'[v] = profiles[v]

LEMMA ChainGrows == ASSUME TypeOK, [Next]_vars PROVE ChainGrowth
<1> USE DEF TypeOK, ChainGrowth, Version
<1>1. CASE UpdateProfile
  <2>1. PICK p \in Profiles : profiles' = Append(profiles, p)
    BY <1>1 DEF UpdateProfile
  <2> QED BY <1>1, <2>1 DEF UpdateProfile
<1>2. CASE CreateSarcophagus
  <2>1. PICK a \in signed : created' = Append(created, a.key)
    BY <1>2 DEF CreateSarcophagus
  <2>2. Len(created') = Len(created) + 1
    BY <2>1
  <2> QED BY <1>2, <2>2 DEF CreateSarcophagus
<1>3. CASE SubgraphIndexes
  BY <1>3 DEF SubgraphIndexes
<1>4. CASE Tick
  BY <1>4 DEF Tick
<1>5. CASE UNCHANGED chainVars
  BY <1>5 DEF chainVars
<1> QED BY <1>1, <1>2, <1>3, <1>4, <1>5
        DEF Next, HandlerStep, OpenStream, Receive, TimestampRead, TooLateAnswered, PageArrives,
            CountFails, EmbalmerLeaves, ProfileRead, FetchEnds, RefetchInterval, ConnectionResets,
            ProcessRestarts, vars

LEMMA SizesNext ==
    ASSUME TypeOK'
    PROVE  /\ now' \in Nat /\ indexed' \in Nat /\ Len(created') \in Nat /\ Len(profiles') \in Nat
           /\ since' \in Nat \ {0}
  BY NegotiationAssumption DEF TypeOK, Version

LEMMA TimesGrows == ASSUME NEW x \in Nat, NEW d \in Nat, NEW y \in Nat PROVE (x + d) * y >= x * y
<1>1. (x + d) * y = x * y + d * y
  OBVIOUS
<1>2. x * y \in Nat /\ d * y \in Nat
  OBVIOUS
<1> QED BY <1>1, <1>2

(* The parts of the invariant in the next state. *)
AllowedNext(t, v) == \E w \in v..Len(profiles') : Conforms(t, profiles'[w])

StreamOKNext(st) ==
    /\ st.skip <= indexed'
    /\ st.at \in Busy => st.terms \in Proposals /\ AllowedNext(st.terms, since')
    /\ st.at = "count" => InTime(st.terms, now')

AgreementOKNext(a) ==
    /\ AllowedNext(a.terms, a.since)
    /\ InTime(a.terms, a.when)
    /\ a.known <= Len(created') /\ a.key <= a.known + 1
    /\ a.counted => a.key = a.known + 1

LEMMA AllowedGrows ==
    ASSUME TypeOK, TypeOK', ChainGrowth, NEW t, NEW v \in Nat \ {0}, AllowedSince(t, v)
    PROVE  AllowedNext(t, v)
<1>1. PICK w \in v..Version : Conforms(t, profiles[w])
  BY DEF AllowedSince
<1>2. w \in 1..Version /\ w \in v..Len(profiles')
  <2>1. Version \in Nat /\ Len(profiles') \in Nat
    BY Sizes, SizesNext
  <2>2. Len(profiles') >= Version
    BY DEF ChainGrowth
  <2> QED BY <2>1, <2>2
<1>3. profiles'[w] = profiles[w]
  BY <1>2 DEF ChainGrowth
<1> QED BY <1>1, <1>2, <1>3 DEF AllowedNext

(* What the drift allows now it allows a second later. *)
LEMMA InTimeLater ==
    ASSUME NEW t \in Proposals, NEW b \in Nat, InTime(t, b)
    PROVE  InTime(t, b + 1)
<1>1. t.timestamp \in Nat
  BY NegotiationAssumption DEF Proposal
<1>2. (b + 1 + Skew) * Second >= (b + Skew) * Second
  <2>1. ASSUME NEW x \in Nat, NEW y \in Nat PROVE (x + 1) * y >= x * y
    OBVIOUS
  <2>2. b + Skew \in Nat /\ Second \in Nat /\ b + 1 + Skew = (b + Skew) + 1
    BY NegotiationAssumption
  <2> HIDE DEF InTime
  <2> QED BY <2>1, <2>2
<1>3. (b + 1 + Skew) * Second \in Int /\ (b + Skew) * Second \in Int /\ Drift \in Nat
  BY NegotiationAssumption
<1> QED BY <1>1, <1>2, <1>3 DEF InTime

(* An agreement stays one, and so does a handler's stream while the process
   lives. *)
LEMMA AgreementKept ==
    ASSUME TypeOK, TypeOK', ChainGrowth, NEW a \in Agreement, AgreementOK(a)
    PROVE  AgreementOKNext(a)
<1>1. AllowedNext(a.terms, a.since)
  BY AllowedGrows DEF AgreementOK, Agreement
<1>2. a.known <= Len(created')
  <2>1. a.known \in Nat /\ Len(created) \in Nat /\ Len(created') \in Nat
    BY Sizes, SizesNext DEF Agreement
  <2>2. a.known <= Len(created) /\ Len(created') >= Len(created)
    BY DEF AgreementOK, ChainGrowth
  <2> QED BY <2>1, <2>2
<1> QED BY <1>1, <1>2 DEF AgreementOK, AgreementOKNext

LEMMA StreamKept ==
    ASSUME TypeOK, TypeOK', ChainGrowth, since' = since, NEW st \in StreamType, StreamOK(st)
    PROVE  StreamOKNext(st)
<1>1. st.skip <= indexed'
  BY DEF StreamOK, StreamType, ChainGrowth, TypeOK
<1>2. ASSUME st.at \in Busy PROVE st.terms \in Proposals /\ AllowedNext(st.terms, since')
  <2>1. st.terms \in Proposals /\ AllowedSince(st.terms, since) /\ since \in Nat \ {0}
    BY <1>2, Sizes DEF StreamOK
  <2> QED BY <2>1, AllowedGrows
<1>3. ASSUME st.at = "count" PROVE InTime(st.terms, now')
  <2>1. st.terms \in Proposals /\ InTime(st.terms, now) /\ now \in Nat
    BY <1>3 DEF StreamOK, Busy, TypeOK
  <2> QED BY <2>1, InTimeLater DEF ChainGrowth
<1> QED BY <1>1, <1>2, <1>3 DEF StreamOKNext

(* A stream without a message in hand. *)
LEMMA IdleOK ==
    ASSUME TypeOK', NEW at \in {"none", "open"}, NEW live
    PROVE  StreamOKNext(Idle(at, live))
  BY DEF StreamOKNext, Idle, Busy, TypeOK

(* What Sign adds is an agreement within bounds. *)
LEMMA SignOK ==
    ASSUME NegotiationInv, TypeOK', ChainGrowth, NEW e \in Embalmers, stream[e].at = "count",
           NEW key \in Nat \ {0}, NEW counted \in BOOLEAN, Sign(e, key, counted),
           key <= indexed + 1, counted => key = indexed + 1, since' = since
    PROVE  /\ \A a \in signed' : AgreementOKNext(a)
           /\ \A f \in Embalmers : StreamOKNext(stream'[f])
<1> DEFINE new == [terms |-> stream[e].terms, key |-> key, counted |-> counted,
                   known |-> indexed, since |-> since, when |-> now]
<1>0. TypeOK /\ \A f \in Embalmers : StreamOK(stream[f]) /\ stream[f] \in StreamType
  BY DEF NegotiationInv, TypeOK, StreamType
<1>1. signed' \subseteq signed \cup {new}
  BY DEF Sign
<1>2. AgreementOK(new) /\ new \in Agreement
  <2>1. stream[e].terms \in Proposals /\ AllowedSince(stream[e].terms, since) /\ InTime(stream[e].terms, now)
    BY <1>0 DEF StreamOK, Busy
  <2>2. indexed <= Len(created) /\ indexed \in Nat /\ now \in Nat /\ since \in Nat \ {0}
    BY DEF NegotiationInv, TypeOK, Version
  <2> QED BY <2>1, <2>2 DEF AgreementOK, Agreement
<1> HIDE DEF new
<1>3. \A a \in signed' : AgreementOKNext(a)
  BY <1>0, <1>1, <1>2, AgreementKept DEF NegotiationInv, TypeOK
<1>4. ASSUME NEW f \in Embalmers PROVE StreamOKNext(stream'[f])
  <2>1. CASE f = e
    <3>1. stream'[e] = Idle("open", stream[e].live)
      BY <1>0 DEF Sign, TypeOK
    <3> QED BY <2>1, <3>1, IdleOK
  <2>2. CASE f # e
    <3>1. stream'[f] = stream[f]
      BY <1>0, <2>2 DEF Sign, TypeOK
    <3> QED BY <1>0, <3>1, StreamKept
  <2> QED BY <2>1, <2>2
<1> QED BY <1>3, <1>4

LEMMA InvStep == NegotiationInv /\ [Next]_vars => NegotiationInv'
<1> SUFFICES ASSUME NegotiationInv, [Next]_vars PROVE NegotiationInv'
  OBVIOUS
<1>1. TypeOK /\ TypeOK' /\ ChainGrowth
  BY TypeStep, ChainGrows DEF NegotiationInv
<1>2. /\ \A e \in Embalmers : StreamOK(stream[e]) /\ stream[e] \in StreamType
      /\ \A a \in signed : AgreementOK(a) /\ a \in Agreement
  BY <1>1 DEF NegotiationInv, TypeOK, StreamType
<1>3. CacheFresh'
  <2>1. CacheFresh /\ since \in 1..Version /\ Version \in Nat
    BY <1>1, Sizes DEF NegotiationInv
  <2>2. CASE ProfileRead
    <3>1. fetch'.version = Version /\ since' = since /\ cached' \in {0, Version}
      BY <2>2 DEF ProfileRead, processVars
    <3> QED BY <2>1, <3>1 DEF CacheFresh
  <2>3. CASE FetchEnds
    BY <2>1, <2>3 DEF FetchEnds, NoFetch, CacheFresh
  <2>4. CASE RefetchInterval \/ ConnectionResets \/ ProcessRestarts
    BY <2>1, <2>4 DEF RefetchInterval, ConnectionResets, ProcessRestarts, NoFetch, FirstFetch, CacheFresh
  <2>5. CASE UNCHANGED processVars
    BY <2>1, <2>5 DEF processVars, CacheFresh
  <2> QED BY <2>2, <2>3, <2>4, <2>5
          DEF Next, HandlerStep, OpenStream, Receive, TimestampRead, TooLateAnswered, PageArrives,
              CountFails, EmbalmerLeaves, CreateSarcophagus, SubgraphIndexes, UpdateProfile, Tick, vars
<1>4. KeyWithinReach'
  <2>1. CASE CreateSarcophagus
    <3>1. PICK a \in signed : created' = Append(created, a.key)
      BY <2>1 DEF CreateSarcophagus
    <3>2. a.key <= Len(created) + 1
      <4>1. a.key \in Nat /\ a.known \in Nat /\ Len(created) \in Nat
        BY <1>1, <1>2, Sizes DEF Agreement
      <4>2. a.known <= Len(created) /\ a.key <= a.known + 1
        BY <1>2 DEF AgreementOK
      <4> QED BY <4>1, <4>2
    <3>3. created \in Seq(Nat \ {0}) /\ a.key \in Nat \ {0}
      BY <1>1, <1>2 DEF TypeOK, Agreement
    <3> QED BY <3>1, <3>2, <3>3 DEF KeyWithinReach, NegotiationInv
  <2>2. CASE UNCHANGED created
    BY <2>2 DEF KeyWithinReach, NegotiationInv
  <2> QED BY <2>1, <2>2
          DEF Next, HandlerStep, OpenStream, Receive, TimestampRead, TooLateAnswered, PageArrives,
              CountFails, EmbalmerLeaves, ProfileRead, FetchEnds, RefetchInterval, ConnectionResets,
              ProcessRestarts, SubgraphIndexes, UpdateProfile, Tick, vars, chainVars
<1>5. ASSUME UNCHANGED signed
      PROVE  \A a \in signed' : AgreementOKNext(a)
  BY <1>1, <1>2, <1>5, AgreementKept
<1>6. ASSUME UNCHANGED <<stream, since>>
      PROVE  \A e \in Embalmers : StreamOKNext(stream'[e])
  BY <1>1, <1>2, <1>6, StreamKept
<1>7. ASSUME NEW e \in Embalmers, NEW st, stream' = [stream EXCEPT ![e] = st],
             StreamOKNext(st), UNCHANGED since
      PROVE  \A f \in Embalmers : StreamOKNext(stream'[f])
  <2> TAKE f \in Embalmers
  <2>1. CASE f = e
    BY <1>1, <1>7, <2>1 DEF TypeOK
  <2>2. CASE f # e
    <3>1. stream'[f] = stream[f]
      BY <1>1, <1>7, <2>2 DEF TypeOK
    <3> QED BY <1>1, <1>2, <1>7, <3>1, StreamKept
  <2> QED BY <2>1, <2>2
<1> DEFINE Kept ==
       /\ \A e \in Embalmers : StreamOKNext(stream'[e])
       /\ \A a \in signed' : AgreementOKNext(a)
<1>8. ASSUME NEW e \in Embalmers, OpenStream(e) \/ TooLateAnswered(e) \/ EmbalmerLeaves(e)
      PROVE  Kept
  <2>1. PICK at \in {"none", "open"}, live \in BOOLEAN : stream' = [stream EXCEPT ![e] = Idle(at, live)]
    BY <1>8 DEF OpenStream, TooLateAnswered, EmbalmerLeaves, NoStream
  <2>2. UNCHANGED <<since, signed>>
    BY <1>8 DEF OpenStream, TooLateAnswered, EmbalmerLeaves, processVars
  <2> QED BY <1>1, <1>5, <1>7, <2>1, <2>2, IdleOK
<1>9. ASSUME NEW e \in Embalmers, Receive(e) PROVE Kept
  <2>1. UNCHANGED <<since, signed>>
    BY <1>9 DEF Receive, processVars
  <2>2. PICK m \in Proposals \cup {Garbage} :
           \/ UNCHANGED stream
           \/ stream' = [stream EXCEPT ![e] = NoStream]
           \/ /\ Verdict(m) = "conforms"
              /\ stream' = [stream EXCEPT ![e] = [stream[e] EXCEPT !.at = "timestamp", !.terms = m]]
    BY <1>9 DEF Receive
  <2>3. CASE Verdict(m) = "conforms"
             /\ stream' = [stream EXCEPT ![e] = [stream[e] EXCEPT !.at = "timestamp", !.terms = m]]
    <3> DEFINE st == [stream[e] EXCEPT !.at = "timestamp", !.terms = m]
    <3>1. m \in Proposals /\ cached # 0 /\ Conforms(m, profiles[cached])
      BY <2>3 DEF Verdict
    <3>2. cached \in since..Version /\ since \in Nat \ {0}
      BY <1>1, <3>1, Sizes DEF NegotiationInv, CacheFresh
    <3>3. AllowedSince(m, since)
      BY <3>1, <3>2 DEF AllowedSince
    <3>4. AllowedNext(m, since)
      BY <1>1, <3>2, <3>3, AllowedGrows
    <3>5. st.skip = stream[e].skip /\ st.at = "timestamp" /\ st.terms = m
      BY <1>2 DEF StreamType
    <3>6. st.skip <= indexed'
      BY <1>1, <1>2, <3>5 DEF StreamOK, StreamType, ChainGrowth, TypeOK
    <3> HIDE DEF st
    <3>7. StreamOKNext(st)
      BY <2>1, <3>1, <3>4, <3>5, <3>6 DEF StreamOKNext
    <3> QED BY <1>5, <1>7, <2>1, <2>3, <3>7 DEF st
  <2>4. CASE stream' = [stream EXCEPT ![e] = NoStream]
    BY <1>1, <1>5, <1>7, <2>1, <2>4, IdleOK DEF NoStream
  <2> QED BY <1>5, <1>6, <2>1, <2>2, <2>3, <2>4
<1>10. ASSUME NEW e \in Embalmers, TimestampRead(e) PROVE Kept
  <2>1. UNCHANGED <<since, signed>>
    BY <1>10 DEF TimestampRead, processVars
  <2>2. stream[e].at = "timestamp"
    BY <1>10 DEF TimestampRead
  <2>3. PICK b \in BlockTimestamp :
           \/ stream' = [stream EXCEPT ![e] = [stream[e] EXCEPT !.at = "tooLate"]]
           \/ /\ stream[e].terms.timestamp <= b * Second + Drift
              /\ stream' = [stream EXCEPT ![e] = [stream[e] EXCEPT !.at = "count"]]
    BY <1>10 DEF TimestampRead
  <2>4. StreamOKNext(stream[e])
    BY <1>1, <1>2, <2>1, StreamKept
  <2>5. CASE stream' = [stream EXCEPT ![e] = [stream[e] EXCEPT !.at = "tooLate"]]
    <3>1. StreamOKNext([stream[e] EXCEPT !.at = "tooLate"])
      BY <1>2, <2>2, <2>4 DEF StreamOKNext, StreamType, Busy
    <3> QED BY <1>5, <1>7, <2>1, <2>5, <3>1
  <2>6. CASE /\ stream[e].terms.timestamp <= b * Second + Drift
             /\ stream' = [stream EXCEPT ![e] = [stream[e] EXCEPT !.at = "count"]]
    <3>1. InTime(stream[e].terms, now) /\ now' = now
      <4>1. stream[e].terms \in Proposals
        BY <1>2, <2>2 DEF StreamOK, Busy
      <4>2. b = now \/ b = now + Skew
        BY DEF BlockTimestamp
      <4>3. (now + Skew) * Second >= now * Second
        BY <1>1, Sizes, TimesGrows, NegotiationAssumption
      <4>4. b * Second <= (now + Skew) * Second
        <5>1. (now + Skew) * Second \in Int
          BY <1>1, Sizes, NegotiationAssumption
        <5> QED BY <4>2, <4>3, <5>1
      <4>5. /\ stream[e].terms.timestamp \in Nat /\ Drift \in Nat
            /\ b * Second \in Int /\ (now + Skew) * Second \in Int
        <5>1. stream[e].terms.timestamp \in Nat
          BY <4>1, NegotiationAssumption DEF Proposal
        <5>2. now \in Nat /\ Skew \in Nat /\ Drift \in Nat /\ Second \in Nat
          BY <1>1, Sizes, NegotiationAssumption
        <5> QED BY <4>2, <5>1, <5>2
      <4>6. stream[e].terms.timestamp <= (now + Skew) * Second + Drift
        BY <2>6, <4>4, <4>5
      <4> QED BY <1>10, <4>6 DEF InTime, TimestampRead, chainVars
    <3>2. StreamOKNext([stream[e] EXCEPT !.at = "count"])
      BY <1>2, <2>2, <2>4, <3>1 DEF StreamOKNext, StreamType, Busy
    <3> QED BY <1>5, <1>7, <2>1, <2>6, <3>2
  <2> QED BY <2>3, <2>5, <2>6
<1>11. ASSUME NEW e \in Embalmers, PageArrives(e) PROVE Kept
  <2>1. stream[e].at = "count" /\ UNCHANGED since
    BY <1>11 DEF PageArrives, processVars
  <2>2. stream[e].skip \in Nat /\ indexed \in Nat /\ PageSize \in Nat \ {0}
    BY <1>1, <1>2, NegotiationAssumption DEF TypeOK, StreamType
  <2>3. CASE Sign(e, NextKey(stream[e].skip + (indexed - stream[e].skip)), TRUE)
    <3>1. stream[e].skip + (indexed - stream[e].skip) = indexed
      BY <2>2
    <3>2. NextKey(indexed) = indexed + 1 /\ NextKey(indexed) \in Nat \ {0}
      BY <2>2, NextKeyType
    <3>3. Sign(e, NextKey(indexed), TRUE)
      BY <2>3, <3>1
    <3>4. NextKey(indexed) <= indexed + 1
      BY <2>2, <3>2
    <3> QED BY <1>1, <2>1, <3>2, <3>3, <3>4, SignOK
  <2>4. CASE /\ indexed - stream[e].skip >= PageSize
             /\ stream' = [stream EXCEPT ![e] = [stream[e] EXCEPT !.skip = stream[e].skip + PageSize]]
             /\ UNCHANGED signed
    <3>1. StreamOKNext(stream[e])
      BY <1>1, <1>2, <2>1, StreamKept
    <3>2. stream[e].skip + PageSize <= indexed'
      <4>1. indexed' >= indexed /\ indexed' \in Nat
        BY <1>1, SizesNext DEF ChainGrowth
      <4> QED BY <2>2, <2>4, <4>1
    <3>3. StreamOKNext([stream[e] EXCEPT !.skip = stream[e].skip + PageSize])
      BY <1>2, <3>1, <3>2 DEF StreamOKNext, StreamType
    <3> QED BY <1>5, <1>7, <2>1, <2>4, <3>3
  <2> QED BY <1>11, <2>3, <2>4 DEF PageArrives
<1>12. ASSUME NEW e \in Embalmers, CountFails(e) PROVE Kept
  <2>1. stream[e].at = "count" /\ UNCHANGED since /\ Sign(e, NextKey(0), FALSE)
    BY <1>12 DEF CountFails, processVars
  <2>2. NextKey(0) = 1 /\ 1 <= indexed + 1
    BY <1>1, Sizes, NextKeyType
  <2>3. NextKey(0) \in Nat \ {0} /\ NextKey(0) <= indexed + 1
    BY <2>2
  <2> QED BY <1>1, <2>1, <2>3, SignOK
<1>13. ASSUME ConnectionResets PROVE Kept
  <2>1. UNCHANGED <<since, signed>> /\ \A e \in Embalmers : stream'[e] = [stream[e] EXCEPT !.live = FALSE]
    BY <1>13 DEF ConnectionResets
  <2>2. ASSUME NEW e \in Embalmers PROVE StreamOKNext(stream'[e])
    <3>1. StreamOKNext(stream[e])
      BY <1>1, <1>2, <2>1, StreamKept
    <3>2. StreamOKNext([stream[e] EXCEPT !.live = FALSE])
      BY <1>2, <3>1 DEF StreamOKNext, StreamType
    <3> QED BY <2>1, <3>2
  <2> QED BY <1>5, <2>1, <2>2
<1>14. ASSUME ProcessRestarts PROVE Kept
  <2>1. UNCHANGED signed /\ \A e \in Embalmers : stream'[e] = NoStream
    BY <1>14 DEF ProcessRestarts
  <2> QED BY <1>1, <1>5, <2>1, IdleOK DEF NoStream
<1>15. ASSUME UNCHANGED <<stream, signed, since>> PROVE Kept
  BY <1>5, <1>6, <1>15
<1> HIDE DEF Kept
<1>16. Kept
  BY <1>8, <1>9, <1>10, <1>11, <1>12, <1>13, <1>14, <1>15
     DEF Next, HandlerStep, ProfileRead, FetchEnds, RefetchInterval, CreateSarcophagus,
         SubgraphIndexes, UpdateProfile, Tick, vars, processVars
<1>17. \A e \in Embalmers : StreamOK(stream[e])'
  BY <1>16 DEF Kept, StreamOK, StreamOKNext, AllowedSince, AllowedNext, Version
<1>18. \A a \in signed' : AgreementOKNext(a)
  BY <1>16 DEF Kept
<1>19. (\A a \in signed : AgreementOK(a))'
  BY <1>18 DEF AgreementOK, AgreementOKNext, AllowedSince, AllowedNext, Version
<1> QED BY <1>1, <1>3, <1>4, <1>17, <1>19 DEF NegotiationInv

THEOREM NegotiationInvariant == Spec => []NegotiationInv
<1>1. NegotiationInv /\ UNCHANGED vars => NegotiationInv'
  BY InvStep
<1> QED BY InitInv, InvStep, <1>1, PTL DEF Spec

(* The variables keep their types. *)
THEOREM NegotiationTypes == Spec => []TypeOK
<1>1. NegotiationInv => TypeOK
  BY DEF NegotiationInv
<1> QED BY NegotiationInvariant, <1>1, PTL

(* Terms that are signed conform with a profile that was on chain while the
   process ran: checkSarcophagusNegotiationIsValid and the cached profile. *)
THEOREM SignedTermsConform == Spec => []SignedSinceStart
<1>1. NegotiationInv => SignedSinceStart
  BY DEF NegotiationInv, AgreementOK, AllowedSince, SignedSinceStart
<1> QED BY NegotiationInvariant, <1>1, PTL

(* A counted key is beyond the key of every sarcophagus that was counted: the
   pages of getSarcophagiIds and getNextPublicKey. *)
THEOREM CountedKeysFresh == Spec => []FreshAgainstIndex
<1>1. NegotiationInv => FreshAgainstIndex
  <2> SUFFICES ASSUME NegotiationInv, NEW a \in signed, a.counted, NEW i \in 1..a.known
               PROVE  created[i] # a.key
    BY DEF FreshAgainstIndex
  <2>1. a \in Agreement /\ created \in Seq(Nat \ {0})
    BY DEF NegotiationInv, TypeOK
  <2>2. a.key = a.known + 1 /\ a.known <= Len(created)
    BY DEF NegotiationInv, AgreementOK
  <2>3. a.known \in Nat /\ Len(created) \in Nat
    BY <2>1 DEF Agreement
  <2>4. i \in 1..Len(created) /\ i < a.key
    BY <2>2, <2>3
  <2>5. created[i] \in Nat /\ created[i] <= i
    BY <2>1, <2>4 DEF NegotiationInv, KeyWithinReach
  <2> QED BY <2>4, <2>5, <2>2, <2>3
<1> QED BY NegotiationInvariant, <1>1, PTL

(* The search for a sarcophagus's key ends at its number at the latest. *)
THEOREM KeysWithinReach == Spec => []KeyWithinReach
<1>1. NegotiationInv => KeyWithinReach
  BY DEF NegotiationInv
<1> QED BY NegotiationInvariant, <1>1, PTL

LEMMA WholeSeconds == ASSUME NEW x \in Nat, NEW y \in Nat \ {0} PROVE (x \div y) * y <= x
  OBVIOUS

(* Nothing is signed for a time later than the drift allows. *)
THEOREM TimesInReach == Spec => []NotSignedAhead
<1>1. NegotiationInv => NotSignedAhead
  <2> SUFFICES ASSUME NegotiationInv, NEW a \in signed
               PROVE  (a.terms.timestamp \div Second) * Second <= (a.when + Skew) * Second + Drift
    BY DEF NotSignedAhead
  <2>1. a.terms \in Proposals /\ a.when \in Nat
    BY DEF NegotiationInv, TypeOK, Agreement
  <2>2. a.terms.timestamp \in Nat /\ Second \in Nat \ {0} /\ Skew \in Nat /\ Drift \in Nat
    BY <2>1, NegotiationAssumption DEF Proposal
  <2>3. a.terms.timestamp <= (a.when + Skew) * Second + Drift
    BY DEF NegotiationInv, AgreementOK, InTime
  <2>4. (a.terms.timestamp \div Second) * Second <= a.terms.timestamp
    BY <2>2, WholeSeconds
  <2>5. (a.when + Skew) * Second \in Nat /\ (a.terms.timestamp \div Second) * Second \in Int
    BY <2>1, <2>2
  <2> QED BY <2>2, <2>3, <2>4, <2>5
<1> QED BY NegotiationInvariant, <1>1, PTL

=============================================================================
