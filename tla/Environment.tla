----------------------------- MODULE Environment ------------------------------
(***************************************************************************)
(* The environment of a process (src/utils/validateEnv.ts, network-config, *)
(* scripts/web3-interface.ts): what is accepted before anything starts, and *)
(* which networks a process can reach with it.  The owner edits the file    *)
(* between two starts; a running process keeps what it read.                *)
(***************************************************************************)
EXTENDS Integers, FiniteSets

CONSTANTS
    Networks,
    Local,          \* networks validateEnvVars does not look at: hardhat
    Mnemonics,      \* valid mnemonics
    Domains,        \* valid domains
    Environments,   \* the environments the owner may set up
    MaxEdits        \* bound: what the owner changes besides commands

Urls == {"unset", "malformed", "wss"}
Unusable == {"unset", "malformed"}

Environment ==
    [chains : SUBSET Networks, url : [Networks -> Urls],
     mnemonic : [Networks -> Mnemonics \cup Unusable],
     domain : Domains \cup Unusable, privateKey : BOOLEAN,
     peerFile : BOOLEAN, bootstrap : BOOLEAN]

ASSUME EnvironmentAssumption ==
    /\ IsFiniteSet(Networks) /\ Local \subseteq Networks
    /\ (Mnemonics \cup Domains) \cap Unusable = {}
    /\ Environments \subseteq Environment /\ Environments # {}
    /\ MaxEdits \in Nat

VARIABLES env, edits
envVars == <<env, edits>>

EnvTypeOK == env \in Environments /\ edits \in 0..MaxEdits

EnvInit == env \in Environments /\ edits = 0

EditEnv ==
    /\ edits < MaxEdits
    /\ env' \in Environments /\ edits' = edits + 1

-----------------------------------------------------------------------------
Distinct(v, S) ==
    \A m, n \in S : m # n /\ v.mnemonic[m] = v.mnemonic[n] => v.mnemonic[m] \in Unusable

(* validateEnvVars: all that is set is looked at, also for a network that is not
   in CHAIN_IDS; what the local network uses is not. *)
ValidEnvVars(v) ==
    /\ v.chains # {} /\ v.privateKey /\ v.domain \in Domains
    /\ \A n \in Networks \ Local : v.url[n] # "malformed" /\ v.mnemonic[n] # "malformed"
    /\ Distinct(v, Networks \ Local)

(* getNetworkContextByChainId for every chain of CHAIN_IDS: one that cannot be
   built ends the process, whichever network it was started for. *)
ContextsBuilt(v) == \A n \in v.chains : v.url[n] = "wss" /\ v.mnemonic[n] \in Mnemonics

MultipleChains(v) == Cardinality(v.chains) > 1

(* getNetworkContext: without a name it indexes a Set, which yields undefined
   and ends the process at its first use; a name is looked for among them. *)
HasContext(v, n) == n \in v.chains

=============================================================================
