----------------------------- MODULE ServiceStart ------------------------------
(***************************************************************************)
(* The life of the service's process (src/start_service.ts, the start       *)
(* command, src/utils/health-check.ts, the node of models/archaeologist.ts): *)
(* it starts with the environment its container was created with, checks     *)
(* each network concurrently while the node starts, and ends as a whole when *)
(* anything fails; docker starts it again unless it ended well.              *)
(***************************************************************************)
EXTENDS Account

CONSTANTS
    Starts,         \* what --network may be: a set of one network, {} for all
    MaxFaults       \* bound: calls that fail, connections that close, stops by the owner

ASSUME ServiceStartAssumption == Starts \subseteq SUBSET Networks /\ MaxFaults \in Nat

(* service: off, about to run with conf, running or exited with code.
   checks: how far healthCheck is on each network. *)
VARIABLES service, checks, node, faults
serviceVars == <<service, checks, node, faults>>

CheckSteps == {"none", "profile", "bond", "hung", "served"}

ServiceTypeOK ==
    /\ service \in [at : {"off", "boot", "up", "exited"}, code : {0, 1, 2, 101, 200},
                    conf : Environments, only : Starts]
    /\ checks \in [Networks -> CheckSteps]
    /\ node \in {"none", "starting", "up", "stopped"}
    /\ faults \in 0..MaxFaults

NoChecks == [n \in Networks |-> "none"]

ServiceInit ==
    /\ \E only \in Starts : service = [at |-> "off", code |-> 0, conf |-> env, only |-> only]
    /\ checks = NoChecks /\ node = "none" /\ faults = 0

(* The process ends: with it every check, the node and all it was doing. *)
Exit(code) ==
    /\ service' = [service EXCEPT !.at = "exited", !.code = code]
    /\ checks' = NoChecks /\ node' = "none"

Fault == faults < MaxFaults /\ faults' = faults + 1

(* The networks startService is given. *)
Chosen == IF service.only = {} THEN service.conf.chains ELSE service.only

-----------------------------------------------------------------------------
Up ==
    /\ service.at = "off"
    /\ \E only \in Starts :
          service' = [service EXCEPT !.at = "boot", !.conf = env, !.only = only]
    /\ UNCHANGED <<checks, node, faults>>

Down ==
    /\ service.at # "off" /\ Fault
    /\ service' = [service EXCEPT !.at = "off", !.code = 0]
    /\ checks' = NoChecks /\ node' = "none"

(* restart: on-failure, in the same container. *)
DockerRestarts ==
    /\ service.at = "exited" /\ service.code # 0
    /\ service' = [service EXCEPT !.at = "boot", !.code = 0]
    /\ UNCHANGED <<checks, node, faults>>

(* run, startService, loadPeerIdFromFile and the node's configuration, which
   throws on a bootstrap list. *)
Bootable ==
    /\ ValidEnvVars(service.conf) /\ ContextsBuilt(service.conf)
    /\ Chosen \subseteq service.conf.chains
    /\ env.peerFile /\ ~service.conf.bootstrap

(* Mutant: what cannot start ends well, and docker leaves it. *)
BootQuiet ==
    /\ service.at = "boot"
    /\ \/ /\ ~Bootable /\ Exit(0)
       \/ /\ Bootable
          /\ service' = [service EXCEPT !.at = "up"]
          /\ checks' = [n \in Networks |-> IF n \in Chosen THEN "profile" ELSE "none"]
          /\ node' = "starting"
    /\ UNCHANGED faults

Boot ==
    /\ service.at = "boot"
    /\ \/ /\ ~Bootable /\ Exit(1)
       \/ /\ Bootable
          /\ service' = [service EXCEPT !.at = "up"]
          /\ checks' = [n \in Networks |-> IF n \in Chosen THEN "profile" ELSE "none"]
          /\ node' = "starting"
    /\ UNCHANGED faults

(* createAndStartNode; when it fails the start command throws. *)
NodeStarts ==
    /\ service.at = "up" /\ node = "starting"
    /\ \/ node' = "up" /\ UNCHANGED <<service, checks, faults>>
       \/ Fault /\ Exit(1)

(* restartNode every six hours; a node that was left stopped is started. What it
   throws reaches the uncaughtException handler. *)
NodeStops ==
    /\ service.at = "up" /\ node = "up"
    /\ \/ node' = "stopped" /\ UNCHANGED <<service, checks, faults>>
       \/ Fault /\ Exit(2)

NodeStartsAgain ==
    /\ service.at = "up" /\ node = "stopped"
    /\ \/ node' = "up" /\ UNCHANGED <<service, checks, faults>>
       \/ Fault /\ Exit(2)

-----------------------------------------------------------------------------
Checked(n, step) == checks' = [checks EXCEPT ![n] = step] /\ UNCHANGED <<service, node, faults>>

(* Mutant: the profile is only warned about, like the bond. *)
ProfileFetchedLax(n) ==
    /\ service.at = "up" /\ checks[n] = "profile"
    /\ Checked(n, "bond")

(* The balances, only warned about, and fetchProfileOrExit: one network without
   a profile ends the process for all. *)
ProfileFetched(n) ==
    /\ service.at = "up" /\ checks[n] = "profile"
    /\ \/ account[n].profile.exists /\ Checked(n, "bond")
       \/ ~account[n].profile.exists /\ Exit(200) /\ UNCHANGED faults

(* The time and the free bond are only warned about; then the sync and the
   listeners start. *)
BondRead(n) == service.at = "up" /\ checks[n] = "bond" /\ Checked(n, "served")

CheckFails(n) ==
    /\ service.at = "up" /\ checks[n] \in {"profile", "bond"}
    /\ Fault /\ Exit(101)

(* The connection closes during the check: nothing listens to it yet, what was
   asked is neither answered nor rejected, and the process stays up. *)
CheckHangs(n) ==
    /\ service.at = "up" /\ checks[n] \in {"profile", "bond"}
    /\ Fault /\ checks' = [checks EXCEPT ![n] = "hung"]
    /\ UNCHANGED <<service, node>>

(* The first balance, warnIfEthBalanceIsLow every six hours, the sync and
   handleRpcError are awaited by nobody: what they reject ends the process,
   through the handlers once they are installed. *)
NobodyCatches(n) ==
    /\ service.at = "up" /\ checks[n] \in {"profile", "bond", "served"}
    /\ Fault /\ Exit(IF node = "starting" THEN 1 ELSE 2)

CheckStep(n) == ProfileFetched(n) \/ BondRead(n)

ServiceStep ==
    \/ Up \/ Down \/ DockerRestarts \/ Boot \/ NodeStarts \/ NodeStops \/ NodeStartsAgain
    \/ \E n \in Networks : CheckStep(n) \/ CheckFails(n) \/ CheckHangs(n) \/ NobodyCatches(n)

=============================================================================
