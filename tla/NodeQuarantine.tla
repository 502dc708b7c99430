--------------------------- MODULE NodeQuarantine ---------------------------
(***************************************************************************)
(* The LXC containers of the Proxmox host and two commands of              *)
(* scripts/haac.py that stop some of them: the quarantine before           *)
(* configure-os, which takes an unmanaged container with the hostname or   *)
(* the address of a declared K3s node out of service                       *)
(* (quarantine_duplicate_k3s_lxc_identities), and shutdown_cluster.  Each  *)
(* pvesh or pct call is one step.  Containers start and stop on their own, *)
(* are renamed by the operator, and a reboot of the host starts those with *)
(* onboot.                                                                 *)
(***************************************************************************)
EXTENDS Naturals, FiniteSets

CONSTANTS
  Containers,    \* VMIDs
  DeclaredNodes, \* those in the outputs of OpenTofu
  Doubles,       \* others that had the hostname or address of a declared one
  MaxNodeFaults

ASSUME NodesAssumption ==
  /\ DeclaredNodes \subseteq Containers
  /\ Doubles \subseteq Containers \ DeclaredNodes
  /\ MaxNodeFaults \in Nat

VARIABLES
  running,    \* containers that run
  onboot,     \* containers that Proxmox starts at boot
  double,     \* containers that duplicate a declared identity now
  renamed,    \* containers renamed since the process began; decides nothing
  node,       \* the process
  nodeFaults

nodes == <<running, onboot, double>>
nodeVars == <<nodes, renamed, node, nodeFaults>>

NodeFault == nodeFaults < MaxNodeFaults /\ nodeFaults' = nodeFaults + 1

Ready0 == [pc |-> "idle", scan |-> {}, found |-> {}, seenRunning |-> {},
           verdict |-> "new"]
Finish(v) == node' = [Ready0 EXCEPT !.verdict = v]

\* declared_k3s_lxc_identities: when `tofu output` fails nothing is declared, and
\* the quarantine reports success without having looked for duplicates.
StartQuarantine ==
  /\ node.pc = "idle"
  /\ \/ /\ node' = [Ready0 EXCEPT !.pc = "resources", !.verdict = ""]
        /\ UNCHANGED nodeFaults
     \/ NodeFault /\ Finish("blind")
  /\ renamed' = {}
  /\ UNCHANGED nodes

ScansStopped == (Containers \ DeclaredNodes) \ running     \* mutant: running containers are skipped
Scanned == Containers \ DeclaredNodes

\* proxmox_lxc_resources: the status that is later acted on.
ReadResources ==
  /\ node.pc = "resources"
  /\ node' = [node EXCEPT !.pc = "configs", !.seenRunning = running,
                          !.scan = Scanned]
  /\ UNCHANGED <<nodes, renamed, nodeFaults>>

DuplicatesAny(c) == c \notin DeclaredNodes     \* mutant: the identity is not compared
Duplicates(c) == c \in double

\* One configuration after the other; a call that fails ends the command.
ReadConfig ==
  /\ node.pc = "configs"
  /\ \/ \E c \in node.scan :
          /\ node' = [node EXCEPT !.scan = @ \ {c},
                        !.found = IF Duplicates(c) THEN @ \cup {c} ELSE @]
          /\ UNCHANGED nodeFaults
     \/ NodeFault /\ Finish("failed")
     \/ /\ node.scan = {}
        /\ IF node.found = {} THEN Finish("ok")
                              ELSE node' = [node EXCEPT !.pc = "onboot"]
        /\ UNCHANGED nodeFaults
  /\ UNCHANGED <<nodes, renamed>>

target == CHOOSE c \in node.found : TRUE

OnlyRunning == IF target \in node.seenRunning THEN onboot \ {target} ELSE onboot     \* mutant: stopped containers are left as they are
NoOnboot == onboot \ {target}

DisableOnboot ==
  /\ node.pc = "onboot"
  /\ \/ onboot' = NoOnboot /\ UNCHANGED nodeFaults
        /\ node' = [node EXCEPT !.pc = IF target \in node.seenRunning
                                       THEN "shutdown" ELSE "status"]
     \/ NodeFault /\ UNCHANGED onboot /\ Finish("failed")
  /\ UNCHANGED <<running, double, renamed>>

\* pct shutdown and pct stop are not checked; the status decides, and one that
\* cannot be read is not "stopped".
StopOrNot(to) ==
  /\ node' = [node EXCEPT !.pc = to]
  /\ \/ running' = running \ {target} /\ UNCHANGED nodeFaults
     \/ NodeFault /\ UNCHANGED running
  /\ UNCHANGED <<onboot, double, renamed>>

ShutDown == node.pc = "shutdown" /\ StopOrNot("status")
Stop == node.pc = "stop" /\ StopOrNot("recheck")

Quarantined ==
  IF node.found = {target} THEN Finish("ok")
  ELSE node' = [node EXCEPT !.pc = "onboot", !.found = @ \ {target}]

CheckStatus ==
  /\ node.pc = "status"
  /\ \/ target \notin running /\ Quarantined /\ UNCHANGED nodeFaults
     \/ /\ node' = [node EXCEPT !.pc = "stop"]
        /\ IF target \in running THEN UNCHANGED nodeFaults ELSE NodeFault
  /\ UNCHANGED <<nodes, renamed>>

RecheckStatus ==
  /\ node.pc = "recheck"
  /\ \/ target \notin running /\ Quarantined /\ UNCHANGED nodeFaults
     \/ /\ Finish("failed")
        /\ IF target \in running THEN UNCHANGED nodeFaults ELSE NodeFault
  /\ UNCHANGED <<nodes, renamed>>

\* shutdown_cluster: nothing is checked, neither that there were outputs.
StartShutdown ==
  /\ node.pc = "idle" /\ NodeFault
  /\ \/ /\ DeclaredNodes # {}
        /\ node' = [Ready0 EXCEPT !.pc = "cluster", !.found = DeclaredNodes,
                                  !.verdict = ""]
     \/ Finish("shutdown")
  /\ renamed' = {}
  /\ UNCHANGED nodes

StopDeclared ==
  /\ node.pc = "cluster"
  /\ running' \in {running, running \ {target}}
  /\ IF node.found = {target} THEN Finish("shutdown")
     ELSE node' = [node EXCEPT !.found = @ \ {target}]
  /\ UNCHANGED <<onboot, double, renamed, nodeFaults>>

-----------------------------------------------------------------------------
(* The host *)

\* The operator or a dependent service starts a container.
StartContainer(c) ==
  /\ NodeFault /\ c \notin running
  /\ running' = running \cup {c}
  /\ UNCHANGED <<onboot, double, renamed, node>>

Rename(c) ==
  /\ NodeFault /\ c \in double
  /\ double' = double \ {c} /\ renamed' = renamed \cup {c}
  /\ UNCHANGED <<running, onboot, node>>

Reboot ==
  /\ NodeFault
  /\ running' = onboot
  /\ IF node.pc = "idle" THEN UNCHANGED node ELSE Finish("failed")
  /\ UNCHANGED <<onboot, double, renamed>>

NodesInit ==
  /\ running \in SUBSET Containers
  /\ onboot \in {running, Containers}
  /\ double = Doubles /\ renamed = {}
  /\ node = Ready0
  /\ nodeFaults = 0

QuarantineStep ==
  \/ StartQuarantine \/ ReadResources \/ ReadConfig \/ DisableOnboot
  \/ ShutDown \/ Stop \/ CheckStatus \/ RecheckStatus \/ StopDeclared

NodesNext ==
  \/ QuarantineStep \/ StartShutdown \/ Reboot
  \/ \E c \in Containers : StartContainer(c) \/ Rename(c)

NodesSpec == NodesInit /\ [][NodesNext]_nodeVars
NodesFairness == WF_nodeVars(QuarantineStep)

-----------------------------------------------------------------------------
(* Properties *)

NodesTypeOK ==
  /\ running \subseteq Containers /\ onboot \subseteq Containers
  /\ double \subseteq Doubles /\ renamed \subseteq Doubles
  /\ node.pc \in {"idle", "resources", "configs", "onboot", "shutdown", "status",
                  "stop", "recheck", "cluster"}
  /\ node.scan \subseteq Containers /\ node.found \subseteq Containers
  /\ node.seenRunning \subseteq Containers
  /\ node.verdict \in {"new", "", "ok", "blind", "failed", "shutdown"}
  /\ nodeFaults \in 0..MaxNodeFaults

\* The quarantine stops only what duplicates a declared node, or did when the
\* command began: a container that is renamed after its configuration was read
\* is stopped nevertheless (904).  What it stops no longer starts at boot.
OnlyDoublesAreStopped ==
  [][\A c \in running \ running' :
       running' = running \ {c} /\ node.pc \in {"shutdown", "stop"}
           /\ node'.pc # "idle"
         => c \in (double \cup renamed) \ onboot]_nodeVars

\* When a quarantine that could read the outputs succeeds, no duplicate comes
\* back with a reboot, whatever failed or was started behind its back in the
\* meantime.
DoublesStayDown ==
  node.verdict = "ok" => double \cap onboot = {}

\* Repeated until it succeeds, the quarantine takes the duplicates out of
\* service although stops fail and the host reboots in between.
QuarantineConverges ==
  (node.pc = "resources") ~> (node.verdict = "ok" /\ double \cap running = {})
=============================================================================
