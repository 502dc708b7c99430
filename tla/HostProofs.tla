------------------------------ MODULE HostProofs ------------------------------
(***************************************************************************)
(* Theorems about the two components that change the Proxmox host: the     *)
(* quarantine of duplicate containers (NodeQuarantine) and the migration   *)
(* of the state of OpenTofu (StateMigration), for every set of containers  *)
(* and every number of faults.                                             *)
(***************************************************************************)
EXTENDS NodeQuarantine, StateMigration, TLAPS

-----------------------------------------------------------------------------
(* NodeQuarantine: types *)

NodeState == [pc : {"idle", "resources", "configs", "onboot", "shutdown",
                    "status", "stop", "recheck", "cluster"},
              scan : SUBSET Containers, found : SUBSET Containers,
              seenRunning : SUBSET Containers,
              verdict : {"new", "", "ok", "blind", "failed", "shutdown"}]

NodesInvType ==
  /\ running \subseteq Containers /\ onboot \subseteq Containers
  /\ double \subseteq Doubles /\ renamed \subseteq Doubles
  /\ node \in NodeState
  /\ nodeFaults \in 0..MaxNodeFaults

LEMMA NodeFaultType ==
  ASSUME nodeFaults \in 0..MaxNodeFaults, NodeFault \/ UNCHANGED nodeFaults
  PROVE  nodeFaults' \in 0..MaxNodeFaults
  BY NodesAssumption DEF NodeFault

LEMMA FinishType ==
  ASSUME NEW v \in {"ok", "blind", "failed", "shutdown"}, Finish(v)
  PROVE  /\ node' \in NodeState /\ node'.pc = "idle" /\ node'.verdict = v
  BY DEF Finish, Ready0, NodeState

LEMMA NodesTypeStep == NodesInvType /\ [NodesNext]_nodeVars => NodesInvType'
  <1> SUFFICES ASSUME NodesInvType, [NodesNext]_nodeVars PROVE NodesInvType'
    OBVIOUS
  <1> USE NodesAssumption DEF NodesInvType
  <1>1. CASE StartQuarantine
    <2>1. node' \in NodeState
      BY <1>1, FinishType DEF StartQuarantine, Ready0, NodeState
    <2> QED
      BY <1>1, <2>1, NodeFaultType DEF StartQuarantine, nodes
  <1>2. CASE ReadResources
    BY <1>2 DEF ReadResources, Scanned, nodes, NodeState
  <1>3. CASE ReadConfig
    <2>1. node' \in NodeState
      <3>1. ASSUME NEW c \in node.scan,
                   node' = [node EXCEPT !.scan = @ \ {c},
                              !.found = IF Duplicates(c) THEN @ \cup {c} ELSE @]
            PROVE  node' \in NodeState
        BY <3>1 DEF NodeState
      <3>2. CASE node' = [node EXCEPT !.pc = "onboot"]
        BY <3>2 DEF NodeState
      <3> QED
        BY <1>3, <3>1, <3>2, FinishType DEF ReadConfig
    <2> QED
      BY <1>3, <2>1, NodeFaultType DEF ReadConfig, nodes
  <1>4. CASE DisableOnboot
    <2>1. node' \in NodeState
      <3>1. CASE node' = [node EXCEPT !.pc = IF target \in node.seenRunning
                                             THEN "shutdown" ELSE "status"]
        BY <3>1 DEF NodeState
      <3> QED
        BY <1>4, <3>1, FinishType DEF DisableOnboot
    <2>2. onboot' \subseteq Containers
      BY <1>4 DEF DisableOnboot, NoOnboot
    <2> QED
      BY <1>4, <2>1, <2>2, NodeFaultType DEF DisableOnboot
  <1>5. CASE ShutDown \/ Stop
    <2>1. node' \in NodeState
      BY <1>5 DEF ShutDown, Stop, StopOrNot, NodeState
    <2> QED
      BY <1>5, <2>1, NodeFaultType DEF ShutDown, Stop, StopOrNot
  <1>6. CASE CheckStatus \/ RecheckStatus
    <2>1. Quarantined => node' \in NodeState
      <3>1. CASE node' = [node EXCEPT !.pc = "onboot", !.found = @ \ {target}]
        BY <3>1 DEF NodeState
      <3> QED
        BY <3>1, FinishType DEF Quarantined
    <2>2. node' \in NodeState
      <3>1. CASE node' = [node EXCEPT !.pc = "stop"]
        BY <3>1 DEF NodeState
      <3> QED
        BY <1>6, <2>1, <3>1, FinishType DEF CheckStatus, RecheckStatus
    <2> QED
      BY <1>6, <2>2, NodeFaultType DEF CheckStatus, RecheckStatus, nodes
  <1>7. CASE StartShutdown
    <2>1. node' \in NodeState
      BY <1>7, FinishType DEF StartShutdown, Ready0, NodeState
    <2> QED
      BY <1>7, <2>1, NodeFaultType DEF StartShutdown, nodes
  <1>8. CASE StopDeclared
    <2>1. node' \in NodeState
      <3>1. CASE node' = [node EXCEPT !.found = @ \ {target}]
        BY <3>1 DEF NodeState
      <3> QED
        BY <1>8, <3>1, FinishType DEF StopDeclared
    <2> QED
      BY <1>8, <2>1 DEF StopDeclared
  <1>9. CASE Reboot
    <2>1. node' \in NodeState
      BY <1>9, FinishType DEF Reboot
    <2> QED
      BY <1>9, <2>1, NodeFaultType DEF Reboot
  <1>10. ASSUME NEW c \in Containers, StartContainer(c) \/ Rename(c)
         PROVE  NodesInvType'
    BY <1>10, NodeFaultType DEF StartContainer, Rename
  <1>11. CASE UNCHANGED nodeVars
    BY <1>11 DEF nodeVars, nodes
  <1> QED
    BY <1>1, <1>2, <1>3, <1>4, <1>5, <1>6, <1>7, <1>8, <1>9, <1>10, <1>11
       DEF NodesNext, QuarantineStep

LEMMA NodesTypeInit == NodesInit => NodesInvType
  BY NodesAssumption DEF NodesInit, NodesInvType, NodeState, Ready0

\* The variables of the quarantine keep their types.
THEOREM NodesTypeCorrect == NodesSpec => []NodesTypeOK
  <1>1. NodesInvType => NodesTypeOK
    BY DEF NodesInvType, NodesTypeOK, NodeState
  <1> QED
    BY <1>1, NodesTypeInit, NodesTypeStep, PTL DEF NodesSpec

-----------------------------------------------------------------------------
(* NodeQuarantine: what is quarantined stays out of service *)

Acting == {"shutdown", "status", "stop", "recheck"}

\* What may still come back with a reboot is what the process has before it:
\* containers to be looked at, duplicates found, and of those the current one
\* no longer.  It acts on duplicates only, or on what was one when it was found,
\* and has a verdict when it is over.
QuarantineInv ==
  /\ NodesInvType
  /\ node.pc = "configs" => double \cap onboot \subseteq node.scan \cup node.found
  /\ node.pc = "onboot" => double \cap onboot \subseteq node.found
  /\ node.pc \in Acting => double \cap onboot \subseteq node.found \ {target}
  /\ node.pc \in Acting => target \notin onboot
  /\ node.pc \in Acting \cup {"onboot"} => node.found # {}
  /\ node.pc \in Acting \cup {"resources", "configs", "onboot"}
       => node.found \subseteq double \cup renamed
  /\ node.pc \notin {"idle", "cluster"} => node.verdict = ""
  /\ node.verdict = "ok" => double \cap onboot = {}

LEMMA QuarantineStepInv == QuarantineInv /\ [NodesNext]_nodeVars => QuarantineInv'
  <1> SUFFICES ASSUME QuarantineInv, [NodesNext]_nodeVars PROVE QuarantineInv'
    OBVIOUS
  <1>0. NodesInvType /\ NodesInvType'
    BY NodesTypeStep DEF QuarantineInv
  <1>1. node.found # {} => target \in node.found
    BY DEF target
  <1>2. node'.found = node.found => target' = target
    BY DEF target
  <1>3. CASE /\ UNCHANGED <<node, onboot>> /\ double' \subseteq double
             /\ double \cup renamed \subseteq double' \cup renamed'
    BY <1>0, <1>2, <1>3 DEF QuarantineInv
  <1>4. CASE node'.pc = "idle" /\ node'.verdict # "ok"
    BY <1>0, <1>4 DEF QuarantineInv, Acting
  <1>5. CASE StartQuarantine
    <2>1. CASE node' = [Ready0 EXCEPT !.pc = "resources", !.verdict = ""]
      <3>1. node'.pc = "resources" /\ node'.verdict = "" /\ node'.found = {}
        BY <2>1 DEF Ready0
      <3> QED
        BY <1>0, <3>1 DEF QuarantineInv, Acting
    <2> QED
      BY <1>4, <1>5, <2>1, FinishType DEF StartQuarantine
  <1>6. CASE ReadResources
    <2>1. /\ node'.pc = "configs" /\ node'.scan = Containers \ DeclaredNodes
          /\ node'.found = node.found /\ node'.verdict = node.verdict
          /\ UNCHANGED <<onboot, double, renamed>> /\ node.pc = "resources"
      BY <1>0, <1>6 DEF ReadResources, Scanned, NodesInvType, NodeState, nodes
    <2>2. double \subseteq Containers \ DeclaredNodes
      BY <1>0, NodesAssumption DEF NodesInvType
    <2> QED
      BY <1>0, <2>1, <2>2 DEF QuarantineInv, Acting
  <1>7. CASE ReadConfig
    <2>1. UNCHANGED <<onboot, double, renamed>> /\ node.pc = "configs" /\ node.verdict = ""
      BY <1>7 DEF ReadConfig, nodes, QuarantineInv
    <2>2. ASSUME NEW c \in node.scan,
                 node' = [node EXCEPT !.scan = @ \ {c},
                            !.found = IF Duplicates(c) THEN @ \cup {c} ELSE @]
          PROVE  QuarantineInv'
      <3>1. /\ node'.pc = "configs" /\ node'.verdict = ""
            /\ node'.scan = node.scan \ {c}
            /\ node'.found = IF c \in double THEN node.found \cup {c} ELSE node.found
        BY <1>0, <2>1, <2>2 DEF NodesInvType, NodeState, Duplicates
      <3>2. double \cap onboot \subseteq node'.scan \cup node'.found
        BY <1>0, <2>1, <3>1 DEF QuarantineInv
      <3>3. node.found \subseteq double \cup renamed
        BY <2>1 DEF QuarantineInv
      <3>4. node'.found \subseteq double \cup renamed
        BY <3>1, <3>3
      <3> QED
        BY <1>0, <2>1, <3>1, <3>2, <3>4 DEF QuarantineInv, Acting
    <2>3. CASE node.scan = {} /\ node.found = {} /\ Finish("ok")
      <3>1. double \cap onboot = {}
        BY <2>1, <2>3 DEF QuarantineInv
      <3> QED
        BY <1>0, <2>1, <2>3, <3>1, FinishType DEF QuarantineInv, Acting
    <2>4. CASE /\ node.scan = {} /\ node.found # {}
               /\ node' = [node EXCEPT !.pc = "onboot"]
      <3>1. /\ node'.pc = "onboot" /\ node'.verdict = ""
            /\ node'.found = node.found
        BY <1>0, <2>1, <2>4 DEF NodesInvType, NodeState
      <3> QED
        BY <1>0, <2>1, <2>4, <3>1 DEF QuarantineInv, Acting
    <2> QED
      BY <1>4, <1>7, <2>2, <2>3, <2>4, FinishType DEF ReadConfig
  <1>8. CASE DisableOnboot
    <2>1. CASE /\ onboot' = onboot \ {target}
               /\ node' = [node EXCEPT !.pc = IF target \in node.seenRunning
                                              THEN "shutdown" ELSE "status"]
      <3>1. /\ node'.pc \in {"shutdown", "status"} /\ node'.verdict = ""
            /\ node'.found = node.found /\ UNCHANGED <<double, renamed>>
            /\ node.pc = "onboot"
        BY <1>0, <1>8, <2>1
           DEF DisableOnboot, QuarantineInv, NodesInvType, NodeState
      <3> QED
        BY <1>0, <1>2, <2>1, <3>1 DEF QuarantineInv, Acting
    <2> QED
      BY <1>4, <1>8, <2>1, FinishType DEF DisableOnboot, NoOnboot
  <1>9. ASSUME NEW to \in {"status", "recheck"}, node.pc \in {"shutdown", "stop"},
               StopOrNot(to)
        PROVE  QuarantineInv'
    <2>1. /\ node'.pc = to /\ node'.verdict = "" /\ node'.found = node.found
          /\ UNCHANGED <<onboot, double, renamed>>
      BY <1>0, <1>9 DEF StopOrNot, QuarantineInv, NodesInvType, NodeState, Acting
    <2> QED
      BY <1>0, <1>2, <1>9, <2>1 DEF QuarantineInv, Acting
  <1>10. CASE CheckStatus \/ RecheckStatus
    <2>1. /\ UNCHANGED <<onboot, double, renamed>> /\ node.pc \in {"status", "recheck"}
          /\ node.verdict = ""
      BY <1>10 DEF CheckStatus, RecheckStatus, nodes, QuarantineInv, Acting
    <2>2. CASE node.found = {target} /\ Finish("ok")
      <3>1. double \cap onboot = {}
        BY <2>1, <2>2 DEF QuarantineInv, Acting
      <3> QED
        BY <1>0, <2>1, <2>2, <3>1, FinishType DEF QuarantineInv, Acting
    <2>3. CASE /\ node.found # {target}
               /\ node' = [node EXCEPT !.pc = "onboot", !.found = @ \ {target}]
      <3>1. /\ node'.pc = "onboot" /\ node'.verdict = ""
            /\ node'.found = node.found \ {target}
        BY <1>0, <2>1, <2>3 DEF NodesInvType, NodeState
      <3> QED
        BY <1>0, <2>1, <2>3, <3>1 DEF QuarantineInv, Acting
    <2>4. CASE node.pc = "status" /\ node' = [node EXCEPT !.pc = "stop"]
      <3>1. /\ node'.pc = "stop" /\ node'.verdict = ""
            /\ node'.found = node.found
        BY <1>0, <2>1, <2>4 DEF NodesInvType, NodeState
      <3> QED
        BY <1>0, <1>2, <2>1, <2>4, <3>1 DEF QuarantineInv, Acting
    <2> QED
      BY <1>4, <1>10, <2>2, <2>3, <2>4, FinishType
         DEF CheckStatus, RecheckStatus, Quarantined
  <1>11. CASE StartShutdown
    <2>1. CASE node' = [Ready0 EXCEPT !.pc = "cluster", !.found = DeclaredNodes,
                                      !.verdict = ""]
      <3>1. node'.pc = "cluster" /\ node'.verdict = ""
        BY <2>1 DEF Ready0
      <3> QED
        BY <1>0, <3>1 DEF QuarantineInv, Acting
    <2> QED
      BY <1>4, <1>11, <2>1, FinishType DEF StartShutdown
  <1>12. CASE StopDeclared
    <2>1. CASE node' = [node EXCEPT !.found = @ \ {target}]
      <3>1. /\ node'.pc = "cluster" /\ node'.verdict = node.verdict
            /\ UNCHANGED <<onboot, double, renamed>>
        BY <1>0, <1>12, <2>1 DEF StopDeclared, NodesInvType, NodeState
      <3> QED
        BY <1>0, <3>1 DEF QuarantineInv, Acting
    <2> QED
      BY <1>4, <1>12, <2>1, FinishType DEF StopDeclared
  <1>13. CASE Reboot
    BY <1>3, <1>4, <1>13, FinishType DEF Reboot
  <1>14. ASSUME NEW c \in Containers, StartContainer(c) \/ Rename(c)
         PROVE  QuarantineInv'
    <2>1. UNCHANGED <<node, onboot>>
      BY <1>14 DEF StartContainer, Rename
    <2>2. /\ double' \subseteq double
          /\ double \cup renamed \subseteq double' \cup renamed'
      BY <1>14 DEF StartContainer, Rename
    <2> QED
      BY <1>3, <2>1, <2>2
  <1>15. CASE UNCHANGED nodeVars
    BY <1>3, <1>15 DEF nodeVars, nodes
  <1>16. CASE ShutDown \/ Stop
    BY <1>9, <1>16 DEF ShutDown, Stop
  <1> QED
    BY <1>5, <1>6, <1>7, <1>8, <1>10, <1>11, <1>12, <1>13, <1>14, <1>15, <1>16
       DEF NodesNext, QuarantineStep

LEMMA QuarantineInit == NodesInit => QuarantineInv
  <1>1. NodesInit => node.pc = "idle" /\ node.verdict = "new"
    BY DEF NodesInit, Ready0
  <1> QED
    BY <1>1, NodesTypeInit DEF QuarantineInv, Acting

\* When a quarantine that could read the outputs has succeeded, no duplicate
\* comes back with a reboot of the host, whatever failed meanwhile and
\* whatever was started, renamed or shut down beside it.
THEOREM QuarantineHolds == NodesSpec => []DoublesStayDown
  <1>1. QuarantineInv => DoublesStayDown
    BY DEF QuarantineInv, DoublesStayDown
  <1> QED
    BY <1>1, QuarantineInit, QuarantineStepInv, PTL DEF NodesSpec

\* What the quarantine stops duplicates a declared node, unless it was renamed
\* since the command began, and no longer starts at boot.
THEOREM QuarantineStopsDoubles == NodesSpec => OnlyDoublesAreStopped
  <1> DEFINE Stopping ==
        \A c \in running \ running' :
          running' = running \ {c} /\ node.pc \in {"shutdown", "stop"}
              /\ node'.pc # "idle"
            => c \in (double \cup renamed) \ onboot
  <1>1. QuarantineInv /\ [NodesNext]_nodeVars => [Stopping]_nodeVars
    <2> SUFFICES ASSUME QuarantineInv, NodesNext, NEW c \in running \ running',
                        node.pc \in {"shutdown", "stop"}, node'.pc # "idle"
                 PROVE  c \in (double \cup renamed) \ onboot
      BY DEF Stopping
    <2>1. CASE ShutDown \/ Stop
      <3>1. c = target
        BY <2>1 DEF ShutDown, Stop, StopOrNot
      <3>2. target \in node.found
        BY DEF target, QuarantineInv, Acting
      <3> QED
        BY <3>1, <3>2 DEF QuarantineInv, Acting
    <2>2. CASE Reboot
      BY <2>2, FinishType DEF Reboot
    <2>3. CASE \E d \in Containers : StartContainer(d) \/ Rename(d)
      BY <2>3 DEF StartContainer, Rename
    <2> QED
      BY <2>1, <2>2, <2>3
         DEF NodesNext, QuarantineStep, StartQuarantine, ReadResources, ReadConfig,
             DisableOnboot, CheckStatus, RecheckStatus, StartShutdown,
             StopDeclared
  <1> HIDE DEF Stopping
  <1>2. NodesSpec => [][Stopping]_nodeVars
    BY <1>1, QuarantineInit, QuarantineStepInv, PTL DEF NodesSpec
  <1> QED
    BY <1>2 DEF OnlyDoublesAreStopped, Stopping

-----------------------------------------------------------------------------
(* StateMigration *)

\* Once the process knows of the legacy entry, it removes it only after the
\* new one is there, and applies only after that.
MigrationInv ==
  /\ TofuTypeOK
  /\ tofu.pc = "import" => tracked # {}
  /\ tofu.pc = "remove" => "new" \in tracked
  /\ tofu.pc = "apply" => tofu.known = {} \/ "legacy" \notin tracked

LEMMA TofuEndsType ==
  ASSUME NEW v \in {"planned", "applied", "failed"}, TofuEnds(v)
  PROVE  /\ tofu' \in [pc : {"idle", "list", "import", "remove", "apply"},
                       known : SUBSET {"legacy", "new"},
                       verdict : {"new", "", "planned", "applied", "failed"}]
         /\ tofu'.pc = "idle"
  BY DEF TofuEnds, NotRunning

LEMMA TofuFaultType ==
  ASSUME tofuFaults \in 0..MaxTofuFaults, TofuFault \/ UNCHANGED tofuFaults
  PROVE  tofuFaults' \in 0..MaxTofuFaults
  BY TofuAssumption DEF TofuFault

LEMMA MigrationStep == MigrationInv /\ [TofuNext]_tofuVars => MigrationInv'
  <1> SUFFICES ASSUME MigrationInv, [TofuNext]_tofuVars PROVE MigrationInv'
    OBVIOUS
  <1> USE DEF MigrationInv, TofuTypeOK, TofuAt
  <1>1. CASE RunTofu
    BY <1>1 DEF RunTofu
  <1>2. CASE ListState
    BY <1>2, TofuFaultType DEF ListState, Migration
  <1>3. CASE ImportNew
    BY <1>3, TofuFaultType, TofuEndsType DEF ImportNew
  <1>4. CASE RemoveLegacy
    BY <1>4, TofuFaultType, TofuEndsType DEF RemoveLegacy
  <1>5. CASE PlanTofu \/ ApplyTofu \/ TofuKilled
    BY <1>5, TofuFaultType, TofuEndsType DEF PlanTofu, ApplyTofu, TofuKilled
  <1>6. CASE UNCHANGED tofuVars
    BY <1>6 DEF tofuVars
  <1> QED
    BY <1>1, <1>2, <1>3, <1>4, <1>5, <1>6 DEF TofuNext, TofuStep

LEMMA MigrationInit == TofuInit => MigrationInv
  BY TofuAssumption DEF TofuInit, MigrationInv, TofuTypeOK, NotRunning

\* The variables of the migration keep their types.
THEOREM TofuTypeCorrect == TofuSpec => []TofuTypeOK
  <1>1. MigrationInv => TofuTypeOK
    BY DEF MigrationInv
  <1> QED
    BY <1>1, MigrationInit, MigrationStep, PTL DEF TofuSpec

\* The template survives the migration and the apply after it, and the state
\* never loses track of it, unless the state could not be listed and the
\* process went on as if it were empty.
THEOREM TemplateSurvives == TofuSpec => ImageSurvives
  <1> DEFINE Keeps == (image => image' /\ tracked' # {})
                        \/ (tofu.known = {} /\ "legacy" \in tracked)
  <1>1. MigrationInv /\ [TofuNext]_tofuVars => [Keeps]_<<tracked, image>>
    <2> SUFFICES ASSUME MigrationInv, [TofuNext]_tofuVars
                 PROVE  Keeps \/ UNCHANGED <<tracked, image>>
      OBVIOUS
    <2> USE DEF MigrationInv, TofuTypeOK, TofuAt
    <2>1. CASE ImportNew \/ RemoveLegacy
      BY <2>1 DEF ImportNew, RemoveLegacy
    <2>2. CASE ApplyTofu
      BY <2>2 DEF ApplyTofu
    <2> QED
      BY <2>1, <2>2 DEF TofuNext, TofuStep, RunTofu, ListState, PlanTofu,
         TofuKilled, tofuVars
  <1> HIDE DEF Keeps
  <1>2. TofuSpec => [][Keeps]_<<tracked, image>>
    BY <1>1, MigrationInit, MigrationStep, PTL DEF TofuSpec
  <1> QED
    BY <1>2 DEF ImageSurvives, Keeps
=============================================================================
