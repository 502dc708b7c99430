---------------------------- MODULE MCOperations ----------------------------
(***************************************************************************)
(* The day-two commands, checked together.  They share no state with one   *)
(* another, so one of them is chosen at the start and works on every state *)
(* it may find, while what belongs to the others rests.                    *)
(***************************************************************************)
EXTENDS LitmusChaos, EdgeAccess, CrowdSecAgents, EdgePublication, NodeQuarantine,
        StateMigration, ReplicaResidue, MediaReconcile, ArrFlow, TLC

VARIABLE command    \* the component that the operator works on

operations == <<litmusVars, edgeVars, agentVars, dnsVars, nodeVars, tofuVars,
                residueVars, mediaVars, arrVars, command>>

-----------------------------------------------------------------------------
(* Values of the constants *)

MCAuth == [a |-> "edge_forward_auth", b |-> "app_native"]
MCKinds == <<"policyreport", "trivy">>
MCArrs == <<"radarr", "whisparr">>
MCManaged == <<"radarr">>
MCFilmOf == [r1 |-> "f1", r2 |-> "f2"]

-----------------------------------------------------------------------------
(* The component that is worked on, and the others *)

LitmusRests == /\ envs = {"default"} /\ \A i \in Infras : infra[i] = "none"
               /\ agent = Nobody /\ admin = "ok" /\ \A e \in Experiments : ~saved[e].fresh
EdgeRests == bans = {} /\ \A e \in Endpoints : route[e] = "ready"
AgentsRest == \A p \in Pods : ready[p]
PublicationRests == ingress = Hosts /\ records = {}
NodesRest == running = Containers
TofuRests == tracked = {"new"}
ResidueRests == \A r \in Replicas : scale[r] = "serving" /\ \A k \in KindSet : reports[k] = {}
MediaRests == /\ downloader = "blocked" /\ config["jellyfin"] = {}
              /\ \A l \in Links : ~link[l].manual
ArrRests == seeded = {} /\ movies = {}

OperationsInit ==
  /\ command \in {"litmus", "edge", "agents", "dns", "nodes", "tofu", "residue",
                  "media", "arr"}
  /\ LitmusInit /\ (command # "litmus" => LitmusRests)
  /\ EdgeInit /\ (command # "edge" => EdgeRests)
  /\ AgentsInit /\ (command # "agents" => AgentsRest)
  /\ PublicationInit /\ (command # "dns" => PublicationRests)
  /\ NodesInit /\ (command # "nodes" => NodesRest)
  /\ TofuInit /\ (command # "tofu" => TofuRests)
  /\ ResidueInit /\ (command # "residue" => ResidueRests)
  /\ MediaInit /\ (command # "media" => MediaRests)
  /\ ArrInit /\ (command # "arr" => ArrRests)

OperationsNext ==
  /\ UNCHANGED command
  /\ \/ command = "litmus" /\ LitmusNext
     \/ command # "litmus" /\ UNCHANGED litmusVars
  /\ \/ command = "edge" /\ EdgeNext
     \/ command # "edge" /\ UNCHANGED edgeVars
  /\ \/ command = "agents" /\ AgentsNext
     \/ command # "agents" /\ UNCHANGED agentVars
  /\ \/ command = "dns" /\ PublicationNext
     \/ command # "dns" /\ UNCHANGED dnsVars
  /\ \/ command = "nodes" /\ NodesNext
     \/ command # "nodes" /\ UNCHANGED nodeVars
  /\ \/ command = "tofu" /\ TofuNext
     \/ command # "tofu" /\ UNCHANGED tofuVars
  /\ \/ command = "residue" /\ ResidueNext
     \/ command # "residue" /\ UNCHANGED residueVars
  /\ \/ command = "media" /\ MediaNext
     \/ command # "media" /\ UNCHANGED mediaVars
  /\ \/ command = "arr" /\ ArrNext
     \/ command # "arr" /\ UNCHANGED arrVars

-----------------------------------------------------------------------------
(* Fairness of the component that is worked on, as its module states it *)

OperationsFairness ==
  /\ WF_litmusVars(command = "litmus" /\ LitmusStep)
  /\ SF_litmusVars(command = "litmus" /\ ChaosCommand)
  /\ WF_litmusVars(command = "litmus" /\ AgentConnects)
  /\ WF_edgeVars(command = "edge" /\ EdgeStep)
  /\ SF_edgeVars(command = "edge" /\ ClearDetected)
  /\ WF_edgeVars(command = "edge" /\ RoutesRecover)
  /\ WF_agentVars(command = "agents" /\ HealStep)
  /\ \A p \in Pods : WF_agentVars(command = "agents" /\ Settle(p))
  /\ WF_dnsVars(command = "dns" /\ PublicationNext)
  /\ WF_nodeVars(command = "nodes" /\ QuarantineStep)
  /\ WF_tofuVars(command = "tofu" /\ TofuStep)
  /\ WF_residueVars(command = "residue" /\ SweepStep)
  /\ WF_residueVars(command = "residue" /\ Scan(Kinds[1]))
  /\ WF_mediaVars(command = "media" /\ MediaStep)
  /\ WF_mediaVars(command = "media" /\ DownloaderReady)
  /\ WF_arrVars(command = "arr" /\ ArrStep)
  /\ SF_arrVars(command = "arr" /\ FlowDeadline)
  /\ WF_arrVars(command = "arr" /\ ArrService)

OperationsSpec == OperationsInit /\ [][OperationsNext]_operations /\ OperationsFairness

OperationsTypeOK ==
  /\ LitmusTypeOK /\ EdgeTypeOK /\ AgentsTypeOK /\ PublicationTypeOK /\ NodesTypeOK
  /\ TofuTypeOK /\ ResidueTypeOK /\ MediaTypeOK /\ ArrTypeOK
=============================================================================
