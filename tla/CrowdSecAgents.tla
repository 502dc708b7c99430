--------------------------- MODULE CrowdSecAgents ---------------------------
(***************************************************************************)
(* recover_stale_crowdsec_runtime_registrations of scripts/haac.py, which  *)
(* `wait-for-stack` calls while CrowdSec is progressing: an agent that was *)
(* restarted in its pod cannot register under its old name again, so the   *)
(* process deletes the registration and the pod.  The pods are read before *)
(* the registrations, and neither deletion is checked.                     *)
(***************************************************************************)
EXTENDS Naturals

CONSTANTS Pods, MaxAgentFaults

ASSUME AgentsAssumption == MaxAgentFaults \in Nat

VARIABLES
  ready,      \* is the pod Ready
  machine,    \* registration under the pod's name: "none", "fresh", or "stale"
              \* when the last heartbeat is 30 minutes old
  heal,       \* the process
  agentFaults

agents == <<ready, machine>>
agentVars == <<agents, heal, agentFaults>>

AgentFault == agentFaults < MaxAgentFaults /\ agentFaults' = agentFaults + 1

Resting == [pc |-> "idle", unready |-> {}, todo |-> {}, half |-> {}]

\* crowdsec_runtime_pod_readiness
ReadPods ==
  /\ heal.pc = "idle"
  /\ heal' = [Resting EXCEPT !.pc = "machines",
                             !.unready = {p \in Pods : ~ready[p]}]
  /\ UNCHANGED <<agents, agentFaults>>

ReadyNames == {p \in Pods \ heal.unready : machine[p] = "stale"}     \* mutant: the readiness is inverted
StaleNames == {p \in heal.unready : machine[p] = "stale"}

\* stale_crowdsec_runtime_machine_names; an unreadable list is an empty one.
ReadMachines ==
  /\ heal.pc = "machines"
  /\ \/ StaleNames # {} /\ heal' = [heal EXCEPT !.pc = "prune", !.todo = StaleNames]
                        /\ UNCHANGED agentFaults
     \/ StaleNames = {} /\ heal' = Resting /\ UNCHANGED agentFaults
     \/ AgentFault /\ heal' = Resting
  /\ UNCHANGED agents

\* delete_crowdsec_machine_registration, for the pods one after the other
DeleteRegistration(p) ==
  /\ heal.pc = "prune" /\ heal.half = {} /\ p \in heal.todo
  /\ heal' = [heal EXCEPT !.half = {p}]
  /\ \/ machine' = [machine EXCEPT ![p] = "none"] /\ UNCHANGED agentFaults
     \/ AgentFault /\ UNCHANGED machine
  /\ UNCHANGED ready

\* delete_crowdsec_runtime_pod: the new pod has a name of its own.
DeletePod(p) ==
  /\ heal.pc = "prune" /\ heal.half = {p}
  /\ heal' = IF heal.todo = {p} THEN Resting
             ELSE [heal EXCEPT !.half = {}, !.todo = @ \ {p}]
  /\ \/ /\ ready' = [ready EXCEPT ![p] = FALSE]
        /\ machine' = [machine EXCEPT ![p] = "none"]
        /\ UNCHANGED agentFaults
     \/ AgentFault /\ UNCHANGED agents

-----------------------------------------------------------------------------
(* The agents *)

Join(p) ==
  /\ ~ready[p] /\ machine[p] = "none"
  /\ ready' = [ready EXCEPT ![p] = TRUE]
  /\ machine' = [machine EXCEPT ![p] = "fresh"]
  /\ UNCHANGED <<heal, agentFaults>>

\* The pod is not ready, for a moment or because its agent restarted.
Falter(p) ==
  /\ ready[p] /\ AgentFault
  /\ ready' = [ready EXCEPT ![p] = FALSE]
  /\ UNCHANGED <<machine, heal>>

Steady(p) ==
  /\ ~ready[p] /\ machine[p] # "none"
  /\ ready' = [ready EXCEPT ![p] = TRUE]
  /\ machine' = [machine EXCEPT ![p] = "fresh"]
  /\ UNCHANGED <<heal, agentFaults>>

HeartbeatAges(p) ==
  /\ ~ready[p] /\ machine[p] = "fresh"
  /\ machine' = [machine EXCEPT ![p] = "stale"]
  /\ UNCHANGED <<ready, heal, agentFaults>>

AgentsInit ==
  /\ ready \in [Pods -> BOOLEAN]
  /\ machine \in [Pods -> {"none", "fresh", "stale"}]
  /\ \A p \in Pods : ready[p] => machine[p] = "fresh"
  /\ heal = Resting
  /\ agentFaults = 0

HealStep ==
  \/ ReadPods \/ ReadMachines
  \/ \E p \in Pods : DeleteRegistration(p) \/ DeletePod(p)

Settle(p) == Join(p) \/ HeartbeatAges(p)

AgentsNext ==
  HealStep \/ \E p \in Pods : Settle(p) \/ Falter(p) \/ Steady(p)

AgentsSpec == AgentsInit /\ [][AgentsNext]_agentVars

AgentsFairness ==
  WF_agentVars(HealStep) /\ \A p \in Pods : WF_agentVars(Settle(p))

-----------------------------------------------------------------------------
(* Properties *)

AgentsTypeOK ==
  /\ ready \in [Pods -> BOOLEAN]
  /\ machine \in [Pods -> {"none", "fresh", "stale"}]
  /\ heal \in [pc : {"idle", "machines", "prune"}, unready : SUBSET Pods,
               todo : SUBSET Pods, half : SUBSET Pods]
  /\ agentFaults \in 0..MaxAgentFaults

\* A pod that cannot register under its name again is replaced, and every
\* agent is ready in the end, also when deletions fail unnoticed.
AgentsRejoin == \A p \in Pods : []<>ready[p]
=============================================================================
