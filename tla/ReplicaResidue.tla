--------------------------- MODULE ReplicaResidue ---------------------------
(***************************************************************************)
(* `cleanup-security-signal-residue` of scripts/haac.py: ReplicaSets that  *)
(* a rollout left behind with zero replicas keep security reports red.     *)
(* The process lists them, deletes their reports of each kind, and then    *)
(* the ReplicaSets it deleted a report of.  The scanners write reports     *)
(* again as long as a ReplicaSet exists, and a rollback may scale one up.  *)
(***************************************************************************)
EXTENDS Naturals, Sequences

CONSTANTS
  Replicas,     \* ReplicaSets with an allowlisted name
  Kinds,        \* sequence of report resources: policyreport, then Trivy's
  MaxResidueFaults

KindSet == {Kinds[k] : k \in DOMAIN Kinds}

ASSUME ResidueAssumption ==
  Kinds \in Seq(KindSet) /\ Kinds # << >> /\ MaxResidueFaults \in Nat

VARIABLES
  scale,        \* per ReplicaSet: "gone", "zero" or "serving"
  reports,      \* per kind: ReplicaSets it has a report of
  sweep,        \* the process
  residueFaults

residueVars == <<scale, reports, sweep, residueFaults>>

ResidueFault ==
  residueFaults < MaxResidueFaults /\ residueFaults' = residueFaults + 1

Swept == [pc |-> "idle", stale |-> {}, kind |-> 1, todo |-> {}, matched |-> {}]

\* find_zero_replica_replicasets
FindStale ==
  /\ sweep.pc = "idle"
  /\ LET stale == {r \in Replicas : scale[r] = "zero"} IN
     sweep' = IF stale = {} THEN Swept
              ELSE [Swept EXCEPT !.pc = "read", !.stale = stale]
  /\ UNCHANGED <<scale, reports, residueFaults>>

\* delete_stale_namespaced_records, once per kind: the list first, ...
ReadReports ==
  /\ sweep.pc = "read"
  /\ sweep' = [sweep EXCEPT !.pc = "reports",
                 !.todo = sweep.stale \cap reports[Kinds[sweep.kind]]]
  /\ UNCHANGED <<scale, reports, residueFaults>>

Forgotten(r) == sweep.matched     \* mutant: the match is not remembered
Matched(r) == sweep.matched \cup {r}

\* ... then one deletion after the other.
DeleteReport ==
  /\ sweep.pc = "reports"
  /\ \E r \in sweep.todo :
       /\ reports' = [reports EXCEPT ![Kinds[sweep.kind]] = @ \ {r}]
       /\ sweep' = [sweep EXCEPT !.todo = @ \ {r}, !.matched = Matched(r)]
  /\ UNCHANGED <<scale, residueFaults>>

NextKind ==
  /\ sweep.pc = "reports" /\ sweep.todo = {}
  /\ IF sweep.kind < Len(Kinds)
     THEN sweep' = [sweep EXCEPT !.pc = "read", !.kind = @ + 1]
     ELSE sweep' = [sweep EXCEPT !.pc = "replicasets"]
  /\ UNCHANGED <<scale, reports, residueFaults>>

\* Only a ReplicaSet one of whose reports was deleted.
DeleteReplicaSet ==
  /\ sweep.pc = "replicasets"
  /\ \E r \in sweep.matched :
       /\ scale' = [scale EXCEPT ![r] = "gone"]
       /\ sweep' = [sweep EXCEPT !.matched = @ \ {r}]
  /\ UNCHANGED <<reports, residueFaults>>

EndSweep ==
  /\ sweep.pc = "replicasets" /\ sweep.matched = {}
  /\ sweep' = Swept
  /\ UNCHANGED <<scale, reports, residueFaults>>

\* A command fails, or the process is killed.
SweepKilled ==
  /\ sweep.pc # "idle" /\ ResidueFault
  /\ sweep' = Swept
  /\ UNCHANGED <<scale, reports>>

-----------------------------------------------------------------------------
(* The cluster *)

\* A report of a ReplicaSet that is gone is collected with its owner.
Scan(k) ==
  /\ reports' = [reports EXCEPT ![k] = {r \in Replicas : scale[r] # "gone"}]
  /\ reports' # reports
  /\ UNCHANGED <<scale, sweep, residueFaults>>

ScaleUp(r) ==
  /\ scale[r] = "zero" /\ ResidueFault
  /\ scale' = [scale EXCEPT ![r] = "serving"]
  /\ UNCHANGED <<reports, sweep>>

ScaleDown(r) ==
  /\ scale[r] = "serving"
  /\ scale' = [scale EXCEPT ![r] = "zero"]
  /\ UNCHANGED <<reports, sweep, residueFaults>>

ResidueInit ==
  /\ scale \in [Replicas -> {"zero", "serving"}]
  /\ reports \in [KindSet -> SUBSET Replicas]
  /\ sweep = Swept
  /\ residueFaults = 0

SweepStep ==
  \/ FindStale \/ ReadReports \/ DeleteReport \/ NextKind \/ DeleteReplicaSet
  \/ EndSweep

ResidueNext ==
  \/ SweepStep \/ SweepKilled
  \/ \E k \in KindSet : Scan(k)
  \/ \E r \in Replicas : ScaleUp(r) \/ ScaleDown(r)

ResidueSpec == ResidueInit /\ [][ResidueNext]_residueVars

\* The cleanup is run again and again, and the policies are reported on.  The
\* other scanners may leave a ReplicaSet without replicas alone.
ResidueFairness ==
  WF_residueVars(SweepStep) /\ WF_residueVars(Scan(Kinds[1]))

-----------------------------------------------------------------------------
(* Properties *)

ResidueTypeOK ==
  /\ scale \in [Replicas -> {"gone", "zero", "serving"}]
  /\ reports \in [KindSet -> SUBSET Replicas]
  /\ sweep.pc \in {"idle", "read", "reports", "replicasets"}
  /\ sweep.stale \subseteq Replicas /\ sweep.kind \in 1..Len(Kinds)
  /\ sweep.todo \subseteq Replicas /\ sweep.matched \subseteq Replicas
  /\ residueFaults \in 0..MaxResidueFaults

\* A cleanup that is cut off between the reports and their ReplicaSets hides
\* the residue only until the next scan: repeated, it removes every ReplicaSet
\* that stays at zero replicas.
ResidueGoes == \A r \in Replicas : (scale[r] = "zero") ~> (scale[r] # "zero")
=============================================================================
