---------------------------- MODULE ArgoCluster ----------------------------
(***************************************************************************)
(* What scripts/haac.py sees of ArgoCD: the Application objects of the     *)
(* app-of-apps tree and the controller that works on them, modelled from   *)
(* the fields and phases haac.py reads and from what its patches rely on.  *)
(* A root Application (haac-root, haac-platform, haac-workloads) deploys   *)
(* other Applications; syncing it at a revision creates them and updates   *)
(* their specs.  The controller compares, starts, finishes and loses       *)
(* operations at any time, between any two commands of the tool.           *)
(***************************************************************************)
EXTENDS Naturals, Sequences

CONSTANTS
  Apps,         \* names of the ArgoCD Applications
  None,         \* no Application
  GitApps,      \* those whose source is the GitOps repository, not a chart
  Parent,       \* Parent[a]: the Application that deploys a, or None
  Since,        \* Since[a]: the first revision whose manifests contain a
  Stack,        \* haac-stack
  Provider,     \* kube-prometheus-stack: brings the monitoring CRDs
  Consumers,    \* the Applications whose manifests need these CRDs
  LargeCrd,     \* those whose CRDs need ClientSideApplyMigration=false
  Hooked,       \* those with a sync hook (a Job); only charts bring one
  Leftovers,    \* pairs <<a, why>>: how the last operation of a may have failed
  StartRev,     \* the commit that was just published to the GitOps branch
  MaxRev,       \* bound: the last commit anyone pushes to it
  Stalled,      \* was the downloaders rollout given up before its dependencies
  MaxFaults     \* bound: failed operations, lost hooks, dead commands, in all

ASSUME ClusterAssumption ==
  /\ None \notin Apps
  /\ GitApps \subseteq Apps /\ Consumers \subseteq Apps
  /\ LargeCrd \subseteq Apps /\ Hooked \subseteq Apps \ GitApps
  /\ Stack \in GitApps /\ Provider \in Apps
  /\ Parent \in [Apps -> GitApps \cup {None}]
  /\ Since \in [Apps -> Nat]
  /\ Leftovers \subseteq (Apps \X {"other"}) \cup (Hooked \X {"hook"})
                    \cup (LargeCrd \X {"annotation"})
  /\ StartRev \in Nat \ {0} /\ MaxRev \in Nat /\ MaxFaults \in Nat
  /\ Stalled \in BOOLEAN

\* A revision: a commit of the GitOps branch, or the chart version that the
\* commit asks for.  An operation may also ask for the latest one.
Git(n) == <<"git", n>>
Chart(n) == <<"chart", n>>
NoRev == <<"none", 0>>
Latest == <<"latest", 0>>
Rev == {"git", "chart"} \X Nat

AppState == [
  alive    : BOOLEAN,             \* the Application object exists
  made     : Nat,                 \* GitOps revision its spec comes from
  compared : Rev \cup {NoRev},    \* status.sync.revision
  synced   : BOOLEAN,             \* status.sync.status = Synced
  applied  : Rev \cup {NoRev},    \* what runs in the cluster
  health   : {"Progressing", "Healthy", "Degraded"},
  phase    : {"", "Running", "Succeeded", "Failed", "Error"},
  why      : {"", "hook", "crd", "annotation", "other"},  \* its message
  opRev    : Rev \cup {NoRev},    \* the revision the operation syncs
  pinned   : BOOLEAN,             \* the operation names that revision
  opts     : BOOLEAN,             \* it carries the spec's syncOptions
  halted   : BOOLEAN,             \* its .operation was removed under way
  request  : Rev \cup {NoRev, Latest},   \* .operation.sync.revision
  hook     : BOOLEAN]             \* the hook Job exists

VARIABLES
  app,       \* app[a]: the Application a
  branch,    \* newest commit of the GitOps branch
  crds,      \* the monitoring CRDs are installed
  stalled,   \* the downloaders rollout is stalled, and was not restarted yet
  faults

cluster == <<app, branch, crds, stalled, faults>>

Kids(a) == {c \in Apps : Parent[c] = a}

Fault == faults > 0 /\ faults' = faults - 1

Fresh(n) ==
  [alive |-> TRUE, made |-> n, compared |-> NoRev,
   synced |-> FALSE, applied |-> NoRev, health |-> "Progressing", phase |-> "",
   why |-> "", opRev |-> NoRev, pinned |-> FALSE, opts |-> FALSE,
   halted |-> FALSE, request |-> NoRev, hook |-> FALSE]

\* What the spec of a asks for now.
Target(a) == IF a \in GitApps THEN Git(branch) ELSE Chart(app[a].made)

InSync(a) ==
  /\ app[a].applied = Target(a)
  /\ \A c \in Kids(a) :
       Since[c] <= branch => app[c].alive /\ app[c].made = branch

\* No Application was read, or it does not exist.
NoApp == [Fresh(0) EXCEPT !.alive = FALSE]

\* Automated sync, unless one is asked for or this revision failed before.
AutoSync(a) ==
  /\ ~InSync(a)
  /\ app[a].request = NoRev
  /\ app[a].phase = "Running" => app[a].halted
  /\ app[a].phase \in {"Failed", "Error"} => app[a].opRev # Target(a)

\* The controller compares a with its target, on request or periodically, and
\* then decides whether to sync it.
Compare(a) ==
  /\ app[a].alive
  /\ app[a].compared # Target(a) \/ app[a].synced # InSync(a) \/ AutoSync(a)
  /\ app' = [app EXCEPT ![a].compared = Target(a), ![a].synced = InSync(a),
                        ![a].request = IF AutoSync(a) THEN Target(a) ELSE @]
  /\ UNCHANGED <<branch, crds, stalled, faults>>

\* The operation that was asked for starts, unless one is under way.
Begin(a) ==
  /\ app[a].alive /\ app[a].request # NoRev
  /\ app[a].phase = "Running" => app[a].halted
  /\ app' = [app EXCEPT ![a].phase = "Running", ![a].why = "",
                        ![a].opRev = IF app[a].request = Latest
                                       THEN Target(a) ELSE app[a].request,
                        ![a].pinned = app[a].request # Latest,
                        ![a].opts = TRUE, ![a].halted = FALSE]
  /\ UNCHANGED <<branch, crds, stalled, faults>>

Working(a) == app[a].alive /\ app[a].phase = "Running" /\ ~app[a].halted

\* What stands in the way of the operation of a.
Obstacle(a) ==
  CASE a \in GitApps /\ app[a].opRev[1] # "git"     -> "other"
    [] a \notin GitApps /\ app[a].opRev[1] # "chart" -> "other"
    [] a \in Consumers /\ ~crds                     -> "crd"
    [] a \in LargeCrd /\ ~app[a].opts               -> "annotation"
    [] OTHER                                        -> ""

WaitForHook(a) ==
  /\ a \in Hooked /\ Working(a) /\ app[a].why = "" /\ Obstacle(a) = ""
  /\ app' = [app EXCEPT ![a].why = "hook", ![a].hook = TRUE]
  /\ UNCHANGED <<branch, crds, stalled, faults>>

\* The hook Job is gone (TTL, a manual delete): nothing will complete it.
LoseHook(a) ==
  /\ app[a].hook /\ Fault
  /\ app' = [app EXCEPT ![a].hook = FALSE]
  /\ UNCHANGED <<branch, crds, stalled>>

\* The operation succeeds: what it syncs runs, children are made from it.
\* Nobody reads which revision a successful operation synced.
Complete(a) ==
  /\ Working(a)
  /\ Obstacle(a) = ""
  /\ app[a].why = "hook" => app[a].hook
  /\ LET n == app[a].opRev[2]
         deploys == {c \in Kids(a) : Since[c] <= n}
     IN app' = [b \in Apps |->
          IF b = a
            THEN [app[a] EXCEPT !.applied = app[a].opRev, !.phase = "Succeeded",
                                !.why = "", !.hook = FALSE, !.request = NoRev,
                                !.opRev = NoRev, !.pinned = FALSE,
                                !.health = "Progressing"]
          ELSE IF b \in deploys
            THEN IF app[b].alive THEN [app[b] EXCEPT !.made = n]
                                 ELSE Fresh(n)
          ELSE app[b]]
  /\ crds' = (crds \/ a = Provider)
  /\ UNCHANGED <<branch, stalled, faults>>

\* The operation fails: it had to, or it just does.
FailOperation(a) ==
  /\ Working(a)
  /\ IF Obstacle(a) = "" /\ (app[a].why = "hook" => app[a].hook)
       THEN Fault ELSE UNCHANGED faults
  /\ app' = [app EXCEPT
       ![a].phase = IF Obstacle(a) = "other" THEN "Error" ELSE "Failed",
       ![a].why = IF Obstacle(a) # "" THEN Obstacle(a)
                  ELSE IF @ = "hook" THEN "hook" ELSE "other",
       ![a].request = NoRev]
  /\ UNCHANGED <<branch, crds, stalled>>

BecomeHealthy(a) ==
  /\ app[a].alive /\ app[a].health # "Healthy" /\ app[a].applied # NoRev
  /\ ~(a = Stack /\ stalled)
  /\ app' = [app EXCEPT ![a].health = "Healthy"]
  /\ UNCHANGED <<branch, crds, stalled, faults>>

Degrade(a) ==
  /\ app[a].alive /\ app[a].health # "Degraded" /\ Fault
  /\ app' = [app EXCEPT ![a].health = "Degraded"]
  /\ UNCHANGED <<branch, crds, stalled>>

\* The operator syncs an Application whose operation failed, by hand.
ManualSync(a) ==
  /\ app[a].alive /\ app[a].phase \in {"Failed", "Error"}
  /\ app[a].request = NoRev
  /\ app' = [app EXCEPT ![a].request = Latest]
  /\ UNCHANGED <<branch, crds, stalled, faults>>

\* Somebody pushes to the GitOps branch.
Publish ==
  /\ branch < MaxRev
  /\ branch' = branch + 1
  /\ UNCHANGED <<app, crds, stalled, faults>>

ClusterStep ==
  \/ \E a \in Apps :
       \/ Compare(a) \/ Begin(a) \/ WaitForHook(a) \/ LoseHook(a)
       \/ Complete(a) \/ FailOperation(a) \/ BecomeHealthy(a) \/ Degrade(a)
       \/ ManualSync(a)
  \/ Publish

\* Before the publication: an Application of an earlier commit runs it, a new
\* root has just been applied, other new ones do not exist.  The last operation
\* may have failed: the reason for the publication, or a lost hook, or large
\* CRDs before its syncOptions were changed.
Settled(a) ==
  LET rev == IF a \in GitApps THEN Git(StartRev - 1) ELSE Chart(StartRev - 1)
  IN [Fresh(StartRev - 1) EXCEPT
        !.compared = rev, !.synced = TRUE, !.applied = rev,
        !.phase = "Succeeded", !.opts = TRUE,
        !.health = IF a = Stack /\ stalled THEN "Progressing" ELSE "Healthy"]

LeftFailed(a, why) ==
  [Settled(a) EXCEPT !.synced = FALSE, !.applied = NoRev, !.phase = "Failed",
                     !.why = why, !.opts = (why # "annotation"),
                     !.opRev = Settled(a).compared, !.pinned = TRUE]

InitialStates(a) ==
  IF Since[a] >= StartRev
    THEN {IF Parent[a] = None THEN Fresh(StartRev) ELSE NoApp}
    ELSE {Settled(a)}
         \cup {LeftFailed(a, l[2]) : l \in {l \in Leftovers : l[1] = a}}

ClusterInit ==
  /\ branch = StartRev
  /\ stalled = Stalled
  /\ faults \in {0, MaxFaults}
  /\ app \in [Apps -> UNION {InitialStates(a) : a \in Apps}]
  /\ \A a \in Apps : app[a] \in InitialStates(a)
  /\ crds = (app[Provider].applied # NoRev)
=============================================================================
