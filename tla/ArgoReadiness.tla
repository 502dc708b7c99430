--------------------------- MODULE ArgoReadiness ---------------------------
(***************************************************************************)
(* `wait-for-stack` (wait_for_stack) of scripts/haac.py: after a           *)
(* publication it walks through readiness gates, one ArgoCD Application    *)
(* after the other, polls each until it is ready at the published commit,  *)
(* and repairs what it knows how to repair.  Each kubectl command is one   *)
(* step; ArgoCD (module ArgoCluster), the operator and other publishers    *)
(* act between any two of them, and the snapshot a poll decides on may be  *)
(* out of date when its commands run.                                      *)
(*                                                                         *)
(* Asking ArgoCD for a refresh has no effect of its own here, because the  *)
(* controller may compare at any time.  The clone is a Git repository (the *)
(* bootstrap requires it), so there is always an expected revision.  The   *)
(* CrowdSec branch of the loop only delays the next poll and is left out;  *)
(* an unreachable API server at the start is one of the cases of Abort.    *)
(***************************************************************************)
EXTENDS ArgoCluster

CONSTANTS
  Phased,       \* PHASED_ARGOCD_ROOT_GATES
  RootApps,     \* WAIT_FOR_STACK_ROOT_APPLICATIONS: gated by name, no children
  RootGates,    \* those gated before the children
  Order,        \* position of each Application among the gates of a stage: for
                \* children, the CRD provider, its consumers, the others
  Finalized,    \* Applications with a resources finalizer
  MayExpire     \* can the deadline of 3600 s pass

ASSUME ReadinessAssumption ==
  /\ Phased \subseteq GitApps /\ Finalized \subseteq Apps
  /\ RootApps \subseteq Apps /\ Stack \in RootApps
  /\ RootGates \subseteq (RootApps \cap GitApps) \ {Stack}
  /\ Order \in [Apps -> Nat]
  /\ \A a, b \in Apps : Order[a] = Order[b] => a = b
  /\ MayExpire \in BOOLEAN

VARIABLES
  pc,         \* what the process does next
  stage,      \* index of the current stage
  queue,      \* Applications that the stage still has to gate
  seen,       \* the Application as the last poll read it
  todo,       \* kubectl commands that the poll decided on
  expected,   \* expected_revision, fetched when the command started
  expired,    \* time.time() >= deadline
  cooling,    \* ARGOCD_HOOK_RECYCLE_COOLDOWNS: recycled less than 180 s ago
  verdict     \* how the command ended

tool == <<pc, stage, queue, seen, todo, expected, expired, cooling, verdict>>
vars == <<cluster, tool>>

\* The gates of wait_for_stack.  The children are listed twice.
Stages == <<"roots", "children", "stack", "secret", "downloader", "children">>

\* The application that the gate is about.
current == CHOOSE a \in queue : \A b \in queue : Order[a] <= Order[b]

\* list_argocd_child_applications
Children == {a \in Apps \ RootApps : app[a].alive}

QueueOf(s) ==
  CASE Stages[s] = "roots"    -> RootGates
    [] Stages[s] = "children" -> Children
    [] Stages[s] = "stack"    -> {Stack}
    [] OTHER                  -> {}

Goto(from, to) == pc = from /\ pc' = to

\* A HaaCError ends the process, and with it everything it knew.
Fail(why) ==
  /\ pc' = "done"
  /\ verdict' = why
  /\ queue' = {} /\ todo' = << >> /\ seen' = NoApp
  /\ expired' = FALSE /\ cooling' = {}
  /\ UNCHANGED <<stage, expected>>

-----------------------------------------------------------------------------
(* The stages *)

\* A new process: nothing is left of an earlier one, the cooldowns included.
Start ==
  /\ Goto("done", "gate")
  /\ expected' = Git(branch)
  /\ stage' = 1
  /\ queue' = RootGates
  /\ verdict' = ""
  /\ UNCHANGED <<cluster, seen, todo, expired, cooling>>

\* Once the queue of a stage is empty, the next stage.
NextStage ==
  /\ pc = "gate"
  /\ queue = {}
  /\ stage < Len(Stages)
  /\ stage' = stage + 1
  /\ queue' = QueueOf(stage')
  /\ pc' = IF Stages[stage'] \in {"secret", "downloader"} THEN Stages[stage']
                                                          ELSE "gate"
  /\ UNCHANGED <<cluster, seen, todo, expected, expired, cooling, verdict>>

Ready ==
  /\ Goto("gate", "done")
  /\ queue = {}
  /\ stage = Len(Stages)
  /\ verdict' = "ready"
  /\ expired' = FALSE /\ cooling' = {}
  /\ UNCHANGED <<cluster, stage, queue, seen, todo, expected>>

\* secret media/protonvpn-key, which comes with haac-stack
SecretGate ==
  /\ pc = "secret"
  /\ \/ /\ ~expired
        /\ app[Stack].applied # NoRev
        /\ pc' = "gate"
        /\ UNCHANGED <<stage, queue, seen, todo, expected, expired, cooling,
                       verdict>>
     \/ expired /\ Fail("timeout")
  /\ UNCHANGED cluster

\* The downloaders pod is Ready; its bootstrap Job, if there is one, is
\* waited for and may fail.
DownloaderGate ==
  /\ pc = "downloader"
  /\ \/ /\ ~expired
        /\ ~stalled
        /\ pc' = "gate"
        /\ UNCHANGED <<stage, queue, seen, todo, expected, expired, cooling,
                       verdict, faults>>
     \/ ~expired /\ ~stalled /\ Fault /\ Fail("job")
     \/ expired /\ Fail("timeout") /\ UNCHANGED faults
  /\ UNCHANGED <<app, branch, crds, stalled>>

-----------------------------------------------------------------------------
(* One poll of wait_for_argocd_application_ready *)

\* wait_for_resource, which tries once even after the deadline.
Exists ==
  /\ pc = "gate"
  /\ queue # {}
  /\ \/ /\ app[current].alive
        /\ pc' = "poll"
        /\ UNCHANGED <<stage, queue, seen, todo, expected, expired, cooling,
                       verdict>>
     \/ ~app[current].alive /\ expired /\ Fail("absent")
  /\ UNCHANGED cluster

\* repo_managed_argocd_application_revision_current
AnyRevision(a, s) == TRUE     \* mutant: the gate before it checked revisions
EveryApp(a, s) == s.compared = expected     \* mutant: charts have it as well
RevisionCurrent(a, s) == a \in GitApps => s.compared = expected

\* argocd_operation_sync(app).revision: .operation over operationState.
Active(s) ==
  IF s.request \in Rev THEN s.request
  ELSE IF s.pinned THEN s.opRev ELSE NoRev

\* recover_stale_argocd_operation: the operation under way syncs another
\* revision than the desired one, or the desired one is not the expected.
Stale(a, s) ==
  /\ s.phase = "Running"
  /\ Active(s) # NoRev
  /\ \/ Active(s) # s.compared
     \/ s.compared # expected /\ a \in GitApps

Unset(a) == [do |-> "unset", on |-> a, rev |-> NoRev]
Sync(a, r) == [do |-> "sync", on |-> a, rev |-> r]
Delete(a) == [do |-> "delete", on |-> a, rev |-> NoRev]
Await(a) == [do |-> "await", on |-> a, rev |-> NoRev]
Note(a) == [do |-> "note", on |-> a, rev |-> NoRev]

StaleToDesired(a, s) ==     \* mutant: back to the revision ArgoCD compared
  <<Unset(a), Sync(a, IF s.compared = NoRev THEN Latest ELSE s.compared)>>
StaleRecovery(a, s) == <<Unset(a), Sync(a, expected)>>

\* argocd_hook_wait_resource_ref, and no newer operation was requested.
HookStall(s) ==
  /\ s.why = "hook"
  /\ s.phase \in {"Running", "Failed"}
  /\ s.compared # NoRev /\ s.request \in Rev => s.request = s.compared

Do(commands) ==
  /\ todo' = commands
  /\ pc' = "run"
  /\ UNCHANGED <<cluster, stage, queue, seen, expected, expired, cooling,
                 verdict>>

MoveOn(to) ==
  /\ pc' = to
  /\ seen' = IF to = "poll" THEN NoApp ELSE seen
  /\ UNCHANGED <<cluster, stage, queue, todo, expected, expired, cooling,
                 verdict>>

\* while time.time() < deadline
NoDeadline == TRUE     \* mutant: poll until it works
TimeLeft == ~expired

\* Read the Application; the first of the recoveries needs nothing else.
Poll ==
  /\ pc = "poll"
  /\ IF ~TimeLeft THEN Fail("timeout") /\ UNCHANGED cluster
     ELSE IF ~app[current].alive THEN Fail("read") /\ UNCHANGED cluster
     ELSE
       /\ seen' = app[current]
       /\ IF Stale(current, seen')
            THEN pc' = "run" /\ todo' = StaleRecovery(current, seen')
            ELSE /\ pc' = IF HookStall(seen') THEN "hook" ELSE "repair"
                 /\ UNCHANGED todo
       /\ UNCHANGED <<cluster, stage, queue, expected, expired, cooling,
                      verdict>>

\* recover_missing_hook_argocd_operation: is the hook Job still there, and
\* is this a child that may be recycled?
NeverCooling(a) == FALSE     \* mutant: before the cooldown was added
Cooling(a) == a \in cooling

CheckHook ==
  /\ pc = "hook"
  /\ \/ app[current].hook /\ MoveOn("repair")
     \/ /\ ~app[current].hook /\ Parent[current] = None
        /\ Fail("manual") /\ UNCHANGED cluster
     \/ /\ ~app[current].hook /\ Parent[current] # None
        /\ MoveOn(IF Cooling(current) THEN "repair" ELSE "parent")

\* Read the parent; it must list the child, and the child have no finalizer.
\* Then: delete the child, sync the parent to what it compared, wait for a
\* child with another uid, start the cooldown.
ReadParent ==
  /\ pc = "parent"
  /\ LET parent == Parent[current]
         lists == app[parent].compared # NoRev
                    /\ Since[current] <= app[parent].compared[2]
     IN \/ ~app[parent].alive /\ Fail("read") /\ UNCHANGED cluster
        \/ /\ app[parent].alive
           /\ ~lists \/ current \in Finalized
           /\ Fail("manual") /\ UNCHANGED cluster
        \/ /\ app[parent].alive /\ lists /\ current \notin Finalized
           /\ Do(<<Delete(current), Sync(parent, app[parent].compared),
                   Await(current), Note(current)>>)

\* The remaining recoveries: the CRDs are there by now; the operation that
\* failed did not carry the syncOptions; the downloaders were never created.
Repair ==
  /\ pc = "repair"
  /\ IF \/ seen.why = "crd" /\ crds
        \/ seen.why = "annotation" /\ current \in LargeCrd /\ ~seen.opts
       THEN Do(<<Sync(current, Latest)>>)
     ELSE IF current = Stack /\ stalled
       THEN /\ stalled' = FALSE
            /\ pc' = "poll"
            /\ seen' = NoApp
            /\ UNCHANGED <<app, branch, crds, faults, stage, queue, todo,
                           expected, expired, cooling, verdict>>
     ELSE MoveOn("judge")

\* The gate itself, on the snapshot of the poll.
Passes(a, s) ==
  /\ s.health = "Healthy"
  /\ RevisionCurrent(a, s)
  /\ s.synced \/ a \in Phased

Judge ==
  /\ pc = "judge"
  /\ \/ /\ Passes(current, seen)
        /\ queue' = queue \ {current}
        /\ pc' = "gate"
        /\ seen' = NoApp
        /\ UNCHANGED <<cluster, stage, todo, expected, expired, cooling,
                       verdict>>
     \/ /\ ~RevisionCurrent(current, seen)
        /\ IF ~seen.synced /\ seen.phase # "Running"
             THEN Do(<<Sync(current, expected)>>)
             ELSE MoveOn("poll")
     \/ /\ ~Passes(current, seen) /\ RevisionCurrent(current, seen)
        /\ IF seen.phase \in {"Failed", "Error"}
             THEN Fail("failed") /\ UNCHANGED cluster
           ELSE IF seen.phase = "Succeeded" /\ seen.health = "Degraded"
             THEN Fail("degraded") /\ UNCHANGED cluster
           ELSE MoveOn("poll")

-----------------------------------------------------------------------------
(* The kubectl commands *)

Runs(what) == pc = "run" /\ Head(todo).do = what

DoneAtOnce ==     \* mutant: the first command ends the recovery
  /\ todo' = Tail(todo)
  /\ pc' = "poll"
  /\ seen' = NoApp
  /\ UNCHANGED <<stage, queue, expected, expired, verdict>>
Done ==
  /\ todo' = Tail(todo)
  /\ pc' = IF todo' = << >> THEN "poll" ELSE "run"
  /\ seen' = IF todo' = << >> THEN NoApp ELSE seen
  /\ UNCHANGED <<stage, queue, expected, expired, verdict>>

\* kubectl patch: remove /operation; what was under way stops.
RunUnset ==
  /\ Runs("unset")
  /\ LET a == Head(todo).on
     IN app' = IF app[a].alive /\ app[a].request # NoRev
                 THEN [app EXCEPT ![a].request = NoRev,
                                  ![a].halted = (app[a].phase = "Running")]
                 ELSE app
  /\ Done
  /\ UNCHANGED <<branch, crds, stalled, faults, cooling>>

\* sync_argocd_application: kubectl patch of /operation, which must succeed.
RunSync ==
  /\ Runs("sync")
  /\ LET a == Head(todo).on
     IN IF app[a].alive
          THEN /\ app' = [app EXCEPT ![a].request = Head(todo).rev]
               /\ Done /\ UNCHANGED cooling
          ELSE Fail("kubectl") /\ UNCHANGED app
  /\ UNCHANGED <<branch, crds, stalled, faults>>

\* kubectl delete application --wait=false; it has no finalizer to wait for.
RunDelete ==
  /\ Runs("delete")
  /\ LET a == Head(todo).on
     IN app' = [app EXCEPT ![a] = NoApp]
  /\ Done
  /\ UNCHANGED <<branch, crds, stalled, faults, cooling>>

\* wait_for_argocd_application_recreation, at most 300 s: whatever exists
\* after the deletion has another uid.
RunAwait ==
  /\ Runs("await")
  /\ LET a == Head(todo).on
         recreated == app[a].alive
     IN \/ recreated /\ Done /\ UNCHANGED <<cooling, faults>>
        \/ ~recreated /\ expired /\ Fail("recreation") /\ UNCHANGED faults
        \/ ~recreated /\ Fault /\ Fail("recreation")
  /\ UNCHANGED <<app, branch, crds, stalled>>

RunNote ==
  /\ Runs("note")
  /\ cooling' = cooling \cup {Head(todo).on}
  /\ Done
  /\ UNCHANGED cluster

-----------------------------------------------------------------------------
(* Time and failures *)

Expire ==
  /\ MayExpire /\ pc # "done" /\ ~expired
  /\ expired' = TRUE
  /\ UNCHANGED <<cluster, pc, stage, queue, seen, todo, expected, cooling,
                 verdict>>

CoolDown(a) ==
  /\ a \in cooling
  /\ cooling' = cooling \ {a}
  /\ UNCHANGED <<cluster, pc, stage, queue, seen, todo, expected, expired,
                 verdict>>

\* A kubectl that must succeed fails, the SSH tunnel dies, or Ctrl-C.
Abort ==
  /\ pc # "done"
  /\ Fault
  /\ Fail("aborted")
  /\ UNCHANGED <<app, branch, crds, stalled>>

Init ==
  /\ ClusterInit
  /\ pc = "done" /\ stage = 1 /\ queue = {} /\ todo = << >>
  /\ seen = NoApp
  /\ expected = Git(StartRev)
  /\ expired = FALSE /\ cooling = {} /\ verdict = ""

ToolStep ==
  \/ NextStage \/ Ready \/ SecretGate \/ DownloaderGate
  \/ Exists \/ Poll \/ CheckHook \/ ReadParent \/ Repair \/ Judge
  \/ RunUnset \/ RunSync \/ RunDelete \/ RunAwait \/ RunNote

Next ==
  \/ ToolStep \/ Start \/ Expire \/ Abort
  \/ \E a \in Apps : CoolDown(a)
  \/ ClusterStep /\ UNCHANGED tool

Spec == Init /\ [][Next]_vars

\* The deadline does not pass; the controller works on every Application, and
\* its operations end, also the hopeless ones; `wait-for-stack` is run again,
\* and the operator syncs by hand what failed.
Controller(a) == Compare(a) \/ Begin(a) \/ BecomeHealthy(a)
EndOperation(a) == Complete(a) \/ (Obstacle(a) # "" /\ FailOperation(a))

Fairness ==
  /\ WF_vars(ToolStep) /\ WF_vars(Start) /\ WF_vars(\E a \in Apps : CoolDown(a))
  /\ \A a \in Apps :
       /\ WF_vars(Controller(a) /\ UNCHANGED tool)
       /\ SF_vars(EndOperation(a) /\ UNCHANGED tool)
       /\ WF_vars(ManualSync(a) /\ UNCHANGED tool)

FairSpec == Spec /\ Fairness

\* Only the process runs and the clock goes on; ArgoCD may do nothing at all.
DeadlineSpec == Spec /\ WF_vars(ToolStep) /\ WF_vars(Expire)

-----------------------------------------------------------------------------
(* Properties *)

Command == [do : {"unset", "sync", "delete", "await", "note"}, on : Apps,
            rev : Rev \cup {NoRev, Latest}]

\* Every variable keeps its type.
TypeOK ==
  /\ app \in [Apps -> AppState]
  /\ branch \in StartRev..(StartRev + MaxRev) /\ crds \in BOOLEAN
  /\ stalled \in BOOLEAN
  /\ faults \in 0..MaxFaults
  /\ pc \in {"done", "gate", "secret", "downloader", "poll", "hook", "parent",
             "repair", "judge", "run"}
  /\ stage \in 1..Len(Stages)
  /\ queue \subseteq Apps /\ todo \in Seq(Command)
  /\ seen \in AppState
  /\ expected \in Rev
  /\ expired \in BOOLEAN /\ cooling \subseteq Apps
  /\ verdict \in {"", "ready", "timeout", "job", "absent", "read", "manual",
                  "failed", "degraded", "kubectl", "recreation", "aborted"}
  /\ pc = "run" <=> todo # << >>
  /\ pc \in {"poll", "hook", "parent", "repair", "judge", "run"}
       => queue # {}
  /\ pc = "parent" => Parent[current] # None

\* While nobody else pushes, a stack that the command reports ready means that
\* the Applications it gates by name run the commit it was started for,
\* although each was judged on a snapshot that may have been out of date.  (A
\* sync that an interrupted run asked for stays pinned to the commit of then:
\* once somebody has pushed, it may still undo what a later run saw.)
ReadyMeansFresh ==
  verdict = "ready" =>
    \A a \in ({Stack} \cup RootGates) \ Phased :
      app[a].alive /\ app[a].applied[1] = "git"
                   /\ app[a].applied[2] >= expected[2]

\* While nobody else pushes, no command of the tool makes ArgoCD replace a
\* commit that an Application runs by an earlier one.
NeverRollsBack ==
  [][\A a \in GitApps :
       app[a].applied[1] = "git" /\ app'[a].applied[1] = "git"
         => app'[a].applied[2] >= app[a].applied[2]]_vars

\* A child is not recycled twice within the cooldown of one run, whatever its
\* operation reports in the meantime.
RecyclesOncePerCooldown ==
  [][\A a \in Apps : app[a].alive /\ ~app'[a].alive => a \notin cooling]_vars

\* As long as somebody reruns the command, and syncs by hand what ArgoCD gave
\* up on, it ends with the stack ready: the repairs do not undo each other's
\* work for ever.
EventuallyReady == []<>(verdict = "ready")

\* The command ends, whatever ArgoCD and other publishers do: no gate and no
\* repair can keep it beyond its deadline.
AlwaysEnds == (pc # "done") ~> (pc = "done")

\* Only a child that is stuck, its operation waiting for a hook that does not
\* exist, is deleted (the design of recover-argocd-hook-stall-recovery).
RecyclesOnlyTheStuck ==
  [][\A a \in Apps : app[a].alive /\ ~app'[a].alive
       => app[a].why = "hook" /\ ~app[a].hook]_vars

\* A failure that ArgoCD reports for an Application of the repository is no
\* reason to give up while it still reports another commit than the expected
\* one (the specification argocd-head-revision-readiness).
StaleFailureIsNotFinal ==
  [][verdict = "" /\ verdict' \in {"failed", "degraded", "manual"}
       /\ current \in GitApps
         => seen.compared = expected]_vars

\* When a root Application passes its gate without being synced, "descendant
\* applications will be verified in later gates": a stack reported ready
\* consists of the published commit's Applications, each as that commit has it.
DescendantsAreVerified ==
  verdict = "ready" =>
    \A a \in Apps : Parent[a] # None /\ Since[a] <= expected[2]
                      => app[a].alive /\ app[a].made >= expected[2]
=============================================================================
