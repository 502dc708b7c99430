# HaaC in TLA+

HaaC ("homelab as code", this repository) brings up a Proxmox/K3s homelab from a
Git repository: `task up` provisions nodes, publishes generated manifests to the
GitOps branch, deploys ArgoCD, waits until the stack runs the published commit,
and then reconciles and verifies the applications. Almost all of the program's
own logic is `scripts/haac.py`. This directory specifies the parts of it whose
mistakes a unit test would hardly reach: what happens between two `git` or
`kubectl` commands, when somebody else acts, a command fails, or the process dies.

- [1 Inventory](#1-inventory) - [2 Plan](#2-plan) - [3 The GitOps repository](#3-the-gitops-repository)
- [4 ArgoCD readiness](#4-argocd-readiness) - [5 The operations](#5-the-operations) - [6 Runs](#6-runs)
- [7 Proofs](#7-proofs) - [8 Where the code and its documents disagree](#8-where-the-code-and-its-documents-disagree)
- [9 What is not modelled](#9-what-is-not-modelled)

## 1 Inventory

How the parts interact: `task up` (Taskfile) runs `haac.py task-run`, which runs
the phases one after the other as subprocesses; the phases share no memory, only
the clone, `.env`, the tofu state, the cluster and the services. Between machines
the shared state is the GitOps branch on the server (operators, bots and ArgoCD
read or write it) and the ArgoCD `Application` objects (the tool and the ArgoCD
controller both write them).

| Part (lines of `scripts/haac.py` unless named) | State it keeps | Operations | What is hard | What makes it correct |
|---|---|---|---|---|
| **GitOps sync and publication** 1276-1341, 2068-2431, 3515-3735; `haaclib/gitstate.py` | clone: HEAD, index, files, stash, `origin/<rev>`; the branch on the server | `sync-repo`, `push-changes [--push-all]`, `generate-secrets`, pre-commit hook | races with other pushers; failures between stash, merge, apply, drop, commit, push; lost replies; the operator edits in the same clone | no edit lost; nothing private committed; complete publication; sync never diverges; the branch is an append-only log; all edits arrive in the end |
| **ArgoCD readiness** 2439-3162, 3374-3512, 3948-4124 | the poll's snapshot, gate list, deadline, recycle cooldowns; the Application objects | `wait-for-stack`: gates, five recoveries | decisions on stale snapshots; the controller works in between; repairs may loop or undo each other | `ready` means the published commit runs; no rollback; no recycle loop; stale failures are not final; ends by the deadline; gets there in the end |
| **Media reconcile** 6321-8780, 9440-9836 | settings, keys and integrations of a dozen HTTP services; the Recyclarr Secret; the metrics exporters | `media:post-install`: gates, then one service after the other | keys are read once and used much later; a call fails half-way; Recyclarr undoes a setting that is made again; reruns | success means the stack is wired with the present keys; no integration twice; reruns converge |
| **verify-arr-flow** 8781-9437 | a request, a grab, a torrent, an import | one end-to-end scenario | the services go on between its steps; rerun after part of it happened | a download found finished is never removed; every candidate gets its turn |
| **Litmus chaos** 4402-5335 | admin account, environments, infrastructures, experiments | `reconcile-litmus-admin`, `reconcile-litmus-chaos` | lost replies; the whole attempt is retried; the server is restarted in the middle of one | experiments bound to a live infrastructure; one managed infrastructure; the legacy environment goes last; converges |
| **Edge: URL check** 5415-5876, 5919-6033; `haaclib/endpoints.py` | what has answered so far; decisions of CrowdSec; the bouncer's cache | `verify-web`, `clear-crowdsec-operator-ban` | the probes get the operator banned; bans are cached; the address is guessed | no genuine ban lifted; ends; false positives heal |
| **Edge: CrowdSec agents** 5553-5719 | pods and machine registrations | prune stale registrations | readiness is read first; two unchecked deletions | every agent comes back |
| **Edge: publication** 6036-6195 | tunnel ingress, DNS records, the connector | `sync-cloudflare`, `restart-cloudflared` | listed once, then deleted and created one by one; lost replies | what was right stays up; exactly the declared hosts in the end |
| **Node provisioning** 774-970, 9873-9903, 10391-10447; `reconcile_lxc_hardware_block.py` | LXC status and onboot, `known_hosts`, tofu state | quarantine, host keys, state migration, shutdown | stale status; reboots; kills between import and removal | only doubles stopped; doubles stay down after a boot; the template survives |
| **Security residue** 3180-3371 | idle ReplicaSets and their reports | find, delete reports, delete ReplicaSets | scanners write the reports again; failure between the deletions | residue goes in the end |
| **Bootstrap pipeline** 1344-1447, 10618-10640, `Taskfile*.yml` | phase order; the output so far | `task-run`, recovery summary | tasks of an earlier phase run inside a later one | the summary names the phase that failed |
| **Cluster session** 1607-1713, 3738-3946, 4127-4230 | local port, ssh process, kubeconfig | tunnel, port-forward, `deploy-argocd`, `verify-cluster` | port freed before it is bound; the tunnel dies under its users | no command runs against another session's cluster |
| **Tool installation** 1876-2050 | binaries, metadata file | download, replace, record | kill between replace and record | a recorded version is the installed one |
| **Change loop** `haac_loop.py` | worklog: projects, trackers | create, resume, seal | the latest project belongs to another run | a running tracker is not sealed |
| **Environment defaults** `haaclib/envdefaults.py` | none | derive values | precedence | equals its table |
| **Go command line** `cmd/haac`, `internal/cli` | none of its own | bridges to `haac.py`; reimplements state migration, host keys, shutdown, tool installation, rendering | as the Python it reimplements | same |
| **Generators, manifests, charts, playbooks, tofu** | none | rendering, declarations | - | - |

The hazards, each at its line, are listed in `PROJECT.json`.

## 2 Plan

(A) what gets onto the GitOps branch, (B) whether the cluster runs it, and (C) the
operations around it that change something outside the cluster's manifests.

1. `PublishedLog`, `GitOpsRepo`; proofs in `GitOpsRepoProofs`.
2. `ArgoCluster`, `ArgoReadiness`; proofs in `ArgoReadinessProofs`.
3. `LitmusChaos`, `EdgeAccess`, `CrowdSecAgents`, `EdgePublication`,
   `NodeQuarantine`, `StateMigration`, `ReplicaResidue`, `MediaReconcile`,
   `ArrFlow`, composed by `MCOperations`; proofs in `LitmusChaosProofs`,
   `EdgeProofs`, `HostProofs`, `MediaProofs`, `FlowProofs`, and of the composition
   in `OperationsProofs`.

All of this is written, checked and proved: every safety property that a passing
run checks is a theorem as well (section 7). What is left is liveness, which stays
with TLC, and the parts of section 9. No module uses a RECURSIVE operator.

## 3 The GitOps repository

`GitOpsRepo` models any number of writable clones and one branch on a server.

*Data.* A change is one edit of one path (`kind`, author, path, number), a commit
a set of changes, a history a nonempty sequence of commits, so "is an ancestor of" is
"is a prefix of". Files and index are kept as their difference from HEAD
(`worktree[c]`, `index[c]`). Merge commits do not occur: the tool only
fast-forwards, and the operator rebases (OperatorReconcile). Paths come in three
kinds, because the code treats three kinds differently: generated outputs
(`GITOPS_GENERATED_OUTPUTS`), other tracked files, and files no commit has added.

*Actions.* One per git command that changes something; `pc[c]` is the place in
the Python function between two such commands.

| Code | Actions, in order |
|---|---|
| `sync_repo` 3568-3635 | SyncFetch (fetch, classify, dirty list, collisions) → SyncStash → SyncMerge or SyncMergeFails (the except clause pops) → SyncApply or SyncApplyFails → SyncDrop → CheckpointStage → CheckpointCommit |
| `push_changes` 3638-3695 | PushFetch → (CheckpointStage → CheckpointCommit with `--push-all`) → Generate → PublishStage → PublishCheck → PublishCommit → PublishPush or PublishPushFails → PublishRace or PublishReport |
| `cmd_generate_secrets_local` | GenerateSecrets → Generate |
| the operator | OperatorEdit at any time; OperatorStage (git add), and what the messages of the tool ask for: OperatorMoveAway, OperatorRecover, OperatorReconcile |
| anybody else | OutsideCommit |
| a kill or a failing command | Abort, at every pc; SyncMergeFails, Generate and PublishPushFails have faults of their own |

*Abstractions.* A first fetch that fails changes nothing and is left out, as are
the checks of the configuration of origin. `git stash push` finding nothing to save cannot
happen while the operator reverts no edit under a running command, and is left
out. The operator resolves conflict markers before running the tool again
(`unmerged`), and does not stash while a command runs. A generated file has one
content, so a newer generation replaces an older one (`Overlay`); two edits of
the same hand-written file are two changes and either conflict or merge line by
line, both of which the model allows.

*History variables* (they decide nothing): `claimed`, `edits`, `adopted`.

`PublishedLog` is the abstract specification: a log that is only extended, and
claims that name entries already in it. `GitOpsRepo` implements it with
`log <- remote`, `claim <- claimed` while HEAD is on the published branch;
with another branch checked out it does not (section 8).

## 4 ArgoCD readiness

`ArgoCluster` is the environment: the Application objects reduced to the fields
haac.py reads or patches, and a controller that may compare, start, finish, fail
and lose operations between any two commands. It is not a model of ArgoCD's
source. It is what the recoveries of haac.py take for granted about ArgoCD: an
automated sync follows a compare that finds drift, but a revision that
failed is not retried; removing `/operation` halts what runs; syncing a parent
creates its children and gives them their spec; a hook Job may vanish; an operation
without the spec's syncOptions fails on large CRDs; one whose CRDs are missing
fails until the CRD provider has been synced.

`ArgoReadiness` is `wait_for_stack`:

| Code | Definitions |
|---|---|
| gates of `wait_for_stack` | `Stages`, `Start`, `NextStage`, `SecretGate`, `DownloaderGate`, `Ready` |
| `wait_for_resource` before each gate | `Exists` |
| loop of `wait_for_argocd_application_ready` | `Poll`, `CheckHook`, `ReadParent`, `Repair`, `Judge` |
| `recover_stale_argocd_operation` | `Stale`, `StaleRecovery` |
| `recover_missing_hook_argocd_operation` | `HookStall`, `CheckHook`, `ReadParent`, `RunDelete`, `RunAwait`, `RunNote`, `Cooling`, `CoolDown` |
| recoveries of missing CRDs, large CRDs, stalled downloaders | `Repair` |
| a `kubectl` that changes something | one of the commands in `todo`, run one per step |
| HaaCError, deadline, kill | `Fail`, `Expire`, `Abort`: they end the process, and with it the cooldowns |

The decision of a poll is made on `seen`, the object as it was read; its commands
run later, against whatever `app` then is. `queue` is the set of Applications that the
present stage still has to gate, and `current` the one of them with the least `Order`:
the code walks a list that it sorted (the CRD provider, its consumers, the others; the
roots in the order of their gates). `RootApps` is `WAIT_FOR_STACK_ROOT_APPLICATIONS`
(125) and `RootGates` those of them that are gated before the children. Only an
Application that comes from a chart is `Hooked`, because the manifests of the
repository bring no hook.

*Abstractions.* Time is whether the deadline has passed and whether a cooldown
runs. Asking for a refresh has no effect of its own, because the controller may
compare at any time. `kubectl delete` with `check=False` that fails ends as a
failed recreation. The CrowdSec branch (3148-3151) only delays the next poll. An
API server that cannot be reached at the start is an Abort. The wait always has an
expected revision, because the clone is a Git repository.

*Instances.* A root with two children: a chart (CRD provider, large CRDs, hook
Job, as the run asks) and `haac-stack` from the repository. This is the shape of the
repository: haac-stack has a ServiceMonitor
(`k8s/charts/haac-stack/templates/haac-apps.generated.yaml:201`), kyverno needs
`ClientSideApplyMigration=false` (`k8s/platform/applications/kyverno-app.yaml:81`),
the roots have self-heal and prune (`k8s/argocd-apps.yaml:18`). No Application of
the repository has a hook today; the charts bring theirs.

## 5 The operations

Nine modules, one per command or group of commands that share state. Each is the
process on one side and the services it changes, as the code sees them, on the
other. A request, a `kubectl`, `pct` or `tofu` that changes something is one
step; faults (a lost reply, a command that fails, a kill, an outage) may hit any
of them and are bounded by the constant `Max...Faults` of the module.

| Module | Code | Actions, in order |
|---|---|---|
| `LitmusChaos` | `reconcile_litmus_admin` 5230-5333 | ProbeLogin → (DeleteAdmin → RestartAuth → ReprobeLogin) → ClearInitialLogin |
| | `reconcile_litmus_chaos` 5100-5195, retried by `retry_litmus_transient` | ListEnvironments → CreateEnvironment → ListInfras → (DeleteInfra* → RegisterInfra → ApplyManifest → AwaitActive) → HideLegacy → ListExperiments → SaveExperiment* → Seeded |
| `EdgeAccess` | `verify_web` 5919-6033 | StartVerify → (ProbeEndpoint* → EndRound)* → Judge → ClearDetected or ClearCandidate → LiftBan* → RestartTraefik → once more |
| | `cmd_clear_crowdsec_operator_ban` | StartClear → ClearDetected or ClearCandidate → LiftBan* |
| `CrowdSecAgents` | `recover_stale_crowdsec_runtime_registrations` 5702-5719 | ReadPods → ReadMachines → (DeleteRegistration → DeletePod)* |
| `EdgePublication` | `sync_cloudflare`, `restart_cloudflared_rollout` 6062-6195 | PutIngress → ListRecords → DeleteRecord* → PlanCreation → CreateRecord* → RestartConnector |
| `NodeQuarantine` | `quarantine_duplicate_k3s_lxc_identities` 774-918 | ReadResources → ReadConfig* → (DisableOnboot → ShutDown → CheckStatus → Stop → RecheckStatus)* |
| | `shutdown_cluster` 9873-9903 | StartShutdown → StopDeclared* |
| `StateMigration` | `run_tofu_command` 10391-10445 | ListState → ImportNew → RemoveLegacy → ApplyTofu or PlanTofu |
| `ReplicaResidue` | `cleanup_security_signal_residue_in_session` 3180-3371 | FindStale → (ReadReports → DeleteReport*)* → DeleteReplicaSet* → EndSweep |
| `MediaReconcile` | `reconcile_media_stack` 9440-9836 | the calls of `Plan`, one action each |
| `ArrFlow` | `verify_arr_flow` 9197-9437 | ReadDownloads → RemoveUnfinished → SelectCandidate → RequestFilm → AwaitMovie → ChooseRelease → GrabRelease → (PollTorrent → PollImport)* → JellyfinShows |

*Abstractions.* Waits for rollouts and APIs are left out where they only delay;
where one may end the process it is a fault. `LitmusChaos`: the ten or so
identifiers of the environment are one tag per record; the supporting manifests
and the validation of the catalog change nothing that is compared later; the
agent is one deployment, so it serves the last manifest that was applied.
`EdgeAccess`: an answer is the class of answers its access policy tells apart; an
alert is on the false-positive surface or not. `EdgePublication`: a record is the
tunnel's proxied CNAME or it is not; GET and PUT of the ingress are one step.
`NodeQuarantine`: whether two identities agree (hostname or address) is one
fact about a container. `StateMigration`: OpenTofu is external; an apply may
destroy what an address without configuration tracks after it created the rest.
`MediaReconcile`: a service has a set of managed settings and a generation of its
key; a call sends all of the settings it manages or, with a fault, any part; the
values are those of the repository. `Plan` is the list of the calls, put together from
the blocks of the function (`Opening` to `Metrics`); a call that is not about one
application has the name "none". Of the keys Seerr keeps, `token` is the one of
Jellyfin: made when Seerr is given the server, read back and saved again by every run,
stale once Jellyfin has lost its volume. What Seerr does with a stale one is Seerr's: it
refuses the request or goes on with the libraries it had. `ArrFlow`: rankings inside a
film are a choice among its releases; time is whether the deadline may come.
`NodeQuarantine` has one history variable, `renamed`, that decides nothing.

*Instances.* `MCOperations` chooses one `command` at the start and lets the state
of the other eight rest: the nine modules share no variable, and the code never
runs two of these commands in one process. They are in one run because the
question is the same for each; an interleaving of commands that have nothing in
common would multiply states and tell nothing.

What the properties are for: every converging command has a liveness property
(LitmusConverges, VerificationEnds, FalsePositivesHeal, AgentsRejoin,
PublicationConverges, QuarantineConverges, ResidueGoes, MediaSettles,
RerunsTryEveryFilm: run again after any fault, it gets there), and the ones that
delete something a safety property about what must not be deleted (OneManagedInfra,
LegacyGoesLast, GenuineBansStay, PublishedStaysUp, OnlyDoublesAreStopped,
DoublesStayDown, ImageSurvives, FinishedDownloadsStay). Where the code acts on stale
knowledge, two of them name the exception that remains, and no larger one:
OnlyDoublesAreStopped the container that was renamed after its configuration was read,
FinishedDownloadsStay the download that finished after the cleanup had read its progress.
MediaSettles has one too, the key of Jellyfin that Seerr keeps. Without its exception each of
the three is violated in the run, so the model does reach these cases (section 8).
CatalogIsBound and SettledMeansWired say what the words "ok" at the end are worth;
NoDoubleIntegration, that two integrations of one sort never stand side by side, two managed
ones or a managed and a hand-made one.

## 6 Runs

| Run | Specification | Question | Distinct states |
|---|---|---|---|
| GitOpsOneClone | Spec | all commands, one clone, an outside push | 1.3 M |
| GitOpsTwoClones | Spec | two operators race for one branch (symmetry of clones) | 2.0 M |
| GitOpsLive | FairSpec | everything arrives, one fault anywhere | 0.2 M |
| ArgoSafety | Spec | readiness, leftovers, a hook, one fault | 1.6 M |
| ArgoDeadline | DeadlineSpec | the command ends | 0.3 M |
| ArgoLive | LiveSpec | the repairs, and a rerun after a fault, get through | 0.2 M |
| Operations | OperationsSpec | each operation keeps what it must and converges | 0.15 M |
| GitOpsRace, GitOpsScope, GitOpsBranch, ArgoRecycle, ArgoDescendants | Spec | violated: section 8 | - |

*Bounds of A.* One path of each kind is enough, because the code treats the paths of a
kind alike, and the sets it builds (dirty, untracked, colliding, staged) already differ
with one. Two edits let one be stashed or committed while a second is made
meanwhile; one new generation and one outside commit make the race. Only GitOpsLive
has a fault: it hits any single command, or kills the process, and EditInv is checked there
for that reason. GitOpsOneClone and GitOpsTwoClones have none (MaxFaults = 0), so the push
that is rejected is in them and the lost reply is not; there the theorems EditsNeverLost,
PublicationIsComplete and ImplementsLog stand for any number of faults. With two clones
each clone is the other's outsider, so MaxOutside is 0 there. The proofs (section 7) do
not depend on the bounds.

*Bounds of B.* Three Applications are one of each role; the published
commit StartRev has a predecessor to fall back to. MaxRev is the last commit anyone
publishes: ArgoDeadline has one more during the wait, the others none, so
NeverRollsBack is checked while nobody else publishes: a push
during the wait makes `expected` older than the branch, and then the tool does pin
Applications to it, by design of the gate. One fault is a kill, a failed operation, a
lost hook or a degraded Application.

*Bounds of C.* Two faults (one in the media reconcile and the end-to-end check, whose
steps are many) let the repair of the first fail as well. Litmus: of five identifiers
two may exist before the first run and three are left for registrations, one more
than the faults can waste, and an attempt has one retry. Edge: a URL behind Authelia
and one with a login of its own, so that a service that has lost its policy (`bare`) is a
failure of one and a success of the other; two rounds; bans of the operator and of
a stranger, on the surface and off it. DNS: two declared hosts, one to be removed, one of
another domain, in every combination of right, wrong and missing. Nodes: one declared, one
double, one neither. Residue: two ReplicaSets and two kinds of reports. Media: an ARR
application of each sort (managed, and late with an exporter), one library, a fresh or a
hand-made start. End-to-end: two films with one release each, seeded or not, present or not.

*Deadlock* is checked everywhere. In A an operator can always run another command,
and in B and C the command can always be started again.

*Fairness of A.* A started command runs on (WF of ToolStep). The operator keeps
rerunning sync and push and does what a refusal asks for (SF of the starts and of the
three recoveries: each may be disabled and enabled again by other steps, and an
operator who tries forever gets a turn). Edits, outside pushes and faults are bounded and not
fair. This is the claim of the runbooks: rerun after following the message.

*Fairness of B.* AlwaysEnds assumes only that the process runs and the clock goes on:
ArgoCD may do nothing at all. EventuallyReady assumes the deadline does not pass, the
controller looks at every Application (WF) and ends its operations (SF, because the
tool may halt one), the command is started again, and the operator syncs by hand what
ArgoCD gave up on (docs/runbooks/task-up.md: a failed revision is not retried).
Hooks are left out of these two instances: one that completes each time exactly between
the poll and the look for it gets its child recycled each time, which is finding
ArgoRecycle once per cooldown for ever.

*Fairness of C.* In every module the process runs on, and a command that ended is run
again (WF of the module's Step): the tasks are documented as rerunnable. Beyond that:
a Litmus agent connects in the end, and the operator runs not always only the admin
repair (SF of ChaosCommand); services come up, and the public address is not for
ever undetectable (SF of ClearDetected: with two addresses under a false positive the
fallback does nothing); CrowdSec agents register or age; the policy reports are
written again (Trivy need not scan an idle ReplicaSet again, so nothing is assumed of
it); the VPN comes up; the services between Seerr and Jellyfin work, and a download nobody can finish runs
into the deadline (SF of FlowDeadline, which a download that comes and goes may disable).
Faults are bounded and not fair.

## 7 Proofs

Eight modules hold the theorems; `PROJECT.json` lists them with what each establishes.
They hold for every value of the constants that meets the named `ASSUME` of the module,
and these assumptions say no more than what the constants are: subsets of one another,
natural numbers, disjoint names. Three hypotheses go further and stand in the theorems
that need them:

- `HeadChoices = {TRUE}` (ImplementsLog, PublicationIsComplete): every clone has the
  published branch checked out. `push_changes` does not check it, the finding GitOpsBranch.
- `GatedParents` (ReadyIsPublished, PublicationIsNotUndone, ReadyIsFresh,
  NothingRollsBack): every Application that deploys others is gated before them, which is
  so in `k8s/bootstrap/root`, `k8s/platform` and `k8s/workloads`: the parents are
  haac-root, haac-platform and haac-workloads. An ungated parent could be synced, to
  recycle a child, to the commit it compared before the publication.
- `NobodyElsePushes` (ReadyIsFresh, NothingRollsBack): no commit is published during the
  wait. Without it both properties fail by design of the gate: `StaleRecovery` and
  `Judge` pin a sync to the commit the command was started for, and a pinned sync that an
  interrupted run left behind takes an Application back when somebody has pushed since.
  What remains is ReadyIsPublished and PublicationIsNotUndone, proved without it: back to
  one of the commits published during the wait at worst, never to the one before.

| Theorem | Property | Inductive invariant and why it is needed |
|---|---|---|
| TypeCorrect | TypeOK | itself; a sync between merge and drop has a stash entry, a commit that may be unwound has a parent |
| EditsNeverLost | NoLostEdit | `EditInv`: `drop` would lose the entry and `reset --mixed` a staged change that is not in the file; so edits are outside the generated paths, what is staged of a hand-written file is in the file too, the same in each stash entry, and an entry about to be dropped has been restored |
| SyncNeverDiverges | SyncKeepsFastForward | `SyncInv`: HEAD is at `origin` while a sync restores, and extends it while it commits |
| UntrackedFilesStayPrivate | UntrackedStaysPrivate | `Private`: what the index, the stash and the list of dirty paths hold is known to HEAD or adopted, and a running command will only stage such paths |
| PublicationIsComplete | PushedIsComplete | `OutputsCommitted`: once staged every new output is in the index, once committed none is a change of the files; with `ReportInv` |
| ImplementsLog | LogSpec | `ReportInv`: a push that went through has put HEAD on the server. Init maps to Init, PublishPush and OutsideCommit to Extend, PublishReport to Claim, everything else to a stutter |
| ReadinessTypeCorrect | ArgoReadiness!TypeOK | itself; while it polls the stage has an Application left to gate, and a repair has commands left |
| CooldownsAreKept | RecyclesOncePerCooldown | `RecycleInv`: a deletion is the first command of its list, was decided on outside the cooldown, and nothing starts a cooldown before it has run |
| FailuresAreCurrent | StaleFailureIsNotFinal | `HookInv`: an Application of the repository never waits for a hook, so that the one way to give up that does not look at the revision is not about it |
| ReadyIsPublished, PublicationIsNotUndone | - | `FreshInv`: every Application of the repository is at a published commit or the last one before; commands on the list sync to published ones; a snapshot is not ahead of its object, which has only advanced since; what passed its gate is up to date |
| ReadyIsFresh, NothingRollsBack | ReadyMeansFresh, NeverRollsBack | `FreshInv` too: while nobody else pushes there is one published commit |
| CatalogStaysBound, OneInfraIsManaged, LegacyIsHiddenLast | CatalogIsBound, OneManagedInfra, LegacyGoesLast | `LitmusInv`: what the process has found out or done before each of its steps: the default environment exists, the infrastructures that are to go are on its list, and the target and the experiments done so far are bound |
| GenuineBansAreKept | GenuineBansStay | `AccessInv`: what is about to be lifted was seen on the false-positive surface |
| PublishedHostsStayUp | PublishedStaysUp | `RecordsInv`: what is on the list of deletions is in the managed domain |
| QuarantineHolds, QuarantineStopsDoubles | DoublesStayDown, OnlyDoublesAreStopped | `QuarantineInv`: a double that still starts at boot is among the containers to be looked at or the ones found; the target of an action no longer does, and every one found is a double or has been renamed since |
| TemplateSurvives | ImageSurvives | `MigrationInv`: the legacy address is removed only when the new one is there |
| IntegrationsAreSingle, SettledIsWired | NoDoubleIntegration, SettledMeansWired | `MediaInv`, below; an integration has at most one managed form, and none made by hand beside it |
| FinishedDownloadsAreKept | FinishedDownloadsStay | `ArrInv` (types): a case analysis of every step that writes `torrent`; the cleanup deletes only what its list shows unfinished |
| OperationsImplementEach | - | `OperationsSpec` implies the specification of each of the nine components: the choice of `command` only picks among their steps |
| OperationsTypeCorrect, OperationsStaySafe | OperationsTypeOK and the eleven safety properties above | what is proved of each component holds of the composition that the run Operations checks |

Each component has its type theorem (LitmusTypeCorrect, ..., ResidueTypeCorrect) as well.

*How the proofs are laid out.* An invariant is preserved by one step per action, the
actions of one kind behind a lemma each (a request that leaves its effect or nothing, a
process that ends, a fault). An action property uses the invariant of the state before
the step.

*MediaReconcile.* The process is at a place of `Plan`, a list that depends on the
applications, and SettledMeansWired is about the end of it. The lemmas about `Plan` say
which calls it has and what comes before what: the keys before every use, Bazarr before
the Secret, the quality policy (which takes the language profile away) before the
languages, the metrics gate last. MediaInv then says that every call before the present
place has left what it should (`Did`), unless a service has lost something since the run
began (`touched`); `DidKept` is the frame lemma that carries each of these facts over the
steps of the other calls. At the metrics gate all of `Wired` follows.

*What the proofs changed.* In the model of the quality policy a quantifier had reached
over the conjunct after it, so that the policy could leave out more than the code
can; and `Change` in `GitOpsRepo` allowed a generated kind of change on a hand-written
path, which no step makes. Neither showed in a run.

*Only model-checked.* Liveness: EditsReachRemote, PublicationRecovers, EventuallyReady,
AlwaysEnds, and the nine converging properties of section 5, because the prover handles
neither fairness nor ENABLED. No property rests on induction over data.

## 8 Where the code and its documents disagree

Five runs expect a violation, each of a sentence of the repository; `PROJECT.json`
quotes it.

- **GitOpsRace**: after a lost race only the publication commit is unwound. If a
  checkpoint of an earlier sync lies below it the clone has diverged, and `task sync`,
  which the message recommends, refuses.
- **GitOpsScope**: the publication commits the whole index, with what the operator staged.
- **GitOpsBranch**: with another branch checked out the commit goes there, the push sends the
  unchanged local branch, and HEAD is reported as published.
- **ArgoRecycle**: a hook that completes and is removed between the poll and the look for it is
  taken for a lost one, and the healthy child is deleted (and recreated).
- **ArgoDescendants**: a phased root passes before it has been synced, so a child that only the new
  commit has is not on the list of the later gates.

Others that have no run, because the properties above stop short of them:

- The media reconcile leaves a Radarr or Sonarr that Seerr already has as it is
  (8399-8411), also when its key has changed: `Wired` asks nothing of Seerr's keys.
  openspec/changes/stabilize-arr-e2e-download-flow-wave5/design.md:81 calls a rerun of
  `task media:post-install` "the supported recovery path for media bootstrap drift".
- A rerun of `verify:arr-flow` deletes the unfinished download of the run before it
  (6573), and if Radarr's history still has the grab, takes the release for selected and
  grabs nothing (9296-9300): it waits for a download that no longer exists.
  RerunsTryEveryFilm therefore promises that every film is tried, not that one arrives.
- A film that Radarr has imported and whose file is gone from the NAS ends as "downloader/VPN
  drift" (9373), because what qBittorrent showed last decides the blocker.
- The cleanup of `verify:arr-flow` lists the torrents with their progress (6575) and deletes by
  hash, with the files, in a later request (6587). A download that finishes in between is lost
  before Radarr imports it: the exception in FinishedDownloadsStay.
  tests/test_haac.py:2778 ("only_targets_incomplete_smoke_titles") is about the list only.
- Seerr's API key of Jellyfin is read from Seerr and saved again unchanged (8334-8347), and a Seerr
  that is connected is not given the server again (8294-8309). After Jellyfin lost its volume no
  rerun makes another key, against the same sentence of wave5/design.md:81: the exception in
  MediaSettles.
- The quarantine stops by the list of configurations it has read (904). A container renamed since
  is stopped although it duplicates nothing any more: the exception in OnlyDoublesAreStopped.
- The quarantine reports success when `tofu output` failed and nothing was compared (9847):
  the verdict "blind", about which DoublesStayDown says nothing.
- Only the first hundred DNS records are read (6110). With PageSize below the size of the zone
  PublicationConverges is violated.
- A state that cannot be listed counts as empty (10391-10402), and the apply after it works on
  the legacy address: the exception in ImageSurvives.
- The residue cleanup deletes a ReplicaSet that was scaled up after the list (3311), the metrics
  check does not look at Whisparr and asks of Unpackerr only its uptime (8768), which says nothing
  about the keys it was started with, and a failed restart of the exporters goes
  unnoticed until that check (9729-9742).

## 9 What is not modelled

- *Bootstrap pipeline*: the order of `task up` is in the Taskfile; the recovery summary (1389-1437)
  is a scan for the highest phase seen. It reports a failing `repair-litmus-admin` inside
  `verify-all` as cluster verification.
- *Cluster session*: sockets and child processes. The tunnel is safe from a stolen port because
  ssh exits when it cannot bind; a port-forward accepts any listener on its port.
- *Tool installation*: written in place and then recorded; what a kill leaves depends on how much
  of a file was written.
- *Host keys, restore-k3s, the LXC hardware block, git hooks*: one rewrite of one file, one ssh
  command, or what GenerateSecrets and OperatorStage do together, inside a commit of the operator's.
- *Change loop, environment defaults, generators, charts, playbooks, tofu code*: tooling around an
  external program, tables and rendering.
- *Go command line*: implements the same protocols as the Python (the state migration among them);
  the models translate the Python, which the tasks run.
- Within the modelled parts: the certificate cache (2068-2090); a stash made by the operator during
  a sync; two commands at once in one clone; directories that `git status` collapses, renames and
  quoted names (gitstate.py 56-74); ciphertexts as such; the workloads of Applications; a second
  writer of the Cloudflare configuration; two of the operations of C at once.
