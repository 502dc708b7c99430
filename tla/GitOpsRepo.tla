----------------------------- MODULE GitOpsRepo -----------------------------
(***************************************************************************)
(* The Git boundary of the bootstrap: `sync-repo` (sync_repo) and          *)
(* `push-changes` (push_changes) of scripts/haac.py, run in writable       *)
(* clones of the GitOps repository, against one shared branch              *)
(* origin/<GITOPS_REPO_REVISION> that other people also push to.           *)
(*                                                                         *)
(* A change is one edit of one path.  A commit is the set of changes it    *)
(* makes and a history is the sequence of its commits, so "is an ancestor  *)
(* of" is "is a prefix of".  The worktree and the index are kept as their  *)
(* difference from HEAD.  Each git command that changes something is one   *)
(* step: operators edit, other clones push and the process dies between    *)
(* any two of them.  A first fetch that fails changes nothing and is left  *)
(* out, as are the checks that origin is configured and is the GitOps      *)
(* repository.                                                             *)
(***************************************************************************)
EXTENDS Naturals, Sequences, SequencesExt

CONSTANTS
  Clones,       \* writable clones (operators' machines)
  Outsider,     \* whoever else pushes to the branch (a person, a bot)
  GenPaths,     \* gitops_stage_paths(): sealed secrets, rendered manifests
  HandPaths,    \* other tracked paths, edited by the operator
  NewPaths,     \* paths of files that no commit has added yet
  HeadChoices,  \* may HEAD be on the published branch / on another one
  Commands,     \* the commands operators run
  MaxEdits,     \* bound: operator edits in one clone
  MaxSeal,      \* bound: generations that produce new bytes, in one clone
  MaxOutside,   \* bound: commits pushed by the outsider
  MaxFaults     \* bound: failed commands, lost replies and kills, in all

ASSUME ConstantsAssumption ==
  /\ Outsider \notin Clones
  /\ GenPaths \cap HandPaths = {}
  /\ GenPaths \cap NewPaths = {}
  /\ HandPaths \cap NewPaths = {}
  /\ HeadChoices \subseteq BOOLEAN
  /\ Commands \subseteq {"sync", "push", "pushall", "generate"}
  /\ {MaxEdits, MaxSeal, MaxOutside, MaxFaults} \subseteq Nat

Paths == GenPaths \cup HandPaths \cup NewPaths

\* "gen": bytes the tool wrote, of a generated output; "edit": bytes a person
\* (or the bot) wrote.
Change == {t \in [kind : {"base", "gen", "edit"}, by : Clones \cup {Outsider},
                  path : Paths, n : Nat] : t.kind = "gen" => t.path \in GenPaths}
Commit == SUBSET Change
History == Seq(Commit) \ {<< >>}

Base == << {[kind |-> "base", by |-> Outsider, path |-> p, n |-> 0] :
              p \in GenPaths \cup HandPaths} >>

VARIABLES
  remote,       \* the branch on the server
  head,         \* head[c]: history of HEAD in clone c
  onBranch,     \* onBranch[c]: HEAD is the local branch named by the revision
  tracking,     \* tracking[c]: origin/<revision> as of the last fetch or push
  worktree,     \* worktree[c]: changes in the files, relative to HEAD
  index,        \* index[c]: changes staged, relative to HEAD
  stash,        \* stash[c]: stash entries, the newest last
  unmerged,     \* unmerged[c]: a stash apply left conflict markers
  op,           \* op[c]: the command running in c, or the last one
  pc,           \* pc[c]: the git step it is about to take
  dirty,        \* dirty[c]: tracked_dirty_paths, read when the sync decided
  committed,    \* committed[c]: publication_commit_created
  outcome,      \* outcome[c]: what the last command told the operator
  claimed,      \* claimed[c]: history last reported as pushed (history var.)
  edits,        \* edits[c]: edits the operator has not thrown away (history)
  adopted,      \* adopted[c]: paths handed to git on purpose (history var.)
  nEdit, nSeal, nOutside, faults

clone == <<head, tracking, worktree, index, stash, unmerged>>
control == <<op, pc, dirty, committed, outcome, claimed>>
ghost == <<edits, adopted, nEdit, nSeal>>
fixed == <<onBranch, nOutside>>
vars == <<remote, clone, control, ghost, fixed, faults>>

-----------------------------------------------------------------------------
(* Reading the repository *)

\* Every change of a history.
Changes(h) == UNION {h[i] : i \in DOMAIN h}

PathsOf(S) == {t.path : t \in S}

\* git_ref_state(HEAD, origin/<revision>)
RefState(h, r) ==
  CASE h = r                            -> "equal"
    [] h # r /\ IsPrefix(r, h)          -> "ahead"
    [] h # r /\ IsPrefix(h, r)          -> "behind"
    [] ~IsPrefix(r, h) /\ ~IsPrefix(h, r) -> "diverged"

\* Paths git knows: in HEAD or in the index.  `git status` shows the rest "??".
Tracked(c) == PathsOf(Changes(head[c]) \cup index[c])

StagedOnly(c) == PathsOf(index[c])     \* mutant: reads one status column
DirtyPaths(c) == PathsOf(worktree[c] \cup index[c]) \cap Tracked(c)

UntrackedPaths(c) == PathsOf(worktree[c]) \ Tracked(c)

\* The paths touched by the commits of h after the first n.
TouchedSince(h, n) == UNION {PathsOf(h[i]) : i \in (n + 1) .. Len(h)}

\* The local branch `git push origin <revision>` sends: HEAD only when HEAD
\* is on that branch, otherwise the branch as it was cloned.
LocalBranch(c) == IF onBranch[c] THEN head[c] ELSE Base

At(S, P) == {t \in S : t.path \in P}

\* A stash entry: the changes taken from the files and from the index, and
\* the length of the history they were made on.
Entry == [files : SUBSET Change, staged : SUBSET Change, base : Nat]

Entries(s) == UNION {s[i].files \cup s[i].staged : i \in DOMAIN s}

\* stash@{0}
Newest(c) == stash[c][Len(stash[c])]

-----------------------------------------------------------------------------
(* How a command moves on, fails, and is killed *)

Goto(c, from, to) == pc[c] = from /\ pc' = [pc EXCEPT ![c] = to]

\* The command prints its last message and exits.
Finish(c, o) ==
  /\ pc' = [pc EXCEPT ![c] = "idle"]
  /\ outcome' = [outcome EXCEPT ![c] = o]

\* A fault of the environment: network, lock file, full disk, Ctrl-C.
Fault == faults > 0 /\ faults' = faults - 1

\* At any point the process may die, or a git command fail and raise: what
\* the earlier commands did stays.
Abort(c) ==
  /\ pc[c] # "idle"
  /\ Fault
  /\ Finish(c, "error")
  /\ UNCHANGED <<remote, clone, op, dirty, committed, claimed, ghost, fixed>>

\* fetch_gitops_remote_revision: where origin/<revision> now is.
StaleFetch(c) == tracking[c]     \* mutant: nothing is fetched
Fetched(c) == remote

-----------------------------------------------------------------------------
(* sync_repo *)

\* Behind: put the dirty tracked files aside before merging.
CheckpointFirst(c) ==     \* mutant: commits before the fast-forward
  IF DirtyPaths(c) # {} THEN "stage" ELSE "merge"
MergeAtOnce(c) == "merge"     \* mutant: skips the stash
AfterBehind(c) == IF DirtyPaths(c) # {} THEN "stash" ELSE "merge"

\* Fetch, classify HEAD against origin, read the dirty paths and choose.
SyncFetch(c) ==
  /\ pc[c] = "idle"
  /\ ~unmerged[c]
  /\ op' = [op EXCEPT ![c] = "sync"]
  /\ tracking' = [tracking EXCEPT ![c] = Fetched(c)]
  /\ dirty' = [dirty EXCEPT ![c] = DirtyPaths(c)]
  /\ LET state == RefState(head[c], Fetched(c))
         colliding == UntrackedPaths(c) \cap PathsOf(Changes(Fetched(c)))
     IN \/ /\ state \in {"equal", "ahead"}
           /\ DirtyPaths(c) # {}
           /\ Goto(c, "idle", "stage")
           /\ UNCHANGED outcome
        \/ /\ state \in {"equal", "ahead"}
           /\ DirtyPaths(c) = {}
           /\ Finish(c, "synced")
        \/ /\ state = "behind" /\ colliding # {}
           /\ Finish(c, "collision")
        \/ /\ state = "behind" /\ colliding = {}
           /\ Goto(c, "idle", AfterBehind(c))
           /\ UNCHANGED outcome
        \/ /\ state = "diverged"
           /\ Finish(c, "diverged")
  /\ UNCHANGED <<remote, head, worktree, index, stash, unmerged, committed,
                 claimed, ghost, fixed, faults>>

\* stash_tracked_git_changes: git stash push -- <dirty paths>
SyncStash(c) ==
  /\ Goto(c, "stash", "merge")
  /\ LET entry == [files  |-> At(worktree[c], dirty[c]),
                   staged |-> At(index[c], dirty[c]),
                   base   |-> Len(head[c])]
     IN /\ stash' = [stash EXCEPT ![c] = Append(@, entry)]
        /\ worktree' = [worktree EXCEPT ![c] = @ \ entry.files]
        /\ index' = [index EXCEPT ![c] = @ \ entry.staged]
  /\ UNCHANGED <<remote, head, tracking, unmerged, op, dirty, committed,
                 outcome, claimed, ghost, fixed, faults>>

\* git merge --ff-only refuses to overwrite files that changed meanwhile.
FastForwards(c) ==
  /\ IsPrefix(head[c], tracking[c])
  /\ TouchedSince(tracking[c], Len(head[c]))
       \cap PathsOf(worktree[c] \cup index[c]) = {}

SyncMerge(c) ==
  /\ pc[c] = "merge"
  /\ FastForwards(c)
  /\ head' = [head EXCEPT ![c] = tracking[c]]
  /\ adopted' = [adopted EXCEPT ![c] = @ \cup PathsOf(Changes(tracking[c]))]
  /\ IF dirty[c] = {} THEN Finish(c, "synced")
                      ELSE Goto(c, "merge", "apply") /\ UNCHANGED outcome
  /\ UNCHANGED <<remote, tracking, worktree, index, stash, unmerged, op, dirty,
                 committed, claimed, edits, nEdit, nSeal, fixed, faults>>

\* The merge failed: the except clause pops the stash, HEAD has not moved.
\* The pop is refused when the operator touched a stashed file meanwhile.
SyncMergeFails(c) ==
  /\ pc[c] = "merge"
  /\ IF FastForwards(c) THEN Fault ELSE UNCHANGED faults
  /\ LET popped == Newest(c)
         refused == PathsOf(worktree[c] \cup index[c])
                      \cap PathsOf(popped.files \cup popped.staged) # {}
     IN IF dirty[c] = {} \/ refused
          THEN UNCHANGED <<worktree, index, stash>>
          ELSE /\ worktree' = [worktree EXCEPT ![c] = @ \cup popped.files]
               /\ index' = [index EXCEPT ![c] = @ \cup popped.staged]
               /\ stash' = [stash EXCEPT ![c] = Front(@)]
  /\ Finish(c, "error")
  /\ UNCHANGED <<remote, head, tracking, unmerged, op, dirty, committed,
                 claimed, ghost, fixed>>

\* restore_tracked_git_changes: git stash apply --index.  Nothing stands in
\* the way of a path only one side touched; a path both sides touched may
\* still merge line by line.
SyncApply(c) ==
  /\ Goto(c, "apply", "drop")
  /\ LET entry == Newest(c)
         new(S) == S \ Changes(head[c])
     IN /\ PathsOf(worktree[c] \cup index[c])
             \cap PathsOf(entry.files \cup entry.staged) = {}
        /\ worktree' = [worktree EXCEPT ![c] = @ \cup new(entry.files)]
        /\ index' = [index EXCEPT ![c] = @ \cup new(entry.staged)]
  /\ UNCHANGED <<remote, head, tracking, stash, unmerged, op, dirty, committed,
                 outcome, claimed, ghost, fixed, faults>>

\* The apply fails: conflict markers in the files, or nothing applied at all
\* (a staged change conflicts, a file is in the way).  The stash is kept and
\* the operator is told to recover from it.
SyncApplyFails(c) ==
  /\ pc[c] = "apply"
  /\ LET entry == Newest(c)
         touched == PathsOf(entry.files \cup entry.staged)
         inTheWay == touched \cap PathsOf(worktree[c] \cup index[c]) # {}
         bothSides == PathsOf((entry.files \cup entry.staged) \ Changes(head[c]))
                        \cap TouchedSince(head[c], entry.base) # {}
     IN /\ inTheWay \/ bothSides
        /\ unmerged' = [unmerged EXCEPT ![c] = ~inTheWay /\ entry.staged = {}]
  /\ Finish(c, "conflict")
  /\ UNCHANGED <<remote, head, tracking, worktree, index, stash, op, dirty,
                 committed, claimed, ghost, fixed, faults>>

\* git stash drop stash@{0}
SyncDrop(c) ==
  /\ Goto(c, "drop", "stage")
  /\ stash' = [stash EXCEPT ![c] = Front(@)]
  /\ UNCHANGED <<remote, head, tracking, worktree, index, unmerged, op, dirty,
                 committed, outcome, claimed, ghost, fixed, faults>>

-----------------------------------------------------------------------------
(* checkpoint_git_changes, called by sync_repo on the dirty paths and by     *)
(* push_changes --push-all on everything                                     *)

\* git add -A -- <P>
StagePaths(c, P) ==
  index' = [index EXCEPT ![c] = (@ \ At(@, P)) \cup At(worktree[c], P)]

\* git commit: everything in the index, whoever staged it.
CommitIndex(c) ==
  /\ head' = [head EXCEPT ![c] = Append(@, index[c])]
  /\ worktree' = [worktree EXCEPT ![c] = @ \ index[c]]
  /\ index' = [index EXCEPT ![c] = {}]

StageEverything(c) == Paths     \* mutant: git add -A without a pathspec
CheckpointPaths(c) == IF op[c] = "sync" THEN dirty[c] ELSE Paths

CheckpointStage(c) ==
  /\ Goto(c, "stage", "commit")
  /\ StagePaths(c, CheckpointPaths(c))
  /\ adopted' = [adopted EXCEPT ![c] =
                   IF op[c] = "sync" THEN @ ELSE @ \cup PathsOf(worktree[c])]
  /\ UNCHANGED <<remote, head, tracking, worktree, stash, unmerged, op, dirty,
                 committed, outcome, claimed, edits, nEdit, nSeal, fixed,
                 faults>>

CheckpointCommit(c) ==
  /\ pc[c] = "commit"
  /\ IF index[c] = {} THEN UNCHANGED <<head, worktree, index>>
                      ELSE CommitIndex(c)
  /\ IF op[c] = "sync" THEN Finish(c, "synced")
                       ELSE Goto(c, "commit", "generate") /\ UNCHANGED outcome
  /\ UNCHANGED <<remote, tracking, stash, unmerged, op, dirty, committed,
                 claimed, ghost, fixed, faults>>

-----------------------------------------------------------------------------
(* generate_secrets_core *)

\* The task `generate-secrets` runs it on its own.
GenerateSecrets(c) ==
  /\ ~unmerged[c]
  /\ Goto(c, "idle", "generate")
  /\ op' = [op EXCEPT ![c] = "generate"]
  /\ UNCHANGED <<remote, clone, dirty, committed, outcome, claimed, ghost,
                 fixed, faults>>

\* The outputs in `fresh` come out with new bytes: kubeseal never seals to
\* the same ciphertext twice, a rendered manifest changes with its inputs.
\* The files are written one after the other, so a failure leaves some new.
Generate(c) ==
  /\ pc[c] = "generate"
  /\ \E fresh \in SUBSET GenPaths :
       /\ fresh # {} => nSeal[c] < MaxSeal
       /\ worktree' = [worktree EXCEPT ![c] = (@ \ At(@, fresh)) \cup
            {[kind |-> "gen", by |-> c, path |-> p, n |-> nSeal[c] + 1] :
               p \in fresh}]
       /\ nSeal' = [nSeal EXCEPT ![c] = IF fresh = {} THEN @ ELSE @ + 1]
  /\ \/ /\ op[c] = "generate"
        /\ Finish(c, "generated")
        /\ UNCHANGED faults
     \/ /\ op[c] # "generate"
        /\ Goto(c, "generate", "pstage")
        /\ UNCHANGED <<outcome, faults>>
     \/ Fault /\ Finish(c, "error")
  /\ UNCHANGED <<remote, head, tracking, index, stash, unmerged, op, dirty,
                 committed, claimed, edits, adopted, nEdit, fixed>>

-----------------------------------------------------------------------------
(* push_changes *)

PushFetch(c, command) ==
  /\ pc[c] = "idle"
  /\ ~unmerged[c]
  /\ op' = [op EXCEPT ![c] = command]
  /\ tracking' = [tracking EXCEPT ![c] = Fetched(c)]
  /\ IF RefState(head[c], Fetched(c)) \in {"behind", "diverged"}
       THEN Finish(c, "needsync")
       ELSE /\ Goto(c, "idle", IF command = "pushall" THEN "stage"
                                                     ELSE "generate")
            /\ UNCHANGED outcome
  /\ UNCHANGED <<remote, head, worktree, index, stash, unmerged, dirty,
                 committed, claimed, ghost, fixed, faults>>

PublishDirty(c) ==     \* mutant: stages the paths an earlier sync saw
  IF op[c] = "pushall" THEN Paths ELSE dirty[c]
PublishPaths(c) == IF op[c] = "pushall" THEN Paths ELSE GenPaths

PublishStage(c) ==
  /\ Goto(c, "pstage", "check")
  /\ StagePaths(c, PublishPaths(c))
  /\ adopted' = [adopted EXCEPT ![c] =
                IF op[c] = "pushall" THEN @ \cup PathsOf(worktree[c]) ELSE @]
  /\ UNCHANGED <<remote, head, tracking, worktree, stash, unmerged, op, dirty,
                 committed, outcome, claimed, edits, nEdit, nSeal, fixed,
                 faults>>

\* Nothing staged: push what is there.  Otherwise look at the remote once
\* more before committing; on refusal the index stays staged.
PublishCheck(c) ==
  /\ pc[c] = "check"
  /\ IF index[c] = {}
       THEN /\ Goto(c, "check", "push")
            /\ committed' = [committed EXCEPT ![c] = FALSE]
            /\ UNCHANGED <<tracking, outcome>>
       ELSE /\ tracking' = [tracking EXCEPT ![c] = Fetched(c)]
            /\ IF RefState(head[c], Fetched(c)) \in {"behind", "diverged"}
                 THEN Finish(c, "needsync")
                 ELSE Goto(c, "check", "pcommit") /\ UNCHANGED outcome
            /\ UNCHANGED committed
  /\ UNCHANGED <<remote, head, worktree, index, stash, unmerged, op, dirty,
                 claimed, ghost, fixed, faults>>

PublishCommit(c) ==
  /\ Goto(c, "pcommit", "push")
  /\ CommitIndex(c)
  /\ committed' = [committed EXCEPT ![c] = TRUE]
  /\ UNCHANGED <<remote, tracking, stash, unmerged, op, dirty, outcome, claimed,
                 ghost, fixed, faults>>

\* The server takes a push that extends its branch.
AcceptsForced(c) == LocalBranch(c) # remote     \* mutant: push --force
Accepts(c) == IsPrefix(remote, LocalBranch(c))

\* git push origin <revision>; on success git moves origin/<revision> too.
PublishPush(c) ==
  /\ Goto(c, "push", "report")
  /\ Accepts(c)
  /\ remote' = LocalBranch(c)
  /\ tracking' = [tracking EXCEPT ![c] = LocalBranch(c)]
  /\ UNCHANGED <<head, worktree, index, stash, unmerged, op, dirty, committed,
                 outcome, claimed, ghost, fixed, faults>>

\* Rejected by the server, not delivered, or delivered with the reply lost.
PublishPushFails(c) ==
  /\ pc[c] = "push"
  /\ \/ ~Accepts(c) /\ UNCHANGED <<remote, faults>>
     \/ Accepts(c) /\ Fault /\ remote' \in {remote, LocalBranch(c)}
  /\ IF committed[c] THEN Goto(c, "push", "race") /\ UNCHANGED outcome
                     ELSE Finish(c, "error")
  /\ UNCHANGED <<clone, op, dirty, committed, claimed, ghost, fixed>>

\* S laid over T: a generated file has one content, that of S.
Overlay(S, T) ==
  S \cup {t \in T : t.path \in GenPaths => t.path \notin PathsOf(S)}

\* git reset --mixed HEAD~1: the commit turns back into changes of the files.
ResetHard(c) == {}     \* mutant: reset --hard
ResetFiles(c) == Overlay(worktree[c], Last(head[c]))

\* Did the remote move?  Then the publication commit is unwound.
PublishRace(c) ==
  /\ pc[c] = "race"
  /\ tracking' = [tracking EXCEPT ![c] = Fetched(c)]
  /\ IF RefState(head[c], Fetched(c)) \in {"behind", "diverged"}
       THEN /\ head' = [head EXCEPT ![c] = Front(@)]
            /\ worktree' = [worktree EXCEPT ![c] = ResetFiles(c)]
            /\ index' = [index EXCEPT ![c] = {}]
            /\ Finish(c, "race")
       ELSE /\ Finish(c, "error")
            /\ UNCHANGED <<head, worktree, index>>
  /\ UNCHANGED <<remote, stash, unmerged, op, dirty, committed, claimed, ghost,
                 fixed, faults>>

\* "Pushed GitOps source of truth: <rev-parse HEAD> -> origin/<revision>"
PublishReport(c) ==
  /\ pc[c] = "report"
  /\ claimed' = [claimed EXCEPT ![c] = head[c]]
  /\ Finish(c, "published")
  /\ UNCHANGED <<remote, clone, op, dirty, committed, ghost, fixed, faults>>

-----------------------------------------------------------------------------
(* The operator, with an editor and plain git, and the rest of the world *)

OperatorEdit(c, p) ==
  /\ nEdit[c] < MaxEdits
  /\ LET t == [kind |-> "edit", by |-> c, path |-> p, n |-> nEdit[c] + 1]
     IN /\ worktree' = [worktree EXCEPT ![c] = @ \cup {t}]
        /\ edits' = [edits EXCEPT ![c] = @ \cup {t}]
  /\ nEdit' = [nEdit EXCEPT ![c] = @ + 1]
  /\ UNCHANGED <<remote, head, tracking, index, stash, unmerged, control,
                 adopted, nSeal, fixed, faults>>

\* git add <p>
OperatorStage(c, p) ==
  /\ pc[c] = "idle"
  /\ p \in PathsOf(worktree[c] \ index[c])
  /\ StagePaths(c, {p})
  /\ adopted' = [adopted EXCEPT ![c] = @ \cup {p}]
  /\ UNCHANGED <<remote, head, tracking, worktree, stash, unmerged, control,
                 edits, nEdit, nSeal, fixed, faults>>

\* "Move or remove those files, then rerun"
OperatorMoveAway(c, p) ==
  /\ pc[c] = "idle"
  /\ p \in UntrackedPaths(c) \cap PathsOf(Changes(tracking[c]))
  /\ worktree' = [worktree EXCEPT ![c] = @ \ At(@, {p})]
  /\ edits' = [edits EXCEPT ![c] = @ \ At(worktree[c], {p})]
  /\ UNCHANGED <<remote, head, tracking, index, stash, unmerged, control,
                 adopted, nEdit, nSeal, fixed, faults>>

\* "recover the preserved changes from stash@{0}", by hand
OperatorRecover(c) ==
  /\ pc[c] = "idle"
  /\ stash[c] # << >>
  /\ worktree' = [worktree EXCEPT ![c] =
       Overlay(Overlay(@, Newest(c).files \ Changes(head[c])),
               Newest(c).staged \ Changes(head[c]))]
  /\ stash' = [stash EXCEPT ![c] = Front(@)]
  /\ unmerged' = [unmerged EXCEPT ![c] = FALSE]
  /\ UNCHANGED <<remote, head, tracking, index, control, ghost, fixed, faults>>

\* "Resolve the divergence explicitly": rebase the local changes on origin.
OperatorReconcile(c) ==
  /\ pc[c] = "idle"
  /\ RefState(head[c], tracking[c]) = "diverged"
  /\ LET local == Changes(head[c]) \ Changes(tracking[c])
     IN head' = [head EXCEPT ![c] = IF local = {} THEN tracking[c]
                                    ELSE Append(tracking[c], local)]
  /\ adopted' = [adopted EXCEPT ![c] = @ \cup PathsOf(Changes(tracking[c]))]
  /\ UNCHANGED <<remote, tracking, worktree, index, stash, unmerged, control,
                 edits, nEdit, nSeal, fixed, faults>>

OutsideCommit(p) ==
  /\ nOutside < MaxOutside
  /\ remote' = Append(remote, {[kind |-> "edit", by |-> Outsider, path |-> p,
                                n |-> nOutside + 1]})
  /\ nOutside' = nOutside + 1
  /\ UNCHANGED <<clone, control, ghost, onBranch, faults>>

-----------------------------------------------------------------------------

Init ==
  /\ remote = Base
  /\ head = [c \in Clones |-> Base]
  /\ onBranch \in [Clones -> HeadChoices]
  /\ tracking = [c \in Clones |-> Base]
  /\ worktree = [c \in Clones |-> {}]
  /\ index = [c \in Clones |-> {}]
  /\ stash = [c \in Clones |-> << >>]
  /\ unmerged = [c \in Clones |-> FALSE]
  /\ op = [c \in Clones |-> "sync"]
  /\ pc = [c \in Clones |-> "idle"]
  /\ dirty = [c \in Clones |-> {}]
  /\ committed = [c \in Clones |-> FALSE]
  /\ outcome = [c \in Clones |-> "none"]
  /\ claimed = [c \in Clones |-> << >>]
  /\ edits = [c \in Clones |-> {}]
  /\ adopted = [c \in Clones |-> {}]
  /\ nEdit = [c \in Clones |-> 0]
  /\ nSeal = [c \in Clones |-> 0]
  /\ nOutside = 0
  /\ faults = MaxFaults

\* A command that was started takes its next step.
ToolStep(c) ==
  \/ SyncStash(c) \/ SyncMerge(c) \/ SyncMergeFails(c)
  \/ SyncApply(c) \/ SyncApplyFails(c) \/ SyncDrop(c)
  \/ CheckpointStage(c) \/ CheckpointCommit(c)
  \/ Generate(c)
  \/ PublishStage(c) \/ PublishCheck(c) \/ PublishCommit(c)
  \/ PublishPush(c) \/ PublishPushFails(c) \/ PublishRace(c)
  \/ PublishReport(c)

\* The operator types a command.
ToolStart(c) ==
  \/ "sync" \in Commands /\ SyncFetch(c)
  \/ \E command \in Commands \cap {"push", "pushall"} : PushFetch(c, command)
  \/ "generate" \in Commands /\ GenerateSecrets(c)

Operator(c) ==
  \/ \E p \in HandPaths \cup NewPaths :
        OperatorEdit(c, p) \/ OperatorStage(c, p) \/ OperatorMoveAway(c, p)
  \/ OperatorRecover(c)
  \/ OperatorReconcile(c)

Next ==
  \/ \E c \in Clones : ToolStep(c) \/ ToolStart(c) \/ Abort(c) \/ Operator(c)
  \/ \E p \in Paths : OutsideCommit(p)

Spec == Init /\ [][Next]_vars

\* A started command runs on.  The operator keeps rerunning sync and push and
\* does what a refusal asks for; faults and outside pushes are bounded.
Fairness ==
  \A c \in Clones :
    /\ WF_vars(ToolStep(c))
    /\ SF_vars(SyncFetch(c))
    /\ SF_vars(PushFetch(c, "push"))
    /\ SF_vars(OperatorRecover(c))
    /\ SF_vars(OperatorReconcile(c))
    /\ \A p \in NewPaths : SF_vars(OperatorMoveAway(c, p))

FairSpec == Spec /\ Fairness

-----------------------------------------------------------------------------
(* Properties *)

PC == {"idle", "stash", "merge", "apply", "drop", "stage", "commit",
       "generate", "pstage", "check", "pcommit", "push", "race", "report"}
Outcome == {"none", "synced", "collision", "diverged", "conflict", "error",
            "needsync", "race", "published", "generated"}

\* Types, and what the control flow relies on: a sync that put changes aside
\* still has its stash entry when it merges, restores and drops it; a commit
\* that may have to be unwound has a parent.
TypeOK ==
  /\ remote \in History
  /\ head \in [Clones -> History]
  /\ onBranch \in [Clones -> BOOLEAN]
  /\ tracking \in [Clones -> History]
  /\ worktree \in [Clones -> SUBSET Change]
  /\ index \in [Clones -> SUBSET Change]
  /\ stash \in [Clones -> Seq(Entry)]
  /\ unmerged \in [Clones -> BOOLEAN]
  /\ op \in [Clones -> {"sync", "push", "pushall", "generate"}]
  /\ pc \in [Clones -> PC]
  /\ dirty \in [Clones -> SUBSET Paths]
  /\ committed \in [Clones -> BOOLEAN]
  /\ outcome \in [Clones -> Outcome]
  /\ claimed \in [Clones -> History \cup {<< >>}]
  /\ edits \in [Clones -> SUBSET Change]
  /\ adopted \in [Clones -> SUBSET Paths]
  /\ nEdit \in [Clones -> Nat] /\ nSeal \in [Clones -> Nat]
  /\ nOutside \in Nat /\ faults \in Nat
  /\ \A c \in Clones :
       /\ \/ pc[c] = "merge" /\ dirty[c] # {}
          \/ pc[c] \in {"apply", "drop"}
          => stash[c] # << >>
       /\ \/ pc[c] = "push" /\ committed[c]
          \/ pc[c] = "race"
          => Len(head[c]) > 1

\* No edit of the operator is ever lost: whatever commands run, fail, race or
\* are killed, it is in the files, in a stash entry or in a commit.
NoLostEdit ==
  \A c \in Clones :
    edits[c] \subseteq
      worktree[c] \cup Entries(stash[c]) \cup Changes(head[c])

\* A sync never turns a history that could be fast-forwarded into one that
\* has diverged from what it fetched.
SyncKeepsFastForward ==
  [][\A c \in Clones :
       /\ pc[c] # "idle" /\ op[c] = "sync"
       /\ RefState(head[c], tracking[c]) # "diverged"
       => RefState(head'[c], tracking[c]) # "diverged"]_vars

\* A file nobody handed to git (by git add, --push-all or a commit that was
\* merged in) never enters a commit of sync or push.
UntrackedStaysPrivate ==
  \A c \in Clones :
    PathsOf(Changes(head[c])) \cap NewPaths \subseteq adopted[c]

\* When the push of a publication is through, no output the tool generated
\* is left behind uncommitted, and HEAD is on the server.
PushedIsComplete ==
  \A c \in Clones :
    pc[c] = "report" =>
      /\ \A t \in worktree[c] : t.kind # "gen"
      /\ IsPrefix(head[c], remote)

\* The branch is only appended to, and what an operator was told is published
\* is there, and stays.
Log == INSTANCE PublishedLog WITH Publishers <- Clones, log <- remote,
                                  claim <- claimed
LogSpec == Log!Spec

\* An edit of a tracked file reaches the shared branch in the end.
EditsReachRemote ==
  \A c \in Clones, p \in HandPaths, i \in 1 .. MaxEdits :
    LET t == [kind |-> "edit", by |-> c, path |-> p, n |-> i]
    IN t \in edits[c] ~> t \in Changes(remote)

\* However often the remote moves or a command fails, publication succeeds
\* again and again.
PublicationRecovers == \A c \in Clones : []<>(outcome[c] = "published")

-----------------------------------------------------------------------------
(* The inductive invariant behind NoLostEdit *)

Written(S) == {t \in S : t.path \notin GenPaths}

\* Why the edits of clone c are safe: they are in files the tool does not
\* generate; what is staged of such a file is also in the file; and a stash
\* entry about to be dropped has been restored.
EditsSafe(c) ==
  /\ edits[c] \subseteq Written(edits[c])
  /\ Written(index[c]) \subseteq worktree[c]
  /\ \A i \in DOMAIN stash[c] :
       Written(stash[c][i].staged) \subseteq stash[c][i].files
  /\ pc[c] = "drop" =>
       Newest(c).files \subseteq worktree[c] \cup Changes(head[c])
  /\ edits[c] \subseteq
       worktree[c] \cup Entries(stash[c]) \cup Changes(head[c])

\* Every clone's edits are safe, and for the reasons EditsSafe gives.
EditInv == TypeOK /\ \A c \in Clones : EditsSafe(c)

-----------------------------------------------------------------------------
(* The inductive invariants behind SyncKeepsFastForward and LogSpec *)

\* Where HEAD stands relative to what was fetched, while a sync runs in c.
SyncAligned(c) ==
  /\ pc[c] \in {"apply", "drop"} => head[c] = tracking[c]
  /\ pc[c] \in {"stage", "commit"} /\ op[c] = "sync"
       => IsPrefix(tracking[c], head[c])
  /\ pc[c] \in {"generate", "pstage", "check", "pcommit", "push", "race",
                "report"} => op[c] # "sync"

SyncInv == \A c \in Clones : SyncAligned(c)

\* Every clone has the published branch checked out, and a push that went
\* through has put its HEAD on the server.
Reported(c) ==
  /\ onBranch[c]
  /\ pc[c] = "report" => IsPrefix(head[c], remote)

ReportInv == \A c \in Clones : Reported(c)

-----------------------------------------------------------------------------
(* What the documents say and the code does not do: see the findings *)

\* ARCHITECTURE.md: a push that loses a race points "the operator back to
\* `task sync`", so sync is able to take it from there.
RaceIsLeftToSync ==
  \A c \in Clones :
    pc[c] = "idle" /\ outcome[c] = "race"
      => RefState(head[c], tracking[c]) # "diverged"

\* openspec/specs/task-up-bootstrap: the default publication commits only
\* generated artifacts.
PublishesOnlyOutputs ==
  \A c \in Clones :
    pc[c] = "push" /\ committed[c] /\ op[c] = "push"
      => PathsOf(Last(head[c])) \subseteq GenPaths

\* haac.py: "Pushed GitOps source of truth: <HEAD> -> origin/<revision>".
ReportIsTrue ==
  \A c \in Clones : outcome[c] = "published" => IsPrefix(claimed[c], remote)

=============================================================================
