-------------------------- MODULE GitOpsRepoProofs --------------------------
(***************************************************************************)
(* Theorems about GitOpsRepo, for every set of clones and paths and every  *)
(* bound: type correctness, that no edit is lost, that a sync never makes  *)
(* a clone diverge, that the branch implements PublishedLog, that a file   *)
(* nobody handed to git stays out of every commit, and that a publication  *)
(* leaves no output behind.                                                *)
(***************************************************************************)
EXTENDS GitOpsRepo, SequenceTheorems, TLAPS

-----------------------------------------------------------------------------
(* Sets of changes and histories *)

LEMMA PathsOfType ==
  ASSUME NEW S \in SUBSET Change
  PROVE  PathsOf(S) \subseteq Paths
  BY DEF PathsOf, Change

LEMMA ChangesType ==
  ASSUME NEW h \in History
  PROVE  Changes(h) \in SUBSET Change
  BY DEF Changes, History, Commit

LEMMA AppendHistory ==
  ASSUME NEW h \in History, NEW S \in SUBSET Change
  PROVE  /\ Append(h, S) \in History
         /\ Len(Append(h, S)) > 1
  <1>1. h \in Seq(Commit) /\ Len(h) >= 1
    BY DEF History
  <1> QED
    BY <1>1, AppendProperties DEF History, Commit

LEMMA FrontType ==
  ASSUME NEW T, NEW s \in Seq(T), s # << >>
  PROVE  /\ Front(s) \in Seq(T)
         /\ Last(s) \in T
         /\ s[Len(s)] \in T
  BY DEF Front, Last

LEMMA FrontHistory ==
  ASSUME NEW h \in History, Len(h) > 1
  PROVE  Front(h) \in History /\ Last(h) \in SUBSET Change
  <1>1. Front(h) \in Seq(Commit) /\ Last(h) \in Commit
    BY FrontType DEF History
  <1>2. Len(Front(h)) = Len(h) - 1
    BY SubSeqProperties DEF Front, History
  <1> QED
    BY <1>1, <1>2 DEF History, Commit

LEMMA NewestType ==
  ASSUME TypeOK, NEW c \in Clones, stash[c] # << >>
  PROVE  /\ Newest(c) \in Entry
         /\ Newest(c).files \in SUBSET Change
         /\ Newest(c).staged \in SUBSET Change
         /\ Front(stash[c]) \in Seq(Entry)
  <1>1. stash[c] \in Seq(Entry)
    BY DEF TypeOK
  <1>2. Newest(c) \in Entry /\ Front(stash[c]) \in Seq(Entry)
    BY <1>1, FrontType DEF Newest
  <1> QED
    BY <1>2 DEF Entry

LEMMA BaseType == Base \in History
  <1>1. {[kind |-> "base", by |-> Outsider, path |-> p, n |-> 0] :
           p \in GenPaths \cup HandPaths} \in Commit
    BY DEF Commit, Change, Paths
  <1> QED
    BY <1>1 DEF Base, History

-----------------------------------------------------------------------------
(* Type correctness: one lemma for the steps of each command *)

LEMMA SyncTypes ==
  ASSUME TypeOK, NEW c \in Clones,
         \/ SyncFetch(c) \/ SyncStash(c) \/ SyncMerge(c) \/ SyncMergeFails(c)
         \/ SyncApply(c) \/ SyncApplyFails(c) \/ SyncDrop(c)
  PROVE  TypeOK'
  <1> USE DEF PC, Outcome, Goto, ghost, fixed
  <1>1. CASE SyncFetch(c)
    <2>1. DirtyPaths(c) \subseteq Paths
      <3>1. index[c] \in SUBSET Change /\ worktree[c] \in SUBSET Change
        BY DEF TypeOK
      <3> QED
        BY <3>1, PathsOfType DEF DirtyPaths
    <2>2. outcome' \in [Clones -> Outcome]
      BY <1>1 DEF SyncFetch, Finish, TypeOK
    <2>3. \/ pc' = [pc EXCEPT ![c] = "idle"]
          \/ pc' = [pc EXCEPT ![c] = "stage"]
          \/ DirtyPaths(c) # {} /\ pc' = [pc EXCEPT ![c] = "stash"]
          \/ DirtyPaths(c) = {} /\ pc' = [pc EXCEPT ![c] = "merge"]
      BY <1>1 DEF SyncFetch, Finish, AfterBehind
    <2> QED
      BY <1>1, <2>1, <2>2, <2>3 DEF TypeOK, SyncFetch, Fetched
  <1>2. CASE SyncStash(c)
    <2> DEFINE entry == [files  |-> At(worktree[c], dirty[c]),
                         staged |-> At(index[c], dirty[c]),
                         base   |-> Len(head[c])]
    <2>1. entry \in Entry
      BY DEF Entry, TypeOK, History, At
    <2>2. stash[c] \in Seq(Entry)
      BY DEF TypeOK
    <2>3. stash' = [stash EXCEPT ![c] = Append(@, entry)]
      BY <1>2 DEF SyncStash
    <2>4. worktree' \in [Clones -> SUBSET Change]
      BY <1>2 DEF SyncStash, TypeOK
    <2>5. index' \in [Clones -> SUBSET Change]
      BY <1>2 DEF SyncStash, TypeOK
    <2> HIDE DEF entry
    <2>6. Append(stash[c], entry) \in Seq(Entry) \ {<< >>}
      BY <2>1, <2>2, AppendProperties
    <2> QED
      BY <1>2, <2>3, <2>4, <2>5, <2>6 DEF TypeOK, SyncStash
  <1>3. CASE SyncMerge(c)
    BY <1>3, PathsOfType, ChangesType DEF TypeOK, SyncMerge, Finish
  <1>4. CASE SyncMergeFails(c)
    <2>1. CASE UNCHANGED <<worktree, index, stash>>
      BY <1>4, <2>1 DEF TypeOK, SyncMergeFails, Finish, Fault
    <2>2. CASE /\ dirty[c] # {}
               /\ worktree' = [worktree EXCEPT ![c] = @ \cup Newest(c).files]
               /\ index' = [index EXCEPT ![c] = @ \cup Newest(c).staged]
               /\ stash' = [stash EXCEPT ![c] = Front(@)]
      <3>1. stash[c] # << >>
        BY <1>4, <2>2 DEF TypeOK, SyncMergeFails
      <3>2. faults' \in Nat
        BY <1>4 DEF TypeOK, SyncMergeFails, Fault
      <3>3. /\ worktree' \in [Clones -> SUBSET Change]
            /\ index' \in [Clones -> SUBSET Change]
            /\ stash' \in [Clones -> Seq(Entry)]
        BY <2>2, <3>1, NewestType DEF TypeOK
      <3>4. \A d \in Clones \ {c} : stash'[d] = stash[d] /\ pc'[d] = pc[d]
        BY <1>4, <2>2 DEF SyncMergeFails, Finish, TypeOK
      <3> QED
        BY <1>4, <3>2, <3>3, <3>4 DEF TypeOK, SyncMergeFails, Finish
    <2> QED
      BY <1>4, <2>1, <2>2 DEF SyncMergeFails
  <1>5. CASE SyncApply(c)
    <2>1. stash[c] # << >>
      BY <1>5 DEF TypeOK, SyncApply
    <2>2. /\ worktree' \in [Clones -> SUBSET Change]
          /\ index' \in [Clones -> SUBSET Change]
      BY <1>5, <2>1, NewestType DEF TypeOK, SyncApply
    <2> QED
      BY <1>5, <2>1, <2>2 DEF TypeOK, SyncApply
  <1>6. CASE SyncApplyFails(c)
    BY <1>6 DEF TypeOK, SyncApplyFails, Finish
  <1>7. CASE SyncDrop(c)
    BY <1>7, FrontType DEF TypeOK, SyncDrop
  <1> QED
    BY <1>1, <1>2, <1>3, <1>4, <1>5, <1>6, <1>7

LEMMA CommitTypes ==
  ASSUME TypeOK, NEW c \in Clones, CommitIndex(c)
  PROVE  /\ head' \in [Clones -> History]
         /\ worktree' \in [Clones -> SUBSET Change]
         /\ index' \in [Clones -> SUBSET Change]
         /\ Len(head'[c]) > 1
  <1>1. head[c] \in History /\ index[c] \in SUBSET Change
    BY DEF TypeOK
  <1>2. Append(head[c], index[c]) \in History /\ Len(Append(head[c], index[c])) > 1
    BY <1>1, AppendHistory
  <1> QED
    BY <1>2 DEF CommitIndex, TypeOK

LEMMA CheckpointTypes ==
  ASSUME TypeOK, NEW c \in Clones, CheckpointStage(c) \/ CheckpointCommit(c)
  PROVE  TypeOK'
  <1> USE DEF PC, Outcome, ghost, fixed
  <1>1. CASE CheckpointStage(c)
    BY <1>1, PathsOfType DEF TypeOK, CheckpointStage, StagePaths, At, Goto
  <1>2. CASE CheckpointCommit(c)
    <2>1. /\ head' \in [Clones -> History]
          /\ worktree' \in [Clones -> SUBSET Change]
          /\ index' \in [Clones -> SUBSET Change]
      <3>1. CASE UNCHANGED <<head, worktree, index>>
        BY <3>1 DEF TypeOK
      <3>2. CASE CommitIndex(c)
        BY <3>2, CommitTypes
      <3> QED
        BY <1>2, <3>1, <3>2 DEF CheckpointCommit
    <2>2. \A d \in Clones \ {c} : head'[d] = head[d]
      BY <1>2 DEF TypeOK, CheckpointCommit, CommitIndex
    <2>3. outcome' \in [Clones -> Outcome]
      BY <1>2 DEF TypeOK, CheckpointCommit, Finish
    <2>4. \/ pc' = [pc EXCEPT ![c] = "idle"]
          \/ pc' = [pc EXCEPT ![c] = "generate"]
      BY <1>2 DEF CheckpointCommit, Goto, Finish
    <2> QED
      BY <1>2, <2>1, <2>2, <2>3, <2>4 DEF TypeOK, CheckpointCommit
  <1> QED
    BY <1>1, <1>2

LEMMA GenerateTypes ==
  ASSUME TypeOK, NEW c \in Clones, GenerateSecrets(c) \/ Generate(c)
  PROVE  TypeOK'
  <1> USE DEF PC, Outcome, ghost, fixed
  <1>1. CASE GenerateSecrets(c)
    BY <1>1 DEF TypeOK, GenerateSecrets, clone, Goto
  <1>2. CASE Generate(c)
    <2>1. outcome' \in [Clones -> Outcome] /\ faults' \in Nat
      <3>1. \/ Finish(c, "generated") /\ UNCHANGED faults
            \/ UNCHANGED <<outcome, faults>>
            \/ Fault /\ Finish(c, "error")
        BY <1>2 DEF Generate
      <3>2. faults' \in Nat
        BY <3>1 DEF TypeOK, Fault
      <3>3. \/ outcome' = outcome
            \/ outcome' = [outcome EXCEPT ![c] = "generated"]
            \/ outcome' = [outcome EXCEPT ![c] = "error"]
        BY <3>1 DEF Finish
      <3> QED
        BY <3>2, <3>3 DEF TypeOK
    <2>2. \/ pc' = [pc EXCEPT ![c] = "idle"]
          \/ pc' = [pc EXCEPT ![c] = "pstage"]
      BY <1>2 DEF Generate, Goto, Finish
    <2>3. worktree' \in [Clones -> SUBSET Change] /\ nSeal' \in [Clones -> Nat]
      <3> PICK fresh \in SUBSET GenPaths :
            /\ worktree' = [worktree EXCEPT ![c] = (@ \ At(@, fresh)) \cup
                 {[kind |-> "gen", by |-> c, path |-> p, n |-> nSeal[c] + 1] :
                    p \in fresh}]
            /\ nSeal' = [nSeal EXCEPT ![c] = IF fresh = {} THEN @ ELSE @ + 1]
        BY <1>2 DEF Generate
      <3>1. nSeal[c] + 1 \in Nat
        BY DEF TypeOK
      <3>2. {[kind |-> "gen", by |-> c, path |-> p, n |-> nSeal[c] + 1] :
               p \in fresh} \in SUBSET Change
        BY <3>1 DEF Change, Paths
      <3> QED
        BY <3>2 DEF TypeOK
    <2>4. UNCHANGED <<remote, head, tracking, index, stash, unmerged, op, dirty,
                      committed, claimed, edits, adopted, nEdit, fixed>>
      BY <1>2 DEF Generate
    <2> QED
      BY <2>1, <2>2, <2>3, <2>4 DEF TypeOK
  <1> QED
    BY <1>1, <1>2

LEMMA PublishTypes ==
  ASSUME TypeOK, NEW c \in Clones,
         \/ \E k \in {"push", "pushall"} : PushFetch(c, k)
         \/ PublishStage(c) \/ PublishCheck(c) \/ PublishCommit(c)
         \/ PublishPush(c) \/ PublishPushFails(c) \/ PublishRace(c)
         \/ PublishReport(c) \/ Abort(c)
  PROVE  TypeOK'
  <1> USE DEF PC, Outcome, ghost, fixed
  <1>1. CASE \E k \in {"push", "pushall"} : PushFetch(c, k)
    <2> PICK k \in {"push", "pushall"} : PushFetch(c, k)
      BY <1>1
    <2>1. op' \in [Clones -> {"sync", "push", "pushall", "generate"}]
      BY DEF PushFetch, TypeOK
    <2>2. tracking' \in [Clones -> History]
      BY DEF PushFetch, Fetched, TypeOK
    <2>3. \/ Finish(c, "needsync")
          \/ Goto(c, "idle", "stage") /\ UNCHANGED outcome
          \/ Goto(c, "idle", "generate") /\ UNCHANGED outcome
      BY DEF PushFetch
    <2>4. UNCHANGED <<remote, head, worktree, index, stash, unmerged, dirty,
                      committed, claimed, ghost, fixed, faults>>
      BY DEF PushFetch
    <2> QED
      BY <2>1, <2>2, <2>3, <2>4 DEF TypeOK, Goto, Finish
  <1>2. CASE PublishStage(c)
    BY <1>2, PathsOfType DEF TypeOK, PublishStage, StagePaths, At, Goto
  <1>3. CASE PublishCheck(c)
    <2>1. UNCHANGED <<remote, head, worktree, index, stash, unmerged, op, dirty,
                      claimed, ghost, fixed, faults>>
      BY <1>3 DEF PublishCheck
    <2>2. CASE index[c] = {}
      BY <1>3, <2>1, <2>2 DEF TypeOK, PublishCheck, Goto
    <2>3. CASE index[c] # {}
      <3>1. \/ Finish(c, "needsync")
            \/ Goto(c, "check", "pcommit") /\ UNCHANGED outcome
        BY <1>3, <2>3 DEF PublishCheck
      <3>2. tracking' \in [Clones -> History] /\ UNCHANGED committed
        BY <1>3, <2>3 DEF PublishCheck, TypeOK, Fetched
      <3> QED
        BY <2>1, <3>1, <3>2 DEF TypeOK, Finish, Goto
    <2> QED
      BY <2>2, <2>3
  <1>4. CASE PublishCommit(c)
    <2>1. \A d \in Clones \ {c} : head'[d] = head[d]
      BY <1>4 DEF TypeOK, PublishCommit, CommitIndex
    <2>2. CommitIndex(c)
      BY <1>4 DEF PublishCommit
    <2> QED
      BY <1>4, <2>1, <2>2, CommitTypes DEF TypeOK, PublishCommit, Goto
  <1>5. CASE PublishPush(c)
    BY <1>5, BaseType DEF TypeOK, PublishPush, LocalBranch, Goto
  <1>6. CASE PublishPushFails(c)
    <2>1. remote' \in History /\ faults' \in Nat
      BY <1>6, BaseType DEF TypeOK, PublishPushFails, LocalBranch, Fault
    <2>2. CASE committed[c]
      BY <1>6, <2>1, <2>2 DEF TypeOK, PublishPushFails, clone, Goto
    <2>3. CASE ~committed[c]
      BY <1>6, <2>1, <2>3 DEF TypeOK, PublishPushFails, clone, Finish
    <2> QED
      BY <2>2, <2>3
  <1>7. CASE PublishRace(c)
    <2>1. Len(head[c]) > 1
      BY <1>7 DEF TypeOK, PublishRace
    <2>2. /\ head' \in [Clones -> History]
          /\ worktree' \in [Clones -> SUBSET Change]
          /\ index' \in [Clones -> SUBSET Change]
      <3>1. CASE UNCHANGED <<head, worktree, index>>
        BY <3>1 DEF TypeOK
      <3>2. CASE /\ head' = [head EXCEPT ![c] = Front(@)]
                 /\ worktree' = [worktree EXCEPT ![c] = ResetFiles(c)]
                 /\ index' = [index EXCEPT ![c] = {}]
        <4>1. Front(head[c]) \in History /\ Last(head[c]) \in SUBSET Change
          BY <2>1, FrontHistory DEF TypeOK
        <4>2. ResetFiles(c) \in SUBSET Change
          BY <4>1 DEF ResetFiles, Overlay, TypeOK
        <4> QED
          BY <3>2, <4>1, <4>2 DEF TypeOK
      <3> QED
        BY <1>7, <3>1, <3>2 DEF PublishRace
    <2>3. /\ pc' = [pc EXCEPT ![c] = "idle"]
          /\ outcome' \in [Clones -> Outcome]
      BY <1>7 DEF TypeOK, PublishRace, Finish
    <2>4. \A d \in Clones \ {c} : head'[d] = head[d]
      BY <1>7 DEF TypeOK, PublishRace
    <2> QED
      BY <1>7, <2>2, <2>3, <2>4 DEF TypeOK, PublishRace, Fetched
  <1>8. CASE PublishReport(c)
    BY <1>8 DEF TypeOK, PublishReport, clone, Finish
  <1>9. CASE Abort(c)
    BY <1>9 DEF TypeOK, Abort, clone, Finish, Fault
  <1> QED
    BY <1>1, <1>2, <1>3, <1>4, <1>5, <1>6, <1>7, <1>8, <1>9

LEMMA OperatorTypes ==
  ASSUME TypeOK, NEW c \in Clones, Operator(c)
  PROVE  TypeOK'
  <1> USE DEF control, ghost, fixed
  <1>1. ASSUME NEW p \in HandPaths \cup NewPaths, OperatorEdit(c, p)
        PROVE  TypeOK'
    BY <1>1 DEF TypeOK, OperatorEdit, Change, Paths
  <1>2. ASSUME NEW p \in HandPaths \cup NewPaths, OperatorStage(c, p)
        PROVE  TypeOK'
    BY <1>2 DEF TypeOK, OperatorStage, StagePaths, At, Paths
  <1>3. ASSUME NEW p \in HandPaths \cup NewPaths, OperatorMoveAway(c, p)
        PROVE  TypeOK'
    BY <1>3 DEF TypeOK, OperatorMoveAway, At
  <1>4. CASE OperatorRecover(c)
    <2>1. /\ worktree' \in [Clones -> SUBSET Change]
          /\ stash' \in [Clones -> Seq(Entry)]
      BY <1>4, NewestType DEF TypeOK, OperatorRecover, Overlay
    <2>2. \A d \in Clones \ {c} : stash'[d] = stash[d]
      BY <1>4 DEF TypeOK, OperatorRecover
    <2> QED
      BY <1>4, <2>1, <2>2 DEF TypeOK, OperatorRecover
  <1>5. CASE OperatorReconcile(c)
    <2>1. /\ head[c] \in History /\ tracking[c] \in History
          /\ Changes(head[c]) \ Changes(tracking[c]) \in SUBSET Change
          /\ PathsOf(Changes(tracking[c])) \subseteq Paths
      BY ChangesType, PathsOfType DEF TypeOK
    <2>2. head' \in [Clones -> History] /\ adopted' \in [Clones -> SUBSET Paths]
      BY <1>5, <2>1, AppendHistory DEF TypeOK, OperatorReconcile
    <2>3. \A d \in Clones \ {c} : head'[d] = head[d]
      BY <1>5 DEF TypeOK, OperatorReconcile
    <2> QED
      BY <1>5, <2>2, <2>3 DEF TypeOK, OperatorReconcile
  <1> QED
    BY <1>1, <1>2, <1>3, <1>4, <1>5 DEF Operator

LEMMA OutsideTypes ==
  ASSUME TypeOK, NEW p \in Paths, OutsideCommit(p)
  PROVE  TypeOK'
  <1>1. nOutside + 1 \in Nat
    BY DEF TypeOK
  <1>2. {[kind |-> "edit", by |-> Outsider, path |-> p, n |-> nOutside + 1]}
          \in SUBSET Change
    BY <1>1 DEF Change
  <1>3. remote' \in History
    BY <1>2, AppendHistory DEF TypeOK, OutsideCommit
  <1> QED
    BY <1>1, <1>3 DEF TypeOK, OutsideCommit, clone, control, ghost

LEMMA InitTypes == Init => TypeOK
  <1> SUFFICES ASSUME Init PROVE TypeOK
    OBVIOUS
  <1>1. /\ << >> \in Seq(Entry) /\ {} \in SUBSET Change /\ {} \in SUBSET Paths
        /\ MaxFaults \in Nat
        /\ HeadChoices \subseteq BOOLEAN
    BY ConstantsAssumption
  <1> QED
    BY <1>1, BaseType DEF Init, TypeOK, PC, Outcome

\* The steps of a clone's tool and operator, one by one: how the proofs below
\* split Next.
LEMMA StepTypes == TypeOK /\ [Next]_vars => TypeOK'
  <1> SUFFICES ASSUME TypeOK, [Next]_vars PROVE TypeOK'
    OBVIOUS
  <1>1. ASSUME NEW c \in Clones,
               ToolStep(c) \/ ToolStart(c) \/ Abort(c) \/ Operator(c)
        PROVE  TypeOK'
    BY <1>1, SyncTypes, CheckpointTypes, GenerateTypes, PublishTypes,
       OperatorTypes DEF ToolStep, ToolStart
  <1>2. CASE UNCHANGED vars
    BY <1>2 DEF TypeOK, vars, clone, control, ghost, fixed
  <1> QED
    BY <1>1, <1>2, OutsideTypes DEF Next

\* Every variable of every clone keeps its type, a running sync has the stash
\* entry it will restore and a commit that may be unwound has a parent.
THEOREM TypeCorrect == Spec => []TypeOK
  BY InitTypes, StepTypes, PTL DEF Spec

-----------------------------------------------------------------------------
(* No edit is lost *)

LEMMA AppendChanges ==
  ASSUME NEW h \in History, NEW S \in SUBSET Change
  PROVE  Changes(Append(h, S)) = Changes(h) \cup S
  <1>1. h \in Seq(Commit) /\ S \in Commit
    BY DEF History, Commit
  <1> DEFINE g == Append(h, S)
  <1>2. /\ Len(g) = Len(h) + 1
        /\ \A i \in 1 .. Len(h) : g[i] = h[i]
        /\ g[Len(h) + 1] = S
        /\ DOMAIN g = 1 .. Len(h) + 1 /\ DOMAIN h = 1 .. Len(h)
        /\ Len(h) \in Nat
    BY <1>1, AppendProperties
  <1> HIDE DEF g
  <1>3. Changes(g) = Changes(h) \cup S
    BY <1>2 DEF Changes
  <1> QED
    BY <1>3 DEF g

LEMMA PrefixChanges ==
  ASSUME NEW h \in History, NEW g \in History, IsPrefix(h, g)
  PROVE  Changes(h) \subseteq Changes(g)
  <1>1. /\ h \in Seq(Commit) /\ g \in Seq(Commit)
        /\ DOMAIN h = 1 .. Len(h) /\ DOMAIN g = 1 .. Len(g)
        /\ Len(h) \in Nat /\ Len(g) \in Nat /\ Len(h) <= Len(g)
    BY DEF History, IsPrefix
  <1>2. \A i \in 1 .. Len(h) : h[i] = g[i]
    <2>1. SubSeq(h, 1, Len(h)) = SubSeq(g, 1, Len(h))
      BY DEF IsPrefix
    <2>2. \A i \in 1 .. Len(h) : SubSeq(h, 1, Len(h))[i] = h[i]
      BY <1>1, SubSeqProperties
    <2>3. \A i \in 1 .. Len(h) : SubSeq(g, 1, Len(h))[i] = g[i]
      BY <1>1, SubSeqProperties
    <2> QED
      BY <2>1, <2>2, <2>3
  <1> QED
    BY <1>1, <1>2 DEF Changes

LEMMA FrontProperties ==
  ASSUME NEW T, NEW s \in Seq(T), s # << >>
  PROVE  /\ Len(s) \in Nat \ {0}
         /\ DOMAIN s = 1 .. Len(s)
         /\ DOMAIN Front(s) = 1 .. Len(s) - 1
         /\ \A i \in 1 .. Len(s) - 1 : Front(s)[i] = s[i]
         /\ Last(s) = s[Len(s)]
  <1>1. Len(s) \in Nat \ {0} /\ DOMAIN s = 1 .. Len(s)
    OBVIOUS
  <1>2. /\ SubSeq(s, 1, Len(s) - 1) \in Seq(T)
        /\ Len(SubSeq(s, 1, Len(s) - 1)) = Len(s) - 1
        /\ \A i \in 1 .. Len(s) - 1 : SubSeq(s, 1, Len(s) - 1)[i] = s[i]
    BY <1>1, SubSeqProperties
  <1> QED
    BY <1>1, <1>2 DEF Front, Last

LEMMA FrontChanges ==
  ASSUME NEW h \in History
  PROVE  Changes(h) = Changes(Front(h)) \cup Last(h)
  <1>1. h \in Seq(Commit) /\ h # << >>
    BY DEF History
  <1> QED
    BY <1>1, FrontProperties DEF Changes

LEMMA AppendEntries ==
  ASSUME NEW s \in Seq(Entry), NEW e \in Entry
  PROVE  Entries(Append(s, e)) = Entries(s) \cup e.files \cup e.staged
  <1> DEFINE g == Append(s, e)
  <1>1. /\ \A i \in 1 .. Len(s) : g[i] = s[i]
        /\ g[Len(s) + 1] = e
        /\ DOMAIN g = 1 .. Len(s) + 1 /\ DOMAIN s = 1 .. Len(s)
        /\ Len(s) \in Nat
    BY AppendProperties
  <1> HIDE DEF g
  <1>2. Entries(g) = Entries(s) \cup e.files \cup e.staged
    BY <1>1 DEF Entries
  <1> QED
    BY <1>2 DEF g

LEMMA FrontEntries ==
  ASSUME NEW s \in Seq(Entry), s # << >>
  PROVE  Entries(s) =
           Entries(Front(s)) \cup s[Len(s)].files \cup s[Len(s)].staged
  BY FrontProperties DEF Entries

\* A clone whose files, index, stash, HEAD and edits do not change stays safe.
LEMMA EditsFrame ==
  ASSUME NEW d \in Clones, EditsSafe(d),
         UNCHANGED <<head[d], worktree[d], index[d], stash[d], edits[d]>>,
         pc'[d] = "drop" => pc[d] = "drop"
  PROVE  EditsSafe(d)'
  BY DEF EditsSafe, Newest

\* What an action of c leaves of another clone d.
Untouched(d) ==
  UNCHANGED <<head[d], tracking[d], worktree[d], index[d], stash[d], edits[d],
              pc[d], op[d], dirty[d], adopted[d]>>

LEMMA CommitKeepsEdits ==
  ASSUME TypeOK, NEW c \in Clones, EditsSafe(c), CommitIndex(c),
         UNCHANGED <<stash, edits>>, pc'[c] # "drop"
  PROVE  EditsSafe(c)'
  <1>1. Changes(head'[c]) = Changes(head[c]) \cup index[c]
    BY AppendChanges DEF TypeOK, CommitIndex
  <1>2. worktree'[c] = worktree[c] \ index[c] /\ index'[c] = {}
    BY DEF TypeOK, CommitIndex
  <1> QED
    BY <1>1, <1>2 DEF EditsSafe, Written

\* Popping or dropping the newest entry keeps what the files and HEAD hold.
LEMMA PopKeepsEdits ==
  ASSUME TypeOK, NEW c \in Clones, EditsSafe(c), stash[c] # << >>,
         stash'[c] = Front(stash[c]), head'[c] = head[c],
         UNCHANGED edits,
         worktree[c] \subseteq worktree'[c],
         Newest(c).files \subseteq worktree'[c] \cup Changes(head[c]),
         Written(index'[c]) \subseteq worktree'[c],
         pc'[c] # "drop"
  PROVE  EditsSafe(c)'
  <1>1. stash[c] \in Seq(Entry)
    BY DEF TypeOK
  <1>2. /\ Entries(stash[c]) = Entries(stash'[c]) \cup Newest(c).files
                                 \cup Newest(c).staged
        /\ \A i \in DOMAIN stash'[c] :
             i \in DOMAIN stash[c] /\ stash'[c][i] = stash[c][i]
        /\ Written(Newest(c).staged) \subseteq Newest(c).files
    <2>1. Len(stash[c]) \in DOMAIN stash[c]
      BY <1>1, FrontProperties
    <2> QED
      BY <1>1, <2>1, FrontEntries, FrontProperties DEF Newest, EditsSafe
  <1> QED
    BY <1>2 DEF EditsSafe, Written

LEMMA SyncKeepsEdits ==
  ASSUME TypeOK, NEW c \in Clones, EditsSafe(c),
         \/ SyncStash(c) \/ SyncMerge(c) \/ SyncMergeFails(c)
         \/ SyncApply(c) \/ SyncDrop(c)
  PROVE  EditsSafe(c)'
  <1> USE DEF ghost
  <1>1. CASE SyncStash(c)
    <2> DEFINE entry == [files  |-> At(worktree[c], dirty[c]),
                         staged |-> At(index[c], dirty[c]),
                         base   |-> Len(head[c])]
    <2>1. entry \in Entry
      BY DEF Entry, TypeOK, History, At
    <2>2. stash[c] \in Seq(Entry)
      BY DEF TypeOK
    <2>3. /\ stash'[c] = Append(stash[c], entry)
          /\ worktree'[c] = worktree[c] \ entry.files
          /\ index'[c] = index[c] \ entry.staged
          /\ pc'[c] # "drop"
          /\ UNCHANGED <<head, edits>>
      BY <1>1 DEF SyncStash, TypeOK, Goto
    <2>4. Written(entry.staged) \subseteq entry.files
      BY DEF At, Written, EditsSafe
    <2>5. Written(index'[c]) \subseteq worktree'[c]
      BY <2>3 DEF At, Written, EditsSafe
    <2> HIDE DEF entry
    <2>6. Entries(stash'[c])
            = Entries(stash[c]) \cup entry.files \cup entry.staged
      BY <2>1, <2>2, <2>3, AppendEntries
    <2>7. \A i \in DOMAIN stash'[c] :
            Written(stash'[c][i].staged) \subseteq stash'[c][i].files
      <3>1. /\ \A i \in 1 .. Len(stash[c]) : stash'[c][i] = stash[c][i]
            /\ stash'[c][Len(stash[c]) + 1] = entry
            /\ DOMAIN stash'[c] = 1 .. Len(stash[c]) + 1
            /\ DOMAIN stash[c] = 1 .. Len(stash[c])
            /\ Len(stash[c]) \in Nat
        BY <2>1, <2>2, <2>3, AppendProperties
      <3> QED
        BY <3>1, <2>4 DEF EditsSafe
    <2> QED
      BY <2>3, <2>5, <2>6, <2>7 DEF EditsSafe
  <1>2. CASE SyncMerge(c)
    <2>1. Changes(head[c]) \subseteq Changes(head'[c])
      BY <1>2, PrefixChanges DEF SyncMerge, FastForwards, TypeOK
    <2>2. /\ UNCHANGED <<worktree, index, stash, edits>>
          /\ pc'[c] # "drop"
      BY <1>2 DEF SyncMerge, Goto, Finish, TypeOK
    <2> QED
      BY <2>1, <2>2 DEF EditsSafe, Newest
  <1>3. CASE SyncMergeFails(c)
    <2>1. UNCHANGED <<head, edits>> /\ pc'[c] # "drop"
      BY <1>3 DEF SyncMergeFails, Finish, TypeOK
    <2>2. CASE UNCHANGED <<worktree, index, stash>>
      BY <2>1, <2>2, EditsFrame
    <2>3. CASE /\ dirty[c] # {}
               /\ worktree' = [worktree EXCEPT ![c] = @ \cup Newest(c).files]
               /\ index' = [index EXCEPT ![c] = @ \cup Newest(c).staged]
               /\ stash' = [stash EXCEPT ![c] = Front(@)]
      <3>1. stash[c] # << >>
        BY <1>3, <2>3 DEF TypeOK, SyncMergeFails
      <3>2. /\ worktree'[c] = worktree[c] \cup Newest(c).files
            /\ index'[c] = index[c] \cup Newest(c).staged
            /\ stash'[c] = Front(stash[c])
        BY <2>3 DEF TypeOK
      <3>3. Written(Newest(c).staged) \subseteq Newest(c).files
        <4>1. stash[c] \in Seq(Entry)
          BY DEF TypeOK
        <4>2. Len(stash[c]) \in DOMAIN stash[c]
          BY <3>1, <4>1, FrontProperties
        <4> QED
          BY <4>2 DEF EditsSafe, Newest
      <3>4. Written(index'[c]) \subseteq worktree'[c]
        BY <3>2, <3>3 DEF EditsSafe, Written
      <3> QED
        BY <2>1, <3>1, <3>2, <3>4, PopKeepsEdits
    <2> QED
      BY <1>3, <2>2, <2>3 DEF SyncMergeFails
  <1>4. CASE SyncApply(c)
    <2>1. stash[c] # << >> /\ stash[c] \in Seq(Entry)
      BY <1>4 DEF TypeOK, SyncApply, Goto
    <2>2. /\ worktree'[c] = worktree[c] \cup (Newest(c).files \ Changes(head[c]))
          /\ index'[c] = index[c] \cup (Newest(c).staged \ Changes(head[c]))
          /\ UNCHANGED <<head, stash, edits>>
      BY <1>4 DEF SyncApply, TypeOK
    <2>3. Written(Newest(c).staged) \subseteq Newest(c).files
      <3>1. Len(stash[c]) \in DOMAIN stash[c]
        BY <2>1, FrontProperties
      <3> QED
        BY <3>1 DEF EditsSafe, Newest
    <2>4. Written(index'[c]) \subseteq worktree'[c]
      BY <2>2, <2>3 DEF EditsSafe, Written
    <2>5. Newest(c)' = Newest(c)
      BY <2>2 DEF Newest
    <2> QED
      BY <2>2, <2>4, <2>5 DEF EditsSafe
  <1>5. CASE SyncDrop(c)
    <2>1. stash[c] # << >> /\ pc[c] = "drop" /\ pc'[c] # "drop"
      BY <1>5 DEF TypeOK, SyncDrop, Goto
    <2>2. stash'[c] = Front(stash[c]) /\ UNCHANGED <<head, worktree, index, edits>>
      BY <1>5 DEF TypeOK, SyncDrop
    <2>3. /\ Newest(c).files \subseteq worktree[c] \cup Changes(head[c])
          /\ Written(index[c]) \subseteq worktree[c]
      BY <2>1 DEF EditsSafe
    <2> QED
      BY <2>1, <2>2, <2>3, PopKeepsEdits
  <1> QED
    BY <1>1, <1>2, <1>3, <1>4, <1>5

\* Steps that touch neither the files, the stash nor HEAD.
LEMMA QuietKeepsEdits ==
  ASSUME TypeOK, NEW c \in Clones, EditsSafe(c),
         \/ SyncFetch(c) \/ SyncApplyFails(c) \/ CheckpointStage(c)
         \/ \E k \in {"push", "pushall"} : PushFetch(c, k)
         \/ GenerateSecrets(c) \/ PublishStage(c) \/ PublishCheck(c)
         \/ PublishPush(c) \/ PublishPushFails(c) \/ PublishReport(c)
         \/ Abort(c)
  PROVE  EditsSafe(c)'
  <1> USE DEF ghost, clone
  <1>1. CASE CheckpointStage(c) \/ PublishStage(c)
    <2>1. UNCHANGED <<head, worktree, stash, edits>> /\ pc'[c] # "drop"
      BY <1>1 DEF CheckpointStage, PublishStage, Goto, TypeOK
    <2>2. \E P \in SUBSET Paths : StagePaths(c, P)
      <3>1. CheckpointPaths(c) \in SUBSET Paths /\ PublishPaths(c) \in SUBSET Paths
        BY DEF CheckpointPaths, PublishPaths, TypeOK, Paths
      <3> QED
        BY <1>1, <3>1 DEF CheckpointStage, PublishStage
    <2>3. Written(index'[c]) \subseteq worktree'[c]
      BY <2>1, <2>2 DEF StagePaths, At, Written, EditsSafe, TypeOK
    <2> QED
      BY <2>1, <2>3 DEF EditsSafe, Newest
  <1>2. CASE ~(CheckpointStage(c) \/ PublishStage(c))
    <2>1. UNCHANGED <<head, worktree, index, stash, edits>>
      BY <1>2 DEF SyncFetch, SyncApplyFails, PushFetch, GenerateSecrets,
         PublishCheck, PublishPush, PublishPushFails, PublishReport, Abort
    <2>2. pc'[c] # "drop"
      <3>1. CASE SyncFetch(c)
        BY <3>1 DEF SyncFetch, AfterBehind, Goto, Finish, TypeOK
      <3>2. CASE \E k \in {"push", "pushall"} : PushFetch(c, k)
        BY <3>2 DEF PushFetch, Goto, Finish, TypeOK
      <3>3. CASE PublishCheck(c)
        BY <3>3 DEF PublishCheck, Goto, Finish, TypeOK
      <3>4. CASE PublishPushFails(c)
        BY <3>4 DEF PublishPushFails, Goto, Finish, TypeOK
      <3>5. CASE \/ SyncApplyFails(c) \/ GenerateSecrets(c) \/ PublishPush(c)
                 \/ PublishReport(c) \/ Abort(c)
        BY <3>5 DEF SyncApplyFails, GenerateSecrets, PublishPush,
           PublishReport, Abort, Goto, Finish, TypeOK
      <3> QED
        BY <1>2, <3>1, <3>2, <3>3, <3>4, <3>5
    <2> QED
      BY <2>1, <2>2, EditsFrame
  <1> QED
    BY <1>1, <1>2

LEMMA PublishKeepsEdits ==
  ASSUME TypeOK, NEW c \in Clones, EditsSafe(c),
         \/ CheckpointCommit(c) \/ Generate(c)
         \/ PublishCommit(c) \/ PublishRace(c)
  PROVE  EditsSafe(c)'
  <1> USE DEF ghost
  <1>1. CASE CheckpointCommit(c)
    <2>1. UNCHANGED <<stash, edits>> /\ pc'[c] # "drop"
      BY <1>1 DEF CheckpointCommit, Goto, Finish, TypeOK
    <2>2. CASE CommitIndex(c)
      BY <2>1, <2>2, CommitKeepsEdits
    <2>3. CASE UNCHANGED <<head, worktree, index>>
      BY <2>1, <2>3, EditsFrame
    <2> QED
      BY <1>1, <2>2, <2>3 DEF CheckpointCommit
  <1>2. CASE PublishCommit(c)
    <2>1. UNCHANGED <<stash, edits>> /\ pc'[c] # "drop" /\ CommitIndex(c)
      BY <1>2 DEF PublishCommit, Goto, TypeOK
    <2> QED
      BY <2>1, CommitKeepsEdits
  <1>3. CASE Generate(c)
    <2>1. UNCHANGED <<head, index, stash, edits>>
      BY <1>3 DEF Generate
    <2>2. pc'[c] # "drop"
      BY <1>3 DEF Generate, Goto, Finish, TypeOK
    <2>3. Written(worktree[c]) \subseteq worktree'[c]
      <3> PICK fresh \in SUBSET GenPaths :
             worktree' = [worktree EXCEPT ![c] = (@ \ At(@, fresh)) \cup
                 {[kind |-> "gen", by |-> c, path |-> p, n |-> nSeal[c] + 1] :
                    p \in fresh}]
        BY <1>3 DEF Generate
      <3> QED
        BY DEF Written, At, TypeOK
    <2> QED
      BY <2>1, <2>2, <2>3 DEF EditsSafe, Written
  <1>4. CASE PublishRace(c)
    <2>1. UNCHANGED <<stash, edits>> /\ pc'[c] # "drop"
      BY <1>4 DEF PublishRace, Finish, TypeOK
    <2>2. CASE UNCHANGED <<head, worktree, index>>
      BY <2>1, <2>2, EditsFrame
    <2>3. CASE /\ head' = [head EXCEPT ![c] = Front(@)]
               /\ worktree' = [worktree EXCEPT ![c] = ResetFiles(c)]
               /\ index' = [index EXCEPT ![c] = {}]
      <3>1. Changes(head[c]) = Changes(head'[c]) \cup Last(head[c])
        BY <2>3, FrontChanges DEF TypeOK
      <3>2. /\ worktree[c] \subseteq worktree'[c]
            /\ Written(Last(head[c])) \subseteq worktree'[c]
            /\ index'[c] = {}
        BY <2>3 DEF ResetFiles, Overlay, Written, TypeOK
      <3> QED
        BY <2>1, <3>1, <3>2 DEF EditsSafe, Written
    <2> QED
      BY <1>4, <2>2, <2>3 DEF PublishRace
  <1> QED
    BY <1>1, <1>2, <1>3, <1>4

LEMMA OperatorKeepsEdits ==
  ASSUME TypeOK, NEW c \in Clones, EditsSafe(c), Operator(c)
  PROVE  EditsSafe(c)'
  <1> USE DEF ghost, control
  <1>1. ASSUME NEW p \in HandPaths \cup NewPaths, OperatorEdit(c, p)
        PROVE  EditsSafe(c)'
    <2> DEFINE t == [kind |-> "edit", by |-> c, path |-> p, n |-> nEdit[c] + 1]
    <2>1. /\ worktree'[c] = worktree[c] \cup {t}
          /\ edits'[c] = edits[c] \cup {t}
          /\ UNCHANGED <<head, index, stash, pc>>
      BY <1>1 DEF OperatorEdit, TypeOK
    <2>2. t.path \notin GenPaths
      BY ConstantsAssumption
    <2> HIDE DEF t
    <2> QED
      BY <2>1, <2>2 DEF EditsSafe, Written, Newest
  <1>2. ASSUME NEW p \in HandPaths \cup NewPaths, OperatorStage(c, p)
        PROVE  EditsSafe(c)'
    <2>1. /\ index'[c] = (index[c] \ At(index[c], {p})) \cup At(worktree[c], {p})
          /\ UNCHANGED <<head, worktree, stash, edits, pc>>
      BY <1>2 DEF OperatorStage, StagePaths, TypeOK
    <2> QED
      BY <2>1 DEF EditsSafe, Written, Newest, At
  <1>3. ASSUME NEW p \in HandPaths \cup NewPaths, OperatorMoveAway(c, p)
        PROVE  EditsSafe(c)'
    <2>1. /\ worktree'[c] = worktree[c] \ At(worktree[c], {p})
          /\ edits'[c] = edits[c] \ At(worktree[c], {p})
          /\ UNCHANGED <<head, index, stash, pc>> /\ pc[c] # "drop"
      BY <1>3 DEF OperatorMoveAway, TypeOK
    <2>2. \A t \in index[c] : t.path # p
      BY <1>3 DEF OperatorMoveAway, UntrackedPaths, Tracked, PathsOf
    <2> QED
      BY <2>1, <2>2 DEF EditsSafe, Written, At
  <1>4. CASE OperatorRecover(c)
    <2> DEFINE files == Newest(c).files \ Changes(head[c])
               staged == Newest(c).staged \ Changes(head[c])
    <2>1. /\ stash'[c] = Front(stash[c]) /\ stash[c] # << >>
          /\ worktree'[c] = Overlay(Overlay(worktree[c], files), staged)
          /\ UNCHANGED <<head, index, edits, pc>> /\ pc[c] # "drop"
      BY <1>4 DEF OperatorRecover, TypeOK
    <2>2. /\ worktree[c] \subseteq worktree'[c]
          /\ Written(Newest(c).files) \subseteq worktree'[c] \cup Changes(head[c])
      BY <2>1 DEF Overlay, Written
    <2>3. stash[c] \in Seq(Entry)
      BY DEF TypeOK
    <2>4. /\ Entries(stash[c]) = Entries(stash'[c]) \cup Newest(c).files
                                   \cup Newest(c).staged
          /\ \A i \in DOMAIN stash'[c] :
               i \in DOMAIN stash[c] /\ stash'[c][i] = stash[c][i]
          /\ Written(Newest(c).staged) \subseteq Newest(c).files
      <3>1. Len(stash[c]) \in DOMAIN stash[c]
        BY <2>1, <2>3, FrontProperties
      <3> QED
        BY <2>1, <2>3, <3>1, FrontEntries, FrontProperties DEF Newest, EditsSafe
    <2> HIDE DEF files, staged
    <2> QED
      BY <2>1, <2>2, <2>4 DEF EditsSafe, Written
  <1>5. CASE OperatorReconcile(c)
    <2> DEFINE local == Changes(head[c]) \ Changes(tracking[c])
    <2>1. Changes(head[c]) \subseteq Changes(head'[c])
      <3>1. tracking[c] \in History /\ local \in SUBSET Change
        BY ChangesType DEF TypeOK
      <3>2. Changes(Append(tracking[c], local)) = Changes(tracking[c]) \cup local
        BY <3>1, AppendChanges
      <3> QED
        BY <1>5, <3>2 DEF OperatorReconcile, TypeOK
    <2>2. UNCHANGED <<worktree, index, stash, edits, pc>>
      BY <1>5 DEF OperatorReconcile
    <2> QED
      BY <2>1, <2>2 DEF EditsSafe, Newest
  <1> QED
    BY <1>1, <1>2, <1>3, <1>4, <1>5 DEF Operator

\* An action of clone c leaves every other clone as it is.
LEMMA OthersUntouched ==
  ASSUME TypeOK, NEW c \in Clones, NEW d \in Clones \ {c},
         ToolStep(c) \/ ToolStart(c) \/ Abort(c) \/ Operator(c)
  PROVE  Untouched(d)
  <1> USE DEF Untouched, TypeOK, clone, control, ghost
  <1>1. CASE \/ SyncFetch(c) \/ SyncStash(c) \/ SyncMerge(c)
             \/ SyncMergeFails(c) \/ SyncApply(c) \/ SyncApplyFails(c)
             \/ SyncDrop(c)
    BY <1>1 DEF SyncFetch, SyncStash, SyncMerge, SyncMergeFails, SyncApply,
       SyncApplyFails, SyncDrop, Goto, Finish
  <1>2. CASE \/ CheckpointStage(c) \/ CheckpointCommit(c) \/ Generate(c)
             \/ GenerateSecrets(c)
    BY <1>2 DEF CheckpointStage, CheckpointCommit, Generate, GenerateSecrets,
       StagePaths, CommitIndex, Goto, Finish
  <1>3. CASE \/ \E k \in {"push", "pushall"} : PushFetch(c, k)
             \/ PublishStage(c) \/ PublishCheck(c) \/ PublishCommit(c)
    BY <1>3 DEF PushFetch, PublishStage, PublishCheck, PublishCommit,
       StagePaths, CommitIndex, Goto, Finish
  <1>4. CASE \/ PublishPush(c) \/ PublishPushFails(c) \/ PublishRace(c)
             \/ PublishReport(c) \/ Abort(c)
    BY <1>4 DEF PublishPush, PublishPushFails, PublishRace, PublishReport,
       Abort, Goto, Finish
  <1>5. CASE Operator(c)
    BY <1>5 DEF Operator, OperatorEdit, OperatorStage, OperatorMoveAway,
       OperatorRecover, OperatorReconcile, StagePaths
  <1> QED
    BY <1>1, <1>2, <1>3, <1>4, <1>5 DEF ToolStep, ToolStart

LEMMA StepEdits == EditInv /\ [Next]_vars => EditInv'
  <1> SUFFICES ASSUME EditInv, [Next]_vars PROVE EditInv'
    OBVIOUS
  <1>1. TypeOK /\ TypeOK'
    BY StepTypes DEF EditInv
  <1>2. ASSUME NEW c \in Clones, NEW d \in Clones,
               ToolStep(c) \/ ToolStart(c) \/ Abort(c) \/ Operator(c)
        PROVE  EditsSafe(d)'
    <2>1. CASE d = c
      <3>1. EditsSafe(c)
        BY DEF EditInv
      <3> QED
        BY <1>1, <1>2, <2>1, <3>1, SyncKeepsEdits, QuietKeepsEdits,
           PublishKeepsEdits, OperatorKeepsEdits DEF ToolStep, ToolStart
    <2>2. CASE d # c
      BY <1>1, <1>2, <2>2, OthersUntouched, EditsFrame DEF EditInv, Untouched
    <2> QED
      BY <2>1, <2>2
  <1>3. ASSUME NEW d \in Clones, UNCHANGED vars \/ \E p \in Paths : OutsideCommit(p)
        PROVE  EditsSafe(d)'
    BY <1>3, EditsFrame
       DEF EditInv, vars, OutsideCommit, clone, control, ghost
  <1> QED
    BY <1>1, <1>2, <1>3 DEF EditInv, Next

LEMMA InitEdits == Init => EditInv
  <1> SUFFICES ASSUME Init PROVE EditInv
    OBVIOUS
  <1>1. \A c \in Clones : EditsSafe(c)
    BY DEF Init, EditsSafe, Written
  <1> QED
    BY <1>1, InitTypes DEF EditInv

\* Why no edit is lost: generated outputs are no edits, what is staged is in
\* the files as well, and a stash entry is dropped when it has been restored.
THEOREM EditsStaySafe == Spec => []EditInv
  BY InitEdits, StepEdits, PTL DEF Spec

\* Whatever commands run, fail, lose races or are killed between two git
\* commands, an edit of the operator is in the files, in a stash entry or in
\* a commit of HEAD.
THEOREM EditsNeverLost == Spec => []NoLostEdit
  <1>1. EditInv => NoLostEdit
    BY DEF EditInv, EditsSafe, NoLostEdit
  <1> QED
    BY <1>1, EditsStaySafe, PTL

-----------------------------------------------------------------------------
(* A sync never creates divergence *)

LEMMA PrefixReflexive ==
  ASSUME NEW h \in History PROVE IsPrefix(h, h)
  BY DEF IsPrefix, History

LEMMA PrefixAppend ==
  ASSUME NEW h \in History, NEW g \in History, NEW S \in SUBSET Change,
         IsPrefix(g, h)
  PROVE  IsPrefix(g, Append(h, S)) /\ g # Append(h, S)
  <1>1. /\ h \in Seq(Commit) /\ g \in Seq(Commit) /\ S \in Commit
        /\ Len(h) \in Nat /\ Len(g) \in Nat /\ Len(g) <= Len(h)
    BY DEF History, Commit, IsPrefix
  <1> DEFINE k == Append(h, S)
  <1>2. /\ Len(k) = Len(h) + 1
        /\ \A i \in 1 .. Len(h) : k[i] = h[i]
    BY <1>1, AppendProperties
  <1> HIDE DEF k
  <1>3. SubSeq(k, 1, Len(g)) = SubSeq(h, 1, Len(g))
    <2>1. \A i \in 1 .. Len(g) : k[i] = h[i] /\ h[i] \in Commit
      BY <1>1, <1>2
    <2>2. /\ Len(SubSeq(k, 1, Len(g))) = Len(g)
          /\ Len(SubSeq(h, 1, Len(g))) = Len(g)
          /\ SubSeq(k, 1, Len(g)) \in Seq(Commit)
          /\ SubSeq(h, 1, Len(g)) \in Seq(Commit)
          /\ \A i \in 1 .. Len(g) : SubSeq(k, 1, Len(g))[i] = k[i]
          /\ \A i \in 1 .. Len(g) : SubSeq(h, 1, Len(g))[i] = h[i]
      BY <1>1, <2>1, SubSeqProperties
    <2> QED
      BY <2>1, <2>2, SeqEqual
  <1>4. IsPrefix(g, k) /\ g # k
    BY <1>1, <1>2, <1>3 DEF IsPrefix
  <1> QED
    BY <1>4 DEF k

LEMMA PrefixTransitive ==
  ASSUME NEW f \in History, NEW g \in History, NEW h \in History,
         IsPrefix(f, g), IsPrefix(g, h)
  PROVE  IsPrefix(f, h)
  <1>1. /\ f \in Seq(Commit) /\ g \in Seq(Commit) /\ h \in Seq(Commit)
        /\ Len(f) \in Nat /\ Len(g) \in Nat /\ Len(h) \in Nat
        /\ Len(f) <= Len(g) /\ Len(g) <= Len(h)
    BY DEF History, IsPrefix
  <1>2. \A i \in 1 .. Len(g) : g[i] = h[i]
    <2>1. \A i \in 1 .. Len(g) : SubSeq(g, 1, Len(g))[i] = g[i]
      BY <1>1, SubSeqProperties
    <2>2. \A i \in 1 .. Len(g) : SubSeq(h, 1, Len(g))[i] = h[i]
      BY <1>1, SubSeqProperties
    <2> QED
      BY <2>1, <2>2 DEF IsPrefix
  <1>3. SubSeq(g, 1, Len(f)) = SubSeq(h, 1, Len(f))
    <2>1. \A i \in 1 .. Len(f) : g[i] = h[i] /\ g[i] \in Commit
      BY <1>1, <1>2
    <2>2. /\ Len(SubSeq(g, 1, Len(f))) = Len(f)
          /\ Len(SubSeq(h, 1, Len(f))) = Len(f)
          /\ SubSeq(g, 1, Len(f)) \in Seq(Commit)
          /\ SubSeq(h, 1, Len(f)) \in Seq(Commit)
          /\ \A i \in 1 .. Len(f) : SubSeq(g, 1, Len(f))[i] = g[i]
          /\ \A i \in 1 .. Len(f) : SubSeq(h, 1, Len(f))[i] = h[i]
      BY <1>1, <2>1, SubSeqProperties
    <2> QED
      BY <2>1, <2>2, SeqEqual
  <1> QED
    BY <1>1, <1>3 DEF IsPrefix

LEMMA AlignedStep ==
  ASSUME TypeOK, NEW c \in Clones, SyncAligned(c),
         ToolStep(c) \/ ToolStart(c) \/ Abort(c) \/ Operator(c)
  PROVE  SyncAligned(c)'
  <1> USE DEF SyncAligned
  <1>1. CASE SyncFetch(c)
    <2>1. /\ tracking'[c] = remote /\ head'[c] = head[c] /\ op'[c] = "sync"
          /\ pc'[c] \in {"idle", "stage", "stash", "merge"}
      BY <1>1 DEF SyncFetch, Fetched, AfterBehind, Goto, Finish, TypeOK
    <2>2. pc'[c] = "stage" => RefState(head[c], remote) \in {"equal", "ahead"}
      BY <1>1 DEF SyncFetch, Fetched, AfterBehind, Goto, Finish, TypeOK
    <2>3. RefState(head[c], remote) \in {"equal", "ahead"}
            => IsPrefix(remote, head[c])
      BY PrefixReflexive DEF RefState, TypeOK
    <2> QED
      BY <2>1, <2>2, <2>3
  <1>2. CASE SyncStash(c) \/ SyncMergeFails(c) \/ SyncApplyFails(c) \/ Abort(c)
    BY <1>2 DEF SyncStash, SyncMergeFails, SyncApplyFails, Abort, Goto, Finish,
       TypeOK
  <1>3. CASE SyncMerge(c)
    BY <1>3 DEF SyncMerge, Goto, Finish, TypeOK
  <1>4. CASE SyncApply(c) \/ SyncDrop(c)
    BY <1>4, PrefixReflexive DEF SyncApply, SyncDrop, Goto, TypeOK
  <1>5. CASE CheckpointStage(c)
    BY <1>5 DEF CheckpointStage, Goto, TypeOK
  <1>6. CASE CheckpointCommit(c)
    <2>1. /\ op' = op
          /\ \/ op[c] = "sync" /\ pc'[c] = "idle"
             \/ op[c] # "sync" /\ pc'[c] = "generate"
      BY <1>6 DEF CheckpointCommit, Goto, Finish, TypeOK
    <2> QED
      BY <2>1
  <1>7. CASE GenerateSecrets(c)
    BY <1>7 DEF GenerateSecrets, Goto, TypeOK
  <1>8. CASE Generate(c)
    <2>1. op' = op /\ pc[c] = "generate" /\ pc'[c] \in {"idle", "pstage"}
      BY <1>8 DEF Generate, Goto, Finish, TypeOK
    <2> QED
      BY <2>1
  <1>9. CASE \E k \in {"push", "pushall"} : PushFetch(c, k)
    <2>1. op'[c] # "sync" /\ pc'[c] \in {"idle", "stage", "generate"}
      BY <1>9 DEF PushFetch, Goto, Finish, TypeOK
    <2> QED
      BY <2>1
  <1>10. CASE \/ PublishStage(c) \/ PublishCheck(c) \/ PublishCommit(c)
              \/ PublishPush(c) \/ PublishPushFails(c) \/ PublishRace(c)
              \/ PublishReport(c)
    <2>1. op' = op /\ op[c] # "sync"
      BY <1>10 DEF PublishStage, PublishCheck, PublishCommit, PublishPush,
         PublishPushFails, PublishRace, PublishReport, Goto
    <2>2. pc'[c] \in {"idle", "check", "pcommit", "push", "race", "report"}
      BY <1>10 DEF PublishStage, PublishCheck, PublishCommit, PublishPush,
         PublishPushFails, PublishRace, PublishReport, Goto, Finish, TypeOK
    <2> QED
      BY <2>1, <2>2
  <1>11. CASE Operator(c)
    <2>1. UNCHANGED <<pc, op, tracking>>
      BY <1>11 DEF Operator, OperatorEdit, OperatorStage, OperatorMoveAway,
         OperatorRecover, OperatorReconcile, control
    <2>2. pc[c] = "idle" \/ head' = head
      BY <1>11 DEF Operator, OperatorEdit, OperatorStage, OperatorMoveAway,
         OperatorRecover, OperatorReconcile
    <2> QED
      BY <2>1, <2>2
  <1> QED
    BY <1>1, <1>2, <1>3, <1>4, <1>5, <1>6, <1>7, <1>8, <1>9, <1>10, <1>11
       DEF ToolStep, ToolStart

LEMMA StepAligned == TypeOK /\ SyncInv /\ [Next]_vars => SyncInv'
  <1> SUFFICES ASSUME TypeOK, SyncInv, [Next]_vars, NEW d \in Clones
               PROVE  SyncAligned(d)'
    BY DEF SyncInv
  <1>1. SyncAligned(d)
    BY DEF SyncInv
  <1>2. CASE Untouched(d)
    BY <1>1, <1>2 DEF SyncAligned, Untouched
  <1>3. ASSUME NEW c \in Clones,
               ToolStep(c) \/ ToolStart(c) \/ Abort(c) \/ Operator(c)
        PROVE  SyncAligned(d)'
    BY <1>1, <1>2, <1>3, AlignedStep, OthersUntouched
  <1>4. CASE UNCHANGED vars \/ \E p \in Paths : OutsideCommit(p)
    BY <1>2, <1>4
       DEF Untouched, vars, OutsideCommit, clone, control, ghost
  <1> QED
    BY <1>3, <1>4 DEF Next

\* One step of a running sync keeps HEAD and origin/<revision> in line.
LEMMA AlignedKeepsFastForward ==
  ASSUME TypeOK, NEW c \in Clones, SyncAligned(c),
         pc[c] # "idle", op[c] = "sync",
         RefState(head[c], tracking[c]) # "diverged",
         ToolStep(c) \/ ToolStart(c) \/ Abort(c) \/ Operator(c)
  PROVE  RefState(head'[c], tracking[c]) # "diverged"
  <1>1. CASE SyncMerge(c)
    <2>1. head'[c] = tracking[c] /\ tracking[c] \in History
      BY <1>1 DEF SyncMerge, TypeOK
    <2> QED
      BY <2>1, PrefixReflexive DEF RefState
  <1>2. CASE CheckpointCommit(c)
    <2>1. /\ pc[c] = "commit"
          /\ \/ head' = head
             \/ head'[c] = Append(head[c], index[c])
      BY <1>2 DEF CheckpointCommit, CommitIndex, TypeOK
    <2>2. CASE head' = head
      BY <2>1, <2>2
    <2>3. CASE head'[c] = Append(head[c], index[c])
      <3>1. /\ head[c] \in History /\ tracking[c] \in History
            /\ index[c] \in SUBSET Change
        BY DEF TypeOK
      <3>2. IsPrefix(tracking[c], head[c])
        BY <2>1 DEF SyncAligned
      <3>3. /\ IsPrefix(tracking[c], Append(head[c], index[c]))
            /\ tracking[c] # Append(head[c], index[c])
        BY <3>1, <3>2, PrefixAppend
      <3>4. IsPrefix(tracking[c], head'[c]) /\ tracking[c] # head'[c]
        BY <2>3, <3>3
      <3> QED
        BY <3>4 DEF RefState
    <2> QED
      BY <2>1, <2>2, <2>3
  <1>3. CASE ~SyncMerge(c) /\ ~CheckpointCommit(c)
    <2>1. head' = head
      <3>1. CASE Operator(c)
        BY <3>1 DEF Operator, OperatorEdit, OperatorStage, OperatorMoveAway,
           OperatorRecover, OperatorReconcile
      <3>2. CASE \/ SyncStash(c) \/ SyncMergeFails(c) \/ SyncApply(c)
                 \/ SyncApplyFails(c) \/ SyncDrop(c) \/ CheckpointStage(c)
        BY <3>2 DEF SyncStash, SyncMergeFails, SyncApply, SyncApplyFails,
           SyncDrop, CheckpointStage
      <3>3. CASE Generate(c) \/ PublishStage(c) \/ PublishReport(c) \/ Abort(c)
        BY <3>3 DEF Generate, PublishStage, PublishReport, Abort, clone
      <3>4. ~ToolStart(c)
        BY DEF ToolStart, SyncFetch, PushFetch, GenerateSecrets, Goto
      <3>5. /\ ~PublishCheck(c) /\ ~PublishCommit(c) /\ ~PublishPush(c)
            /\ ~PublishPushFails(c) /\ ~PublishRace(c)
        BY DEF SyncAligned, PublishCheck, PublishCommit, PublishPush,
           PublishPushFails, PublishRace, Goto
      <3> QED
        BY <1>3, <3>1, <3>2, <3>3, <3>4, <3>5 DEF ToolStep
    <2> QED
      BY <2>1
  <1> QED
    BY <1>1, <1>2, <1>3

\* Whatever the operator edits and whoever pushes meanwhile, no step of a
\* sync turns a branch that was in line with origin into a diverged one.
THEOREM SyncNeverDiverges == Spec => SyncKeepsFastForward
  <1>1. Init => SyncInv
    BY DEF Init, SyncInv, SyncAligned
  <1>2. TypeOK /\ SyncInv /\ [Next]_vars =>
          [\A c \in Clones :
            /\ pc[c] # "idle" /\ op[c] = "sync"
            /\ RefState(head[c], tracking[c]) # "diverged"
            => RefState(head'[c], tracking[c]) # "diverged"]_vars
    <2> SUFFICES ASSUME TypeOK, SyncInv, Next, NEW d \in Clones,
                        pc[d] # "idle", op[d] = "sync",
                        RefState(head[d], tracking[d]) # "diverged"
                 PROVE  RefState(head'[d], tracking[d]) # "diverged"
      OBVIOUS
    <2>1. SyncAligned(d)
      BY DEF SyncInv
    <2>2. CASE Untouched(d)
      BY <2>2 DEF Untouched
    <2>3. ASSUME NEW c \in Clones,
                 ToolStep(c) \/ ToolStart(c) \/ Abort(c) \/ Operator(c)
          PROVE  RefState(head'[d], tracking[d]) # "diverged"
      BY <2>1, <2>2, <2>3, AlignedKeepsFastForward, OthersUntouched
    <2>4. CASE \E p \in Paths : OutsideCommit(p)
      BY <2>2, <2>4 DEF Untouched, OutsideCommit, clone, control, ghost
    <2> QED
      BY <2>3, <2>4 DEF Next
  <1> QED
    BY <1>1, <1>2, TypeCorrect, StepAligned, PTL DEF Spec, SyncKeepsFastForward

-----------------------------------------------------------------------------
(* The branch implements the published log *)

LEMMA PrefixIsSubSeq ==
  ASSUME NEW h \in History, NEW r \in History, IsPrefix(h, r)
  PROVE  /\ h = SubSeq(r, 1, Len(h))
         /\ Len(h) \in 0 .. Len(r)
  <1>1. /\ h \in Seq(Commit) /\ r \in Seq(Commit)
        /\ Len(h) \in Nat /\ Len(r) \in Nat /\ Len(h) <= Len(r)
        /\ SubSeq(h, 1, Len(h)) = SubSeq(r, 1, Len(h))
    BY DEF History, IsPrefix
  <1>2. SubSeq(h, 1, Len(h)) = h
    <2>1. \A i \in 1 .. Len(h) : h[i] \in Commit
      BY <1>1
    <2>2. /\ Len(SubSeq(h, 1, Len(h))) = Len(h)
          /\ SubSeq(h, 1, Len(h)) \in Seq(Commit)
          /\ \A i \in 1 .. Len(h) : SubSeq(h, 1, Len(h))[i] = h[i]
      BY <1>1, <2>1, SubSeqProperties
    <2> QED
      BY <1>1, <2>2, SeqEqual
  <1> QED
    BY <1>1, <1>2

\* Only a push changes the branch and only the report makes a claim.
LEMMA OnlyPushAndReport ==
  ASSUME NEW c \in Clones,
         ToolStep(c) \/ ToolStart(c) \/ Abort(c) \/ Operator(c)
  PROVE  /\ onBranch' = onBranch
         /\ remote' = remote \/ PublishPush(c) \/ PublishPushFails(c)
         /\ claimed' = claimed \/ PublishReport(c)
  <1> USE DEF fixed
  <1>1. CASE \/ SyncFetch(c) \/ SyncStash(c) \/ SyncMerge(c)
             \/ SyncMergeFails(c) \/ SyncApply(c) \/ SyncApplyFails(c)
             \/ SyncDrop(c)
    BY <1>1 DEF SyncFetch, SyncStash, SyncMerge, SyncMergeFails, SyncApply,
       SyncApplyFails, SyncDrop
  <1>2. CASE \/ CheckpointStage(c) \/ CheckpointCommit(c) \/ Generate(c)
             \/ GenerateSecrets(c)
             \/ \E k \in {"push", "pushall"} : PushFetch(c, k)
    BY <1>2 DEF CheckpointStage, CheckpointCommit, Generate,
       GenerateSecrets, PushFetch
  <1>3. CASE \/ PublishStage(c) \/ PublishCheck(c) \/ PublishCommit(c)
             \/ PublishRace(c) \/ Abort(c)
    BY <1>3 DEF PublishStage, PublishCheck, PublishCommit, PublishRace, Abort
  <1>4. CASE PublishPush(c) \/ PublishPushFails(c) \/ PublishReport(c)
    BY <1>4 DEF PublishPush, PublishPushFails, PublishReport
  <1>5. CASE Operator(c)
    BY <1>5 DEF Operator, OperatorEdit, OperatorStage, OperatorMoveAway,
       OperatorRecover, OperatorReconcile, control
  <1> QED
    BY <1>1, <1>2, <1>3, <1>4, <1>5 DEF ToolStep, ToolStart

\* Whatever a step does to the branch, it only appends to it.
LEMMA RemoteGrows ==
  ASSUME TypeOK, [Next]_vars
  PROVE  IsPrefix(remote, remote')
  <1>1. remote \in History
    BY DEF TypeOK
  <1>2. CASE remote' = remote
    BY <1>1, <1>2, PrefixReflexive
  <1>3. ASSUME NEW c \in Clones, PublishPush(c) \/ PublishPushFails(c)
        PROVE  IsPrefix(remote, remote')
    <2>1. remote' = remote \/ (Accepts(c) /\ remote' = LocalBranch(c))
      BY <1>3 DEF PublishPush, PublishPushFails
    <2>2. Accepts(c) /\ remote' = LocalBranch(c) => IsPrefix(remote, remote')
      BY DEF Accepts
    <2> QED
      BY <1>2, <2>1, <2>2
  <1>4. ASSUME NEW p \in Paths, OutsideCommit(p)
        PROVE  IsPrefix(remote, remote')
    <2> DEFINE t == [kind |-> "edit", by |-> Outsider, path |-> p,
                     n |-> nOutside + 1]
    <2>1. {t} \in SUBSET Change
      BY DEF Change, TypeOK
    <2>2. remote' = Append(remote, {t})
      BY <1>4 DEF OutsideCommit
    <2> HIDE DEF t
    <2> QED
      BY <1>1, <2>1, <2>2, PrefixReflexive, PrefixAppend
  <1>5. CASE UNCHANGED vars
    BY <1>2, <1>5 DEF vars
  <1> QED
    BY <1>2, <1>3, <1>4, <1>5, OnlyPushAndReport DEF Next

\* What one step of c does to the facts of Reported(c).
LEMMA ReportedStep ==
  ASSUME TypeOK, TypeOK', NEW c \in Clones, Reported(c),
         IsPrefix(remote, remote'),
         ToolStep(c) \/ ToolStart(c) \/ Abort(c) \/ Operator(c)
  PROVE  Reported(c)'
  <1> USE DEF Reported
  <1>1. CASE PublishPush(c)
    <2>1. remote' = head'[c] /\ remote' \in History /\ onBranch' = onBranch
      BY <1>1 DEF PublishPush, LocalBranch, TypeOK, fixed
    <2> QED
      BY <2>1, PrefixReflexive
  <1>2. CASE Operator(c)
    <2>1. /\ pc' = pc /\ onBranch' = onBranch
          /\ pc[c] = "idle" \/ head' = head
      BY <1>2 DEF Operator, OperatorEdit, OperatorStage, OperatorMoveAway,
         OperatorRecover, OperatorReconcile, control, fixed
    <2> QED
      BY <2>1, PrefixTransitive DEF TypeOK
  <1>3. CASE ~PublishPush(c) /\ ~Operator(c)
    <2>1. pc'[c] # "report" /\ onBranch' = onBranch
      <3> USE DEF Goto, Finish, TypeOK, fixed
      <3>1. CASE SyncFetch(c) \/ SyncStash(c) \/ SyncMerge(c)
        BY <3>1 DEF SyncFetch, AfterBehind, SyncStash, SyncMerge
      <3>7. CASE \/ SyncMergeFails(c) \/ SyncApply(c) \/ SyncApplyFails(c)
                 \/ SyncDrop(c)
        BY <3>7 DEF SyncMergeFails, SyncApply, SyncApplyFails, SyncDrop
      <3>2. CASE CheckpointStage(c) \/ CheckpointCommit(c) \/ GenerateSecrets(c)
        BY <3>2 DEF CheckpointStage, CheckpointCommit, GenerateSecrets
      <3>3. CASE Generate(c)
        BY <3>3 DEF Generate
      <3>4. CASE \E k \in {"push", "pushall"} : PushFetch(c, k)
        BY <3>4 DEF PushFetch
      <3>5. CASE PublishStage(c) \/ PublishCheck(c) \/ PublishCommit(c)
        BY <3>5 DEF PublishStage, PublishCheck, PublishCommit
      <3>6. CASE \/ PublishPushFails(c) \/ PublishRace(c) \/ PublishReport(c)
                 \/ Abort(c)
        BY <3>6 DEF PublishPushFails, PublishRace, PublishReport, Abort
      <3> QED
        BY <1>3, <3>1, <3>2, <3>3, <3>4, <3>5, <3>6, <3>7
           DEF ToolStep, ToolStart
    <2> QED
      BY <2>1
  <1> QED
    BY <1>1, <1>2, <1>3

LEMMA StepReported ==
  TypeOK /\ TypeOK' /\ ReportInv /\ [Next]_vars => ReportInv'
  <1> SUFFICES ASSUME TypeOK, TypeOK', ReportInv, [Next]_vars, NEW d \in Clones
               PROVE  Reported(d)'
    BY DEF ReportInv
  <1>1. Reported(d) /\ IsPrefix(remote, remote')
    BY RemoteGrows DEF ReportInv
  <1>2. CASE Untouched(d) /\ onBranch' = onBranch
    <2>1. IsPrefix(head[d], remote) => IsPrefix(head[d], remote')
      BY <1>1, PrefixTransitive DEF TypeOK
    <2> QED
      BY <1>1, <1>2, <2>1 DEF Reported, Untouched
  <1>3. ASSUME NEW c \in Clones,
               ToolStep(c) \/ ToolStart(c) \/ Abort(c) \/ Operator(c)
        PROVE  Reported(d)'
    <2>1. CASE d = c
      BY <1>1, <1>3, <2>1, ReportedStep
    <2>2. CASE d # c
      <3>1. Reported(c)'
        BY <1>1, <1>3, ReportedStep DEF ReportInv
      <3> QED
        BY <1>2, <1>3, <2>2, OthersUntouched, OnlyPushAndReport
    <2> QED
      BY <2>1, <2>2
  <1>4. CASE UNCHANGED vars \/ \E p \in Paths : OutsideCommit(p)
    BY <1>2, <1>4
       DEF Untouched, vars, OutsideCommit, clone, control, ghost, fixed
  <1> QED
    BY <1>3, <1>4 DEF Next

\* The steps of the log: a push extends it, a report makes a claim about it.
LEMMA StepLog ==
  TypeOK /\ TypeOK' /\ ReportInv /\ [Next]_vars
    => [Log!Next]_<<remote, claimed>>
  <1> SUFFICES ASSUME TypeOK, TypeOK', ReportInv, [Next]_vars
               PROVE  Log!Next \/ UNCHANGED <<remote, claimed>>
    OBVIOUS
  <1>1. IsPrefix(remote, remote')
    BY RemoteGrows
  <1>2. CASE claimed' = claimed
    <2>1. remote # remote' => Log!IsStrictPrefix(remote, remote')
      BY <1>1 DEF IsPrefix, Log!IsPrefix, Log!IsStrictPrefix
    <2> QED
      BY <1>2, <2>1 DEF Log!Next, Log!Extend
  <1>3. ASSUME NEW c \in Clones, PublishReport(c)
        PROVE  Log!Claim(c)
    <2>1. /\ remote' = remote
          /\ claimed' = [claimed EXCEPT ![c] = head[c]]
          /\ pc[c] = "report"
      BY <1>3 DEF PublishReport
    <2>2. IsPrefix(head[c], remote)
      BY <2>1 DEF ReportInv, Reported
    <2>3. /\ head[c] = SubSeq(remote, 1, Len(head[c]))
          /\ Len(head[c]) \in 0 .. Len(remote)
      BY <2>2, PrefixIsSubSeq DEF TypeOK
    <2> QED
      BY <2>1, <2>3 DEF Log!Claim
  <1>4. claimed' = claimed \/ \E c \in Clones : PublishReport(c)
    <2>1. CASE UNCHANGED vars \/ \E p \in Paths : OutsideCommit(p)
      BY <2>1 DEF vars, OutsideCommit, control
    <2> QED
      BY <2>1, OnlyPushAndReport DEF Next
  <1> QED
    BY <1>2, <1>3, <1>4 DEF Log!Next

\* With the published branch checked out in every clone, the shared branch is
\* only appended to, and what an operator was told is published is on it.
THEOREM ImplementsLog ==
  ASSUME HeadChoices = {TRUE}
  PROVE  Spec => LogSpec
  <1>1. Init => ReportInv /\ Log!Init
    <2>1. Init => ReportInv
      BY DEF Init, ReportInv, Reported
    <2>2. Init => Log!Init
      BY DEF Init, Log!Init, Base
    <2> QED
      BY <2>1, <2>2
  <1>2. TypeOK /\ TypeOK' /\ ReportInv /\ [Next]_vars => ReportInv'
    BY StepReported
  <1>3. TypeOK /\ TypeOK' /\ ReportInv /\ [Next]_vars
          => [Log!Next]_(Log!vars)
    BY StepLog DEF Log!vars
  <1> QED
    BY <1>1, <1>2, <1>3, TypeCorrect, PTL DEF Spec, LogSpec, Log!Spec

-----------------------------------------------------------------------------
(* Nothing enters a commit that nobody handed to git *)

Known(c) == Changes(head[c]) \cup index[c] \cup Entries(stash[c])

\* What git knows of the files that no commit had added, and what a sync may
\* stage of them, was handed to it.
Private(c) ==
  /\ \A t \in Known(c) : t.path \in NewPaths => t.path \in adopted[c]
  /\ dirty[c] \cap NewPaths \subseteq adopted[c]

\* Git comes to know what was staged, adopted or generated.
LEMMA PrivateFrame ==
  ASSUME NEW c \in Clones, Private(c), adopted[c] \subseteq adopted'[c],
         \A t \in Known(c)' :
           t \in Known(c) \/ t.path \in dirty[c] \cup adopted'[c] \cup GenPaths,
         dirty'[c] \subseteq dirty[c] \cup PathsOf(Known(c))
  PROVE  Private(c)'
  <1>1. \A p \in PathsOf(Known(c)) : p \in NewPaths => p \in adopted[c]
    BY DEF Private, PathsOf
  <1>2. ASSUME NEW t \in Known(c)', t.path \in NewPaths
        PROVE  t.path \in adopted'[c]
    BY <1>2, ConstantsAssumption DEF Private
  <1> QED
    BY <1>1, <1>2 DEF Private

LEMMA PopKnown ==
  ASSUME TypeOK, NEW c \in Clones, stash[c] # << >>
  PROVE  /\ Entries(Front(stash[c])) \subseteq Entries(stash[c])
         /\ Newest(c).staged \subseteq Entries(stash[c])
         /\ Newest(c).files \subseteq Entries(stash[c])
  BY FrontEntries DEF TypeOK, Newest

\* A sync commits only tracked files, and what it merges was committed.
LEMMA SyncKeepsPrivate ==
  ASSUME TypeOK, NEW c \in Clones, Private(c),
         \/ SyncFetch(c) \/ SyncStash(c) \/ SyncMerge(c) \/ SyncMergeFails(c)
         \/ SyncApply(c) \/ SyncApplyFails(c) \/ SyncDrop(c)
  PROVE  Private(c)'
  <1> USE DEF ghost
  <1>1. CASE SyncFetch(c)
    <2>1. /\ UNCHANGED <<head, index, stash, adopted>>
          /\ dirty'[c] = DirtyPaths(c)
      BY <1>1 DEF SyncFetch, TypeOK
    <2>2. DirtyPaths(c) \subseteq PathsOf(Known(c))
      BY DEF DirtyPaths, Tracked, Known, PathsOf
    <2> QED
      BY <2>1, <2>2, PrivateFrame DEF Known
  <1>2. CASE SyncStash(c)
    <2> DEFINE entry == [files  |-> At(worktree[c], dirty[c]),
                         staged |-> At(index[c], dirty[c]),
                         base   |-> Len(head[c])]
    <2>1. /\ UNCHANGED <<head, adopted, dirty>>
          /\ stash'[c] = Append(stash[c], entry)
          /\ index'[c] \subseteq index[c]
      BY <1>2 DEF SyncStash, TypeOK
    <2>2. entry \in Entry
      BY DEF Entry, At, TypeOK, History
    <2>3. Entries(stash'[c]) = Entries(stash[c]) \cup entry.files \cup entry.staged
      <3> HIDE DEF entry
      <3> QED
        BY <2>1, <2>2, AppendEntries DEF TypeOK
    <2>4. \A t \in entry.files \cup entry.staged : t.path \in dirty[c]
      BY DEF At
    <2> HIDE DEF entry
    <2> QED
      BY <2>1, <2>3, <2>4, PrivateFrame DEF Known
  <1>3. CASE SyncMerge(c)
    <2>1. /\ UNCHANGED <<index, stash, dirty>>
          /\ head'[c] = tracking[c]
          /\ adopted'[c] = adopted[c] \cup PathsOf(Changes(tracking[c]))
      BY <1>3 DEF SyncMerge, TypeOK
    <2> QED
      BY <2>1, PrivateFrame DEF Known, PathsOf
  <1>4. CASE SyncMergeFails(c)
    <2>1. UNCHANGED <<head, dirty, adopted>>
      BY <1>4 DEF SyncMergeFails, clone
    <2>2. CASE UNCHANGED <<worktree, index, stash>>
      BY <2>1, <2>2, PrivateFrame DEF Known
    <2>3. CASE ~UNCHANGED <<worktree, index, stash>>
      <3>1. /\ dirty[c] # {} /\ pc[c] = "merge"
            /\ index'[c] = index[c] \cup Newest(c).staged
            /\ stash'[c] = Front(stash[c])
        BY <1>4, <2>3 DEF SyncMergeFails, TypeOK
      <3>2. stash[c] # << >>
        BY <3>1 DEF TypeOK
      <3> QED
        BY <2>1, <3>1, <3>2, PopKnown, PrivateFrame DEF Known
    <2> QED
      BY <2>2, <2>3
  <1>5. CASE SyncApply(c)
    <2>1. /\ UNCHANGED <<head, stash, dirty, adopted>> /\ pc[c] = "apply"
          /\ index'[c] \subseteq index[c] \cup Newest(c).staged
      BY <1>5 DEF SyncApply, Goto, TypeOK
    <2>2. stash[c] # << >>
      BY <2>1 DEF TypeOK
    <2> QED
      BY <2>1, <2>2, PopKnown, PrivateFrame DEF Known
  <1>6. CASE SyncApplyFails(c)
    <2>1. UNCHANGED <<head, index, stash, dirty, adopted>>
      BY <1>6 DEF SyncApplyFails
    <2> QED
      BY <2>1, PrivateFrame DEF Known
  <1>7. CASE SyncDrop(c)
    <2>1. /\ UNCHANGED <<head, index, dirty, adopted>> /\ pc[c] = "drop"
          /\ stash'[c] = Front(stash[c])
      BY <1>7 DEF SyncDrop, Goto, TypeOK
    <2>2. stash[c] # << >>
      BY <2>1 DEF TypeOK
    <2> QED
      BY <2>1, <2>2, PopKnown, PrivateFrame DEF Known
  <1> QED
    BY <1>1, <1>2, <1>3, <1>4, <1>5, <1>6, <1>7

LEMMA CommitKnown ==
  ASSUME TypeOK, NEW c \in Clones, CommitIndex(c)
  PROVE  Changes(head'[c]) \cup index'[c] \subseteq Changes(head[c]) \cup index[c]
  <1>1. Changes(head'[c]) = Changes(head[c]) \cup index[c]
    BY AppendChanges DEF TypeOK, CommitIndex
  <1> QED
    BY <1>1 DEF TypeOK, CommitIndex

\* A checkpoint stages what the sync saw, a publication its outputs; with
\* --push-all the operator hands over everything.
LEMMA CommandsKeepPrivate ==
  ASSUME TypeOK, NEW c \in Clones, Private(c),
         \/ CheckpointStage(c) \/ CheckpointCommit(c) \/ Generate(c)
         \/ GenerateSecrets(c) \/ \E k \in {"push", "pushall"} : PushFetch(c, k)
         \/ PublishStage(c) \/ PublishCheck(c) \/ PublishCommit(c)
         \/ PublishPush(c) \/ PublishPushFails(c) \/ PublishRace(c)
         \/ PublishReport(c) \/ Abort(c)
  PROVE  Private(c)'
  <1> USE DEF ghost, clone
  <1>1. CASE CheckpointStage(c)
    <2> DEFINE P == CheckpointPaths(c)
    <2>1. /\ UNCHANGED <<head, stash, dirty>>
          /\ index'[c] = (index[c] \ At(index[c], P)) \cup At(worktree[c], P)
          /\ adopted[c] \subseteq adopted'[c]
          /\ op[c] # "sync" => PathsOf(worktree[c]) \subseteq adopted'[c]
      BY <1>1 DEF CheckpointStage, StagePaths, TypeOK
    <2>2. op[c] = "sync" => P = dirty[c]
      BY DEF CheckpointPaths
    <2>3. \A t \in index'[c] : t \in index[c] \/ t.path \in dirty[c] \cup adopted'[c]
      BY <2>1, <2>2 DEF At, PathsOf
    <2> QED
      BY <2>1, <2>3, PrivateFrame DEF Known
  <1>2. CASE CheckpointCommit(c) \/ PublishCommit(c)
    <2>1. UNCHANGED <<stash, dirty, adopted>>
      BY <1>2 DEF CheckpointCommit, PublishCommit
    <2>2. UNCHANGED <<head, index>> \/ CommitIndex(c)
      BY <1>2 DEF CheckpointCommit, PublishCommit
    <2> QED
      BY <2>1, <2>2, CommitKnown, PrivateFrame DEF Known
  <1>3. CASE PublishStage(c)
    <2> DEFINE P == PublishPaths(c)
    <2>1. /\ UNCHANGED <<head, stash, dirty>>
          /\ index'[c] = (index[c] \ At(index[c], P)) \cup At(worktree[c], P)
          /\ adopted[c] \subseteq adopted'[c]
          /\ op[c] = "pushall" => PathsOf(worktree[c]) \subseteq adopted'[c]
      BY <1>3 DEF PublishStage, StagePaths, TypeOK
    <2>2. op[c] # "pushall" => P = GenPaths
      BY DEF PublishPaths
    <2>3. \A t \in index'[c] : t \in index[c] \/ t.path \in GenPaths \cup adopted'[c]
      BY <2>1, <2>2 DEF At, PathsOf
    <2> QED
      BY <2>1, <2>3, PrivateFrame DEF Known
  <1>4. CASE PublishRace(c)
    <2>1. UNCHANGED <<stash, dirty, adopted>>
      BY <1>4 DEF PublishRace
    <2>2. \/ UNCHANGED <<head, index>>
          \/ head'[c] = Front(head[c]) /\ index'[c] = {}
      BY <1>4 DEF PublishRace, TypeOK
    <2>3. Changes(Front(head[c])) \subseteq Changes(head[c])
      BY FrontChanges DEF TypeOK
    <2> QED
      BY <2>1, <2>2, <2>3, PrivateFrame DEF Known
  <1>5. CASE \/ Generate(c) \/ GenerateSecrets(c)
             \/ \E k \in {"push", "pushall"} : PushFetch(c, k)
             \/ PublishCheck(c) \/ PublishPush(c) \/ PublishPushFails(c)
             \/ PublishReport(c) \/ Abort(c)
    <2>1. UNCHANGED <<head, index, stash, dirty, adopted>>
      BY <1>5 DEF Generate, GenerateSecrets, PushFetch, PublishCheck, PublishPush,
         PublishPushFails, PublishReport, Abort
    <2> QED
      BY <2>1, PrivateFrame DEF Known
  <1> QED
    BY <1>1, <1>2, <1>3, <1>4, <1>5

LEMMA OperatorKeepsPrivate ==
  ASSUME TypeOK, NEW c \in Clones, Private(c), Operator(c)
  PROVE  Private(c)'
  <1> USE DEF ghost, control
  <1>1. ASSUME NEW p \in HandPaths \cup NewPaths,
               OperatorEdit(c, p) \/ OperatorMoveAway(c, p)
        PROVE  Private(c)'
    <2>1. UNCHANGED <<head, index, stash, dirty, adopted>>
      BY <1>1 DEF OperatorEdit, OperatorMoveAway
    <2> QED
      BY <2>1, PrivateFrame DEF Known
  <1>2. ASSUME NEW p \in HandPaths \cup NewPaths, OperatorStage(c, p)
        PROVE  Private(c)'
    <2>1. /\ UNCHANGED <<head, stash, dirty>>
          /\ index'[c] = (index[c] \ At(index[c], {p})) \cup At(worktree[c], {p})
          /\ adopted'[c] = adopted[c] \cup {p}
      BY <1>2 DEF OperatorStage, StagePaths, TypeOK
    <2> QED
      BY <2>1, PrivateFrame DEF Known, At
  <1>3. CASE OperatorRecover(c)
    <2>1. /\ UNCHANGED <<head, index, dirty, adopted>>
          /\ stash[c] # << >> /\ stash'[c] = Front(stash[c])
      BY <1>3 DEF OperatorRecover, TypeOK
    <2> QED
      BY <2>1, PopKnown, PrivateFrame DEF Known
  <1>4. CASE OperatorReconcile(c)
    <2> DEFINE local == Changes(head[c]) \ Changes(tracking[c])
    <2>1. /\ UNCHANGED <<index, stash, dirty>>
          /\ head'[c] \in {tracking[c], Append(tracking[c], local)}
          /\ adopted'[c] = adopted[c] \cup PathsOf(Changes(tracking[c]))
      BY <1>4 DEF OperatorReconcile, TypeOK
    <2>2. tracking[c] \in History /\ local \in SUBSET Change
      BY ChangesType DEF TypeOK
    <2>3. Changes(Append(tracking[c], local)) = Changes(tracking[c]) \cup local
      BY <2>2, AppendChanges
    <2>4. \A t \in Changes(head'[c]) :
            t \in Changes(head[c]) \/ t.path \in adopted'[c]
      BY <2>1, <2>3 DEF PathsOf
    <2> QED
      BY <2>1, <2>4, PrivateFrame DEF Known
  <1> QED
    BY <1>1, <1>2, <1>3, <1>4 DEF Operator

LEMMA StepPrivate ==
  ASSUME TypeOK, \A c \in Clones : Private(c), [Next]_vars, NEW d \in Clones
  PROVE  Private(d)'
  <1>1. CASE Untouched(d)
    BY <1>1 DEF Untouched, Private, Known
  <1>2. ASSUME NEW c \in Clones,
               ToolStep(c) \/ ToolStart(c) \/ Abort(c) \/ Operator(c)
        PROVE  Private(d)'
    <2>1. CASE d = c
      BY <1>2, <2>1, SyncKeepsPrivate, CommandsKeepPrivate, OperatorKeepsPrivate
         DEF ToolStep, ToolStart
    <2> QED
      BY <1>1, <1>2, <2>1, OthersUntouched
  <1>3. CASE UNCHANGED vars \/ \E p \in Paths : OutsideCommit(p)
    BY <1>1, <1>3 DEF Untouched, vars, OutsideCommit, clone, control, ghost
  <1> QED
    BY <1>2, <1>3 DEF Next

\* No commit of HEAD holds a file that no commit had added before, unless the
\* operator staged it, asked for --push-all, or merged a commit that has it.
THEOREM UntrackedFilesStayPrivate == Spec => []UntrackedStaysPrivate
  <1> DEFINE PrivateInv == \A c \in Clones : Private(c)
  <1>1. Init => PrivateInv
    <2> SUFFICES ASSUME Init, NEW c \in Clones PROVE Private(c)
      OBVIOUS
    <2>1. Changes(Base) = Base[1]
      BY DEF Changes, Base
    <2>2. \A t \in Base[1] : t.path \notin NewPaths
      BY ConstantsAssumption DEF Base
    <2>3. Entries(<< >>) = {}
      BY DEF Entries
    <2> QED
      BY <2>1, <2>2, <2>3 DEF Init, Private, Known
  <1>2. TypeOK /\ PrivateInv /\ [Next]_vars => PrivateInv'
    BY StepPrivate
  <1>3. PrivateInv => UntrackedStaysPrivate
    BY DEF Private, Known, UntrackedStaysPrivate, PathsOf
  <1> HIDE DEF PrivateInv
  <1> QED
    BY <1>1, <1>2, <1>3, TypeCorrect, PTL DEF Spec

-----------------------------------------------------------------------------
(* A publication leaves no output behind *)

Outputs(S) == {t \in S : t.kind = "gen"}

\* Once staged, every new output is in the index, and once committed none is
\* a change of the files.
OutputsCommitted(c) ==
  /\ pc[c] \in {"check", "pcommit"} => Outputs(worktree[c]) \subseteq index[c]
  /\ pc[c] \in {"push", "report"} => Outputs(worktree[c]) = {}

\* An operator at work beside a publication adds no output to the files.
LEMMA OperatorKeepsOutputs ==
  ASSUME TypeOK, NEW c \in Clones, Operator(c), OutputsCommitted(c)
  PROVE  OutputsCommitted(c)'
  <1>1. ASSUME NEW p \in HandPaths \cup NewPaths, OperatorEdit(c, p)
        PROVE  OutputsCommitted(c)'
    <2> DEFINE t == [kind |-> "edit", by |-> c, path |-> p, n |-> nEdit[c] + 1]
    <2>1. worktree'[c] = worktree[c] \cup {t} /\ pc' = pc /\ index' = index
      BY <1>1 DEF OperatorEdit, TypeOK, control
    <2>2. Outputs(worktree'[c]) = Outputs(worktree[c])
      BY <2>1 DEF Outputs
    <2> QED
      BY <2>1, <2>2 DEF OutputsCommitted
  <1>2. CASE pc[c] = "idle" /\ pc' = pc
    BY <1>2 DEF OutputsCommitted
  <1> QED
    BY <1>1, <1>2 DEF Operator, OperatorStage, OperatorMoveAway, OperatorRecover,
       OperatorReconcile, control

LEMMA CommandsKeepOutputs ==
  ASSUME TypeOK, NEW c \in Clones, OutputsCommitted(c),
         ToolStep(c) \/ ToolStart(c) \/ Abort(c)
  PROVE  OutputsCommitted(c)'
  <1> USE DEF Goto, TypeOK
  <1>1. CASE PublishStage(c)
    <2>1. /\ worktree' = worktree /\ pc'[c] = "check"
          /\ index'[c] = (index[c] \ At(index[c], PublishPaths(c)))
                            \cup At(worktree[c], PublishPaths(c))
      BY <1>1 DEF PublishStage, StagePaths
    <2>2. GenPaths \subseteq PublishPaths(c)
      BY DEF PublishPaths, Paths
    <2>3. \A t \in Outputs(worktree[c]) : t.path \in GenPaths
      BY DEF Outputs, Change
    <2> QED
      BY <2>1, <2>2, <2>3 DEF OutputsCommitted, Outputs, At
  <1>2. CASE PublishCheck(c)
    <2>1. /\ worktree' = worktree /\ index' = index /\ pc[c] = "check"
          /\ \/ pc'[c] = "push" /\ index[c] = {}
             \/ pc'[c] \in {"pcommit", "idle"}
      BY <1>2 DEF PublishCheck, Finish
    <2> QED
      BY <2>1 DEF OutputsCommitted
  <1>3. CASE PublishCommit(c)
    <2>1. /\ worktree'[c] = worktree[c] \ index[c]
          /\ pc[c] = "pcommit" /\ pc'[c] = "push"
      BY <1>3 DEF PublishCommit, CommitIndex
    <2> QED
      BY <2>1 DEF OutputsCommitted, Outputs
  <1>4. CASE PublishPush(c)
    <2>1. worktree' = worktree /\ pc[c] = "push" /\ pc'[c] = "report"
      BY <1>4 DEF PublishPush
    <2> QED
      BY <2>1 DEF OutputsCommitted
  <1>5. CASE pc'[c] \notin {"check", "pcommit", "push", "report"}
    BY <1>5 DEF OutputsCommitted
  <1>6. CASE SyncFetch(c) \/ SyncStash(c) \/ SyncMerge(c) \/ SyncMergeFails(c)
    BY <1>5, <1>6 DEF SyncFetch, AfterBehind, SyncStash, SyncMerge,
       SyncMergeFails, Finish
  <1>7. CASE \/ SyncApply(c) \/ SyncApplyFails(c) \/ SyncDrop(c)
             \/ CheckpointStage(c) \/ CheckpointCommit(c) \/ GenerateSecrets(c)
    BY <1>5, <1>7 DEF SyncApply, SyncApplyFails, SyncDrop, CheckpointStage,
       CheckpointCommit, GenerateSecrets, Finish
  <1>8. CASE Generate(c)
    BY <1>5, <1>8 DEF Generate, Finish
  <1>9. CASE \E k \in {"push", "pushall"} : PushFetch(c, k)
    BY <1>5, <1>9 DEF PushFetch, Finish
  <1>10. CASE \/ PublishPushFails(c) \/ PublishRace(c) \/ PublishReport(c)
              \/ Abort(c)
    BY <1>5, <1>10 DEF PublishPushFails, PublishRace, PublishReport, Abort,
       Finish
  <1> QED
    BY <1>1, <1>2, <1>3, <1>4, <1>6, <1>7, <1>8, <1>9, <1>10
       DEF ToolStep, ToolStart

LEMMA StepOutputs ==
  ASSUME TypeOK, \A c \in Clones : OutputsCommitted(c), [Next]_vars,
         NEW d \in Clones
  PROVE  OutputsCommitted(d)'
  <1>1. CASE Untouched(d)
    BY <1>1 DEF Untouched, OutputsCommitted
  <1>2. ASSUME NEW c \in Clones,
               ToolStep(c) \/ ToolStart(c) \/ Abort(c) \/ Operator(c)
        PROVE  OutputsCommitted(d)'
    <2>1. CASE d = c
      BY <1>2, <2>1, CommandsKeepOutputs, OperatorKeepsOutputs
    <2> QED
      BY <1>1, <1>2, <2>1, OthersUntouched
  <1>3. CASE UNCHANGED vars \/ \E p \in Paths : OutsideCommit(p)
    BY <1>1, <1>3 DEF Untouched, vars, OutsideCommit, clone, control, ghost
  <1> QED
    BY <1>2, <1>3 DEF Next

\* With the published branch checked out in every clone, a push that went
\* through has published HEAD and has left no generated output uncommitted.
THEOREM PublicationIsComplete ==
  ASSUME HeadChoices = {TRUE}
  PROVE  Spec => []PushedIsComplete
  <1> DEFINE OutputsInv == \A c \in Clones : OutputsCommitted(c)
  <1>1. Init => OutputsInv /\ ReportInv
    BY DEF Init, OutputsCommitted, ReportInv, Reported
  <1>2. TypeOK /\ OutputsInv /\ [Next]_vars => OutputsInv'
    BY StepOutputs
  <1>3. TypeOK /\ TypeOK' /\ ReportInv /\ [Next]_vars => ReportInv'
    BY StepReported
  <1>4. OutputsInv /\ ReportInv => PushedIsComplete
    BY DEF OutputsCommitted, Outputs, ReportInv, Reported, PushedIsComplete
  <1> HIDE DEF OutputsInv
  <1> QED
    BY <1>1, <1>2, <1>3, <1>4, TypeCorrect, PTL DEF Spec
=============================================================================
