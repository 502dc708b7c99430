---------------------------- MODULE PublishedLog ----------------------------
(***************************************************************************)
(* What publishing promises the cluster, with Git, worktrees and operators *)
(* taken away.  ArgoCD reconciles one shared history of commits.  A        *)
(* publisher may be told "published up to here"; from then on that claim   *)
(* names entries of the history, and the history only ever grows, so a     *)
(* claim once true stays true.  GitOpsRepo.tla is shown to implement this. *)
(***************************************************************************)
EXTENDS Sequences, SequencesExt

CONSTANT Publishers   \* who may be told that a publication succeeded

VARIABLES log,        \* the shared history, oldest entry first
          claim       \* claim[p]: the history p was last told is published

vars == <<log, claim>>

Init ==
  /\ Len(log) = 1
  /\ claim = [p \in Publishers |-> << >>]

\* Somebody appends; nothing that was published is rewritten.
Extend ==
  /\ IsStrictPrefix(log, log')
  /\ UNCHANGED claim

\* p is told that a history is published: it is part of the log already.
Claim(p) ==
  /\ \E n \in 0 .. Len(log) :
       claim' = [claim EXCEPT ![p] = SubSeq(log, 1, n)]
  /\ UNCHANGED log

Next == Extend \/ \E p \in Publishers : Claim(p)

Spec == Init /\ [][Next]_vars
=============================================================================
