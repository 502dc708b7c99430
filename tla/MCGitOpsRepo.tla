---------------------------- MODULE MCGitOpsRepo ----------------------------
(* Instances of GitOpsRepo for TLC; the bounds are given in the cfg files. *)
EXTENDS GitOpsRepo, TLC

CloneSymmetry == Permutations(Clones)
=============================================================================
