--------------------------- MODULE MCArgoReadiness ---------------------------
(* Instances of ArgoReadiness for TLC; the bounds are given in the cfg files. *)
EXTENDS ArgoReadiness, TLC

CONSTANTS top, chart, stack

\* A root of the app-of-apps with a chart and haac-stack under it.
MCParent == (top :> None) @@ (chart :> top) @@ (stack :> top)
MCOrder == (top :> 1) @@ (chart :> 2) @@ (stack :> 3)

\* The first commit that has each Application: all are old, the chart is new
\* in the published commit, or no commit has it.
AllOld == (top :> 1) @@ (chart :> 1) @@ (stack :> 1)
NewChart == (top :> 1) @@ (chart :> 2) @@ (stack :> 1)
NoChart == (top :> 1) @@ (chart :> 9) @@ (stack :> 1)

\* What the previous commit left behind: haac-stack failed, or the chart
\* failed before its syncOptions allowed large CRDs.
OldFailures == {<<stack, "other">>}
OldOptions == {<<chart, "annotation">>}

\* Such a leftover is fault enough for the run that looks at liveness.
LiveInit ==
  Init /\ ((\E a \in Apps : app[a].phase = "Failed") => faults = 0)
LiveSpec == LiveInit /\ [][Next]_vars /\ Fairness
=============================================================================
