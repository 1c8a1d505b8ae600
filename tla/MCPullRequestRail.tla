-------------------------- MODULE MCPullRequestRail --------------------------
(* Instances of PullRequestRail for TLC: four activities around one        *)
(* session branch.                                                         *)
EXTENDS PullRequestRail, TLC

CONSTANTS c1, c2, c3, c4, k1

Four == {c1, c2, c3, c4}
Plan(op3, op4) == (c1 :> "create") @@ (c2 :> "open") @@ (c3 :> op3) @@ (c4 :> op4)

AllPlans == {Plan("merge", "delete"), Plan("merge", "close"), Plan("merge", "protect"),
             Plan("review", "status")}
OneRun == {k1}
=============================================================================
