---------------------------- MODULE MCHostedGitHub ----------------------------
(* An instance of HostedGitHub for TLC: crews that meet in one component,  *)
(* and one of a seat beside a store.                                       *)
EXTENDS HostedGitHub, TLC

CONSTANTS p1, p2, p3, l1, s1, s2, d1, d2, o1, o2, w1, w2, x, y

Names == 1 .. 4
InvalidName == {3}
Wants == (p1 :> 1) @@ (p2 :> 1) @@ (p3 :> 3)
Files == (s1 :> x) @@ (s2 :> y)
AllOrSome == {{1, 2, 4}, {2, 4}, {4}}
Meetings == {{p1, p2}, {p1, p3, l1}, {s1, s2}, {d1, d2}, {o1, o2, s1}, {p1, s1, o1}, {w1, w2}}
=============================================================================
