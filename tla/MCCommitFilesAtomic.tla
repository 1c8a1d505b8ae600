------------------------- MODULE MCCommitFilesAtomic -------------------------
(* An instance of CommitFilesAtomic for TLC: two converges that share one  *)
(* of their files.                                                         *)
EXTENDS CommitFilesAtomic, TLC

CONSTANTS c1, c2, f1, f2, f3

Two == {c1, c2}
Three == {f1, f2, f3}
Overlapping == (c1 :> {f1, f2}) @@ (c2 :> {f2, f3})
=============================================================================
