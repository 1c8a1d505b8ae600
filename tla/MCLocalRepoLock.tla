-------------------------- MODULE MCLocalRepoLock --------------------------
(* An instance of LocalRepoLock for TLC: two spellings of a repository     *)
(* that is there from the start, and one that is initialised while the     *)
(* server runs.                                                            *)
EXTENDS LocalRepoLock

MCPaths == {"repo", "link", "late"}
MCRepos == {"repo", "late"}
MCRealPath == [p \in Paths |-> IF p = "link" THEN "repo" ELSE p]
MCCreated == {"repo"}
=============================================================================
