------------------------------ MODULE RepoLock ------------------------------
(***************************************************************************)
(* What the process-wide repo lock of localrepolock.go promises: each      *)
(* repository is held by at most one caller, who alone can give it back.   *)
(* How a path becomes a key, the slot table and cancellation are detail    *)
(* of the implementation (LocalRepoLock), which is shown to refine this.   *)
(***************************************************************************)
CONSTANTS Callers,      \* goroutines that ask for a repository
          Repos         \* the repositories on disk

VARIABLE holders        \* holders[r]: {} or the one caller that holds r

LockInit == holders = [r \in Repos |-> {}]

Take(c, r) == /\ holders[r] = {}
              /\ holders' = [holders EXCEPT ![r] = {c}]

Give(c, r) == /\ holders[r] = {c}
              /\ holders' = [holders EXCEPT ![r] = {}]

LockNext == \E c \in Callers, r \in Repos : Take(c, r) \/ Give(c, r)

LockSpec == LockInit /\ [][LockNext]_holders
=============================================================================
