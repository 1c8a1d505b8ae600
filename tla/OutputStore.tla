----------------------------- MODULE OutputStore -----------------------------
(***************************************************************************)
(* Storing one construction output on the branch named by its content      *)
(* (gitblob.go): clone, commit on the branch's tip or, when there is no    *)
(* branch, on the head of the default branch, and push without force.      *)
(* Author and time of the commit are fixed, so that its id is a function   *)
(* of its parent and its message, which carries the caller's key.          *)
(***************************************************************************)
EXTENDS ErrorKinds

CONSTANTS Storers,    \* callers that store the same content
          NoCommit,
          MaxFaults   \* bound on calls that fail

VARIABLES head,       \* the commit at the head of the default branch
          onDefault,  \* the default branch's tree holds the content already
          output,     \* the tip of the content's branch
          pushes,     \* pushes whose caller gave up, not yet served
          pstore,     \* how far each attempt is
          cloned,     \* the default head and the branch's tip that it cloned
          stored,     \* what it returned
          address,    \* the commit it returned as the content's address
          faults

OutputCommits == [base : Nat, key : Storers]

InitStore(crew) ==
    /\ onDefault \in IF crew \intersect Storers = {} THEN {FALSE} ELSE BOOLEAN
    /\ output = NoCommit
    /\ pushes = {}
    /\ pstore = [o \in Storers |-> IF o \in crew THEN "clone" ELSE "done"]
    /\ cloned = [o \in Storers |-> [head |-> 0, tip |-> NoCommit]]
    /\ stored = [o \in Storers |-> "none"]
    /\ address = [o \in Storers |-> NoCommit]
-----------------------------------------------------------------------------
StoreDone(o, result, commit) == /\ pstore' = [pstore EXCEPT ![o] = "done"]
                                /\ stored' = [stored EXCEPT ![o] = result]
                                /\ address' = [address EXCEPT ![o] = commit]

StoreStep(o, step) == pstore' = [pstore EXCEPT ![o] = step] /\ UNCHANGED <<stored, address>>

StoreFailed(o, kind) ==
    IF Retried(kind, {}, 1, 0) THEN StoreStep(o, "clone") ELSE StoreDone(o, kind, NoCommit)

StoreFault == faults < MaxFaults /\ faults' = faults + 1

Clone(o) == /\ pstore[o] = "clone"
            /\ cloned' = [cloned EXCEPT ![o] = [head |-> head, tip |-> output]]
            /\ StoreStep(o, "commit")
            /\ UNCHANGED <<onDefault, output, pushes, faults>>

\* commitAndPushBlobContent up to the push: go-git refuses a commit whose tree
\* is its parent's, which is a hit when the parent is the content's branch.
Commit(o) ==
    /\ pstore[o] = "commit"
    /\ \/ cloned[o].tip # NoCommit /\ StoreDone(o, "ok", cloned[o].tip)
       \/ cloned[o].tip = NoCommit /\ onDefault /\ StoreFailed(o, "Infrastructure")
       \/ cloned[o].tip = NoCommit /\ ~onDefault /\ StoreStep(o, "push")
    /\ UNCHANGED <<onDefault, output, pushes, cloned, faults>>

\* GitHub: an unforced push of a commit that does not descend from the tip.
Pushable(c) == output \in {NoCommit, c}
ServePush(c) == output' = IF Pushable(c) THEN c ELSE output
PushResult(c) == IF Pushable(c) THEN "ok" ELSE "Conflict"

Made(o) == [base |-> cloned[o].head, key |-> o]

Push(o) ==
    /\ pstore[o] = "push"
    /\ \/ /\ ServePush(Made(o))
          /\ LET result == PushResult(Made(o))
             IN  StoreDone(o, result, IF result = "ok" THEN Made(o) ELSE NoCommit)
          /\ UNCHANGED <<pushes, faults>>
       \/ /\ StoreFault /\ StoreFailed(o, "Transient")
          /\ \/ ServePush(Made(o)) /\ UNCHANGED pushes
             \/ pushes' = pushes \union {Made(o)} /\ UNCHANGED output
    /\ UNCHANGED <<onDefault, cloned>>

\* The clone or the push is refused unserved (ClassifyGitError,
\* classifyPushError).
StoreRefused(o) == /\ pstore[o] \in {"clone", "push"}
                   /\ StoreFault
                   /\ \E kind \in {"Transient", "Auth", "Infrastructure"} : StoreFailed(o, kind)
                   /\ UNCHANGED <<onDefault, output, pushes, cloned>>

ServeLatePush == \E c \in pushes : /\ ServePush(c)
                                   /\ pushes' = pushes \ {c}
    /\ UNCHANGED <<onDefault, pstore, cloned, stored, address, faults>>

StoreSteps(o) == Clone(o) \/ Commit(o) \/ Push(o)

NextStore == (\E o \in Storers : StoreSteps(o) \/ StoreRefused(o)) \/ ServeLatePush
-----------------------------------------------------------------------------
(* Type correctness; and a caller that still runs has no answer.           *)
StoreTypeOK ==
    /\ onDefault \in BOOLEAN
    /\ output \in OutputCommits \union {NoCommit}
    /\ pushes \subseteq OutputCommits
    /\ pstore \in [Storers -> {"clone", "commit", "push", "done"}]
    /\ cloned \in [Storers -> [head : Nat, tip : OutputCommits \union {NoCommit}]]
    /\ stored \in [Storers -> Kinds \union {"none", "ok"}]
    /\ address \in [Storers -> OutputCommits \union {NoCommit}]
    /\ \A o \in Storers : pstore[o] # "done" => stored[o] = "none"

(* Whoever stores a content, on whatever head and after whatever lost      *)
(* answers, is given one and the same address, and it is the branch's tip; *)
(* and one who lost a race finds the content stored when it runs again.    *)
OneAddress ==
    \A o \in Storers :
        /\ stored[o] = "ok" => output = address[o]
        /\ stored[o] = "Conflict" => output # NoCommit
=============================================================================
