--------------------------- MODULE SessionBranch ---------------------------
(***************************************************************************)
(* GitStore (gitdata.go) on a session branch that comes and goes: writers  *)
(* of ReadSubtree and CommitSubtree against a branch that is first read    *)
(* through the default branch, is born by the first commit or by the       *)
(* rail's CreateBranch, and is merged, closed and deleted under them.      *)
(*                                                                         *)
(* A commit is the sequence of changes that lead to it, so that ancestor   *)
(* is prefix; an absent ref is NoBranch, which is also the empty base      *)
(* token "".  The managed subtree is one document that every mutation      *)
(* rewrites, so branches that diverged cannot be merged.                   *)
(***************************************************************************)
EXTENDS Naturals, Sequences, SequencesExt

CONSTANTS Writers,      \* callers of GitStore, named by their mutation
          Merge,        \* a merge commit
          Direct,       \* a commit made on the default branch
          NoBranch,     \* an absent ref, and the empty base token
          MaxFaults     \* bound on steps of the rail, direct commits and losses

Changes == Writers \union {Merge, Direct}
Commits == Seq(Changes)
Refs == Commits \union {NoBranch}

VARIABLES main,         \* the default branch, which HEAD names
          session,      \* the branch the store targets
          psess,        \* how far each writer is
          base,         \* the base token of its last read
          exists,       \* ... and whether that read said the branch exists
          work,         \* the commit it has made and will push
          told,         \* what its last call returned
          acked,        \* the writers told that their commit landed
          dropped,      \* the changes deleted with an unmerged branch
          deletes,      \* whether the rail deletes branches, in this behaviour
          faults        \* steps of the rail, direct commits and losses so far

Answers == {"none", "ok", "conflict", "error"}

(* Type correctness; an absent branch is never read with a base that the   *)
(* reader is told does not exist.                                          *)
SessionTypeOK ==
          /\ main \in Refs /\ session \in Refs
          /\ psess \in [Writers -> {"away", "idle", "read", "push"}]
          /\ base \in [Writers -> Refs]
          /\ exists \in [Writers -> BOOLEAN]
          /\ work \in [Writers -> Refs]
          /\ told \in [Writers -> Answers]
          /\ acked \in SUBSET Writers
          /\ dropped \in SUBSET Writers
          /\ deletes \in BOOLEAN
          /\ \A w \in Writers : exists[w] <=> base[w] # NoBranch

(* The writers of the crew are about to call, on an empty repository or a  *)
(* living one.                                                             *)
InitSession(crew) ==
    /\ main \in {NoBranch} \union {c \in {<<>>} : crew \intersect Writers # {}}
    /\ session = NoBranch
    /\ psess = [w \in Writers |-> IF w \in crew THEN "idle" ELSE "away"]
    /\ base = [w \in Writers |-> NoBranch]
    /\ exists = [w \in Writers |-> FALSE]
    /\ work = [w \in Writers |-> NoBranch]
    /\ told = [w \in Writers |-> "none"]
    /\ acked = {}
    /\ dropped = {}
    /\ deletes \in {FALSE, crew \intersect Writers # {}}

\* the changes of a commit that are mutations
Mutations(c) == IF c = NoBranch THEN {} ELSE ToSet(c) \intersect Writers
Happens == /\ \E w \in Writers : psess[w] # "away"
           /\ faults < MaxFaults /\ faults' = faults + 1
-----------------------------------------------------------------------------
(* What a clone for the session branch sees: the branch, or else the       *)
(* remote's default HEAD, or nothing in an empty repository.               *)
remoteTip == IF session # NoBranch THEN session ELSE main

remoteExists == remoteTip # NoBranch

\* The ledger that the caller probes in the files it read.
Landed(w) == w \in Mutations(remoteTip)

\* ReadSubtree
ReadSubtree(w) ==
    /\ psess[w] = "idle"
    /\ w \notin acked
    /\ IF Landed(w)
       THEN /\ acked' = acked \union {w}
            /\ told' = [told EXCEPT ![w] = "ok"]
            /\ UNCHANGED <<psess, base, exists>>
       ELSE /\ base' = [base EXCEPT ![w] = remoteTip]
            /\ exists' = [exists EXCEPT ![w] = remoteExists]
            /\ told' = [told EXCEPT ![w] = "none"]
            /\ psess' = [psess EXCEPT ![w] = "read"]
            /\ UNCHANGED acked
    /\ UNCHANGED <<main, session, work, dropped, deletes, faults>>

\* checkCASPrecondition over the tip of the fresh clone
CASPrecondition(expected) ==
    IF expected = NoBranch THEN remoteTip = NoBranch ELSE remoteTip = expected

\* CommitSubtree up to its push: clone, compare, replace the subtree, commit
CommitSubtree(w) ==
    /\ psess[w] = "read"
    /\ IF CASPrecondition(base[w])
       THEN /\ work' = [work EXCEPT ![w] =
                           Append(IF remoteTip = NoBranch THEN <<>> ELSE remoteTip, w)]
            /\ psess' = [psess EXCEPT ![w] = "push"]
            /\ UNCHANGED told
       ELSE /\ told' = [told EXCEPT ![w] = "conflict"]
            /\ psess' = [psess EXCEPT ![w] = "idle"]
            /\ UNCHANGED work
    /\ UNCHANGED <<main, session, base, exists, acked, dropped, deletes, faults>>

\* A mistake for the checks to find: the push is forced.
ForcePush(w) == TRUE

\* A plain push creates an absent branch and otherwise only fast-forwards it.
PushAccepted(w) == session = NoBranch \/ IsPrefix(session, work[w])

Push(w) ==
    /\ psess[w] = "push"
    /\ psess' = [psess EXCEPT ![w] = "idle"]
    /\ IF PushAccepted(w)
       THEN /\ session' = work[w]
            /\ told' = [told EXCEPT ![w] = "ok"]
            /\ acked' = acked \union {w}
       ELSE /\ told' = [told EXCEPT ![w] = "conflict"]
            /\ UNCHANGED <<session, acked>>
    /\ UNCHANGED <<main, base, exists, work, dropped, deletes, faults>>

\* The push fails on the network, before or after it reached the remote: a
\* retryable error (ClassifyGitError).
PushLost(w) ==
    /\ psess[w] = "push"
    /\ Happens
    /\ session' \in {session} \union (IF PushAccepted(w) THEN {work[w]} ELSE {})
    /\ psess' = [psess EXCEPT ![w] = "idle"]
    /\ told' = [told EXCEPT ![w] = "error"]
    /\ UNCHANGED <<main, base, exists, work, acked, dropped, deletes>>
-----------------------------------------------------------------------------
(* The rail (github_pullrequest.go, see PullRequestRail) and other users   *)
(* of the repository, one call each.                                       *)

Others == <<psess, base, exists, work, told, acked, deletes>>

\* CreateBranch cuts the branch from the tip of the default branch.
CreateBranch == /\ Happens
                /\ main # NoBranch /\ session = NoBranch
                /\ session' = main
                /\ UNCHANGED <<main, dropped, Others>>

\* MergePullRequest, of a branch that did not diverge from the default one
MergePullRequest == /\ Happens
                    /\ main # NoBranch /\ session # NoBranch
                    /\ IsStrictPrefix(main, session)
                    /\ main' = Append(session, Merge)
                    /\ UNCHANGED <<session, dropped, Others>>

\* DeleteBranch, after the merge or after ClosePullRequest
DeleteBranch == /\ deletes
                /\ Happens
                /\ session # NoBranch
                /\ session' = NoBranch
                /\ dropped' = dropped \union (Mutations(session) \ Mutations(main))
                /\ UNCHANGED <<main, Others>>

\* somebody else's session is merged, or a user pushes to the default branch
CommitToMain == /\ Happens
                /\ main' = Append(IF main = NoBranch THEN <<>> ELSE main, Direct)
                /\ UNCHANGED <<session, dropped, Others>>
-----------------------------------------------------------------------------
Call(w) == ReadSubtree(w) \/ CommitSubtree(w) \/ Push(w)

SessionNext == (\E w \in Writers : Call(w) \/ PushLost(w))
               \/ CreateBranch \/ MergePullRequest \/ DeleteBranch \/ CommitToMain
-----------------------------------------------------------------------------
(* Every commit that was reported is on the session branch, was merged, or *)
(* went with the branch that the rail deleted: no race, lost reply or      *)
(* rebirth of the branch drops it silently.  And a mutation is applied at  *)
(* most once to a branch, although its push may land unreported and be     *)
(* retried through another branch.                                         *)
CommittedOnce ==
    /\ acked \subseteq Mutations(session) \union Mutations(main) \union dropped
    /\ \A c \in {main, session} \ {NoBranch} :
        \A i, j \in DOMAIN c : c[i] = c[j] /\ c[i] \in Writers => i = j
=============================================================================
