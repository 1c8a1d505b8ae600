-------------------------- MODULE CommitFilesAtomic --------------------------
(***************************************************************************)
(* CommitFilesAtomic (gittrees.go), as the scaffold converge uses it: list *)
(* the tree, find the files that drifted, and land them in one commit by a *)
(* chain of REST calls that only the last one makes visible.  Each attempt *)
(* is an activity; a call may get no answer, before or after it was        *)
(* served, or be served after its caller gave up.                          *)
(*                                                                         *)
(* A commit is the sequence of commits that lead to it, so that ancestor   *)
(* is prefix; its id tells apart commits that one converge makes twice.    *)
(***************************************************************************)
EXTENDS Naturals, Sequences, SequencesExt

CONSTANTS Converges,   \* callers, who are also the content they write
          Paths,
          Wants,       \* the paths each one manages
          NoFile,
          User,        \* anybody else, and the content they write
          NoBranch,    \* an unborn branch
          MaxFaults,   \* bound on calls that get no answer
          MaxDrift     \* bound on commits of others

ASSUME FilesAssumption ==
    /\ Wants \in [Converges -> SUBSET Paths]
    /\ User \notin Converges /\ NoFile \notin Converges \union {User}
    /\ MaxFaults \in Nat /\ MaxDrift \in Nat

Files == [Paths -> Converges \union {User, NoFile}]
Commits == Seq([by : Converges \union {User}, id : Nat, tree : Files])
ASSUME BranchAssumption == NoBranch \notin Commits

VARIABLES tip,      \* the branch: a commit, or NoBranch
          transit,  \* ref updates whose caller gave up, not yet served
          pc,       \* how far each converge's attempt is
          drifted,  \* the files it found to differ
          diffs,    \* every such set it ever found (history)
          head,     \* the branch head it read
          made,     \* the commit it created
          answer,   \* what its last attempt returned
          attempt,  \* how many commits it has created
          faults, edits

branch == <<tip, transit>>
private == <<pc, drifted, diffs, head, made, answer, attempt>>
vars == <<branch, private, faults, edits>>

Refs == Commits \union {NoBranch}
RefUpdates == [commit : Commits, exists : BOOLEAN]

(* Type correctness; and a ref is created for a root commit and updated    *)
(* for any other.                                                          *)
TypeOK == /\ tip \in Refs
          /\ transit \subseteq RefUpdates
          /\ pc \in [Converges -> {"diff", "head", "objects", "advance", "done"}]
          /\ drifted \in [Converges -> SUBSET Paths]
          /\ diffs \in [Converges -> SUBSET (SUBSET Paths)]
          /\ head \in [Converges -> Refs]
          /\ made \in [Converges -> Refs]
          /\ answer \in [Converges -> {"none", "ok", "conflict", "error"}]
          /\ attempt \in [Converges -> Nat]
          /\ \A u \in transit : u.exists <=> Len(u.commit) > 1
          /\ faults \in 0 .. MaxFaults /\ edits \in 0 .. MaxDrift

NoFiles == [p \in Paths |-> NoFile]

\* the chain of a ref, and the files at its end
Chain(c) == IF c = NoBranch THEN <<>> ELSE c
Tree(c) == IF Chain(c) = <<>> THEN NoFiles ELSE Last(Chain(c)).tree

Overlay(tree, paths, content) ==
    [p \in Paths |-> IF p \in paths THEN content ELSE tree[p]]

Init == /\ tip = NoBranch
        /\ transit = {}
        /\ pc = [c \in Converges |-> "diff"]
        /\ drifted = [c \in Converges |-> {}]
        /\ diffs = [c \in Converges |-> {}]
        /\ head = [c \in Converges |-> NoBranch]
        /\ made = [c \in Converges |-> NoBranch]
        /\ answer = [c \in Converges |-> "none"]
        /\ attempt = [c \in Converges |-> 0]
        /\ faults = 0 /\ edits = 0

Goto(c, from, to) == pc[c] = from /\ pc' = [pc EXCEPT ![c] = to]
-----------------------------------------------------------------------------
(* Mutations of the definitions below, used only to show that the          *)
(* properties can fail.                                                    *)

\* a new tree that is not laid over the head commit's
TreeFromNothing(c) == Overlay(NoFiles, drifted[c], c)

\* force = true, or a head that is not looked at
Forced(u) == TRUE

\* an unborn branch is updated too
UpdateOnly(c) == [commit |-> made[c], exists |-> TRUE]

\* an absent branch is an error
AbsentIsError(c) ==
    /\ Goto(c, "head", IF tip = NoBranch THEN "diff" ELSE "objects")
    /\ head' = [head EXCEPT ![c] = tip]
    /\ UNCHANGED <<branch, drifted, diffs, made, answer, attempt, faults, edits>>
-----------------------------------------------------------------------------
\* The caller's comparison of GetRepoTree's listing with GitBlobSHA of its
\* files; an absent branch (NotFound) has no file.
Diff(c) ==
    LET differ == {p \in Wants[c] : Tree(tip)[p] # c}
    IN  /\ Goto(c, "diff", IF differ = {} THEN "done" ELSE "head")
        /\ drifted' = [drifted EXCEPT ![c] = differ]
        /\ diffs' = [diffs EXCEPT ![c] = @ \union {differ}]
        /\ answer' = [answer EXCEPT ![c] = IF differ = {} THEN "ok" ELSE "none"]
        /\ UNCHANGED <<branch, head, made, attempt, faults, edits>>

\* branchHeadAndTree; the head commit's tree is immutable.
ReadHead(c) == /\ Goto(c, "head", "objects")
               /\ head' = [head EXCEPT ![c] = tip]
               /\ UNCHANGED <<branch, drifted, diffs, made, answer, attempt, faults, edits>>

\* createFileBlobs, CreateTree over the base tree, CreateCommit: objects that
\* nothing refers to yet.
NewTree(c) == Overlay(Tree(head[c]), drifted[c], c)

CreateObjects(c) ==
    /\ Goto(c, "objects", "advance")
    /\ attempt' = [attempt EXCEPT ![c] = @ + 1]
    /\ made' = [made EXCEPT ![c] =
                  Append(Chain(head[c]), [by |-> c, id |-> attempt'[c], tree |-> NewTree(c)])]
    /\ UNCHANGED <<branch, drifted, diffs, head, answer, faults, edits>>

\* What GitHub accepts: an unforced update of a ref, or the creation of one.
Accepted(u) == IF u.exists THEN tip # NoBranch /\ IsPrefix(tip, u.commit)
                           ELSE tip = NoBranch

Serve(u) == tip' = IF Accepted(u) THEN u.commit ELSE tip

Update(c) == [commit |-> made[c], exists |-> head[c] # NoBranch]

\* advanceBranch: UpdateRef, or createBranchRef for an unborn branch.
Advance(c) ==
    /\ pc[c] = "advance"
    /\ Serve(Update(c))
    /\ Goto(c, "advance", IF Accepted(Update(c)) THEN "done" ELSE "diff")
    /\ answer' = [answer EXCEPT ![c] = IF Accepted(Update(c)) THEN "ok" ELSE "conflict"]
    /\ UNCHANGED <<transit, drifted, diffs, head, made, attempt, faults, edits>>

\* A call of the chain gets no answer: Transient, and the converge runs again.
NoAnswer(c) ==
    /\ pc[c] \in {"head", "objects", "advance"} /\ faults < MaxFaults
    /\ faults' = faults + 1
    /\ \/ UNCHANGED branch
       \/ pc[c] = "advance" /\ Serve(Update(c)) /\ UNCHANGED transit
       \/ pc[c] = "advance" /\ transit' = transit \union {Update(c)} /\ UNCHANGED tip
    /\ Goto(c, pc[c], "diff")
    /\ answer' = [answer EXCEPT ![c] = "error"]
    /\ UNCHANGED <<drifted, diffs, head, made, attempt, edits>>

ServeLate(u) == /\ u \in transit
                /\ Serve(u)
                /\ transit' = transit \ {u}
                /\ UNCHANGED <<private, faults, edits>>

\* Somebody else commits a change of one file.
OtherCommit == /\ edits < MaxDrift
               /\ edits' = edits + 1
               /\ \E p \in Paths :
                    tip' = Append(Chain(tip), [by |-> User, id |-> edits',
                                               tree |-> Overlay(Tree(tip), {p}, User)])
               /\ UNCHANGED <<transit, private, faults>>

Step(c) == Diff(c) \/ ReadHead(c) \/ CreateObjects(c) \/ Advance(c)

Next == \/ \E c \in Converges : Step(c) \/ NoAnswer(c)
        \/ \E u \in transit : ServeLate(u)
        \/ OtherCommit

Spec == Init /\ [][Next]_vars

(* An attempt is retried until it ends; a conflict is followed by a        *)
(* re-read (the comment of CommitFilesAtomic).                             *)
FairSpec == Spec /\ \A c \in Converges : WF_vars(Step(c))
-----------------------------------------------------------------------------
(* The branch changes by whole writes, each laid over the current files:   *)
(* no attempt is seen in part, and none takes back what another put there. *)
Atomic == INSTANCE AtomicFiles WITH files <- Tree(tip), found <- diffs

ImplementsAtomicFiles == Atomic!FilesSpec

(* The id that is returned is of a commit in the branch's history, and     *)
(* stays so whatever is still in transit.                                  *)
ReturnedIsReachable ==
    \A c \in Converges : pc[c] = "done" /\ made[c] # NoBranch /\ drifted[c] # {} =>
        tip # NoBranch /\ IsPrefix(made[c], tip)

(* Conflict is told only to an attempt whose head is no longer the branch, *)
(* so that its re-read finds a new one.                                    *)
ConflictMeansAdvanced ==
    \A c \in Converges : answer[c] = "conflict" /\ pc[c] = "diff" => head[c] # tip

(* However calls fail and writers race, every converge ends.               *)
EventuallyConverged == \A c \in Converges : <>(pc[c] = "done")
=============================================================================
