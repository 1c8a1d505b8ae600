----------------------------- MODULE LocalPush -----------------------------
(***************************************************************************)
(* GitStore.CommitSubtree and ReadSubtree (gitdata.go) against one branch  *)
(* of one repository, under the process-wide lock of localrepolock.go,     *)
(* with git's receive-pack taken apart into the steps that make the lock   *)
(* necessary: for a checked-out branch it updates the index and the        *)
(* working tree BEFORE it compares and swaps the ref.                      *)
(*                                                                         *)
(* Every actor has one mutation to apply and carries its name.  Writers    *)
(* are activities of the server process: they read, apply, commit under    *)
(* compare-and-swap, and start over after a retryable error; the           *)
(* mutations already in the tree are the ledger they probe before they     *)
(* commit.  Outsiders are other processes that push with plain git: an     *)
(* agent, the user.  The user may also dirty the working tree.             *)
(*                                                                         *)
(* The managed subtree is the sequence of mutations applied to it, and a   *)
(* commit is identified with its tree: two commits have equal trees only   *)
(* if they apply the same mutations in the same order.  A commit made for  *)
(* a second attempt is nevertheless new (commitWorktree stamps wall-clock  *)
(* time), so a push is never "already up to date".                         *)
(***************************************************************************)
EXTENDS Naturals, Sequences

CONSTANTS Writers,      \* activities inside the server process
          Outsiders,    \* other processes that push to the same repository
          Local,        \* the target is a local path or a file:// URL
          CheckedOut,   \* ... non-bare, with the pushed branch checked out
          Unborn,       \* the branch does not exist yet when the system starts
          MaxFaults,    \* bound on aborts, crashes and edits by the user
          Nobody,       \* the lock is free
          NoBranch,     \* the branch does not exist; "" as a base token
          Dirty         \* the checkout holds edits that are in no commit

Actors == Writers \union Outsiders
Trees == Seq(Actors)
Tips == Trees \union {NoBranch}

ASSUME PushAssumption ==
    /\ Writers \intersect Outsiders = {}
    /\ Nobody \notin Actors
    /\ NoBranch \notin Trees
    /\ Dirty \notin Trees
    /\ Local \in BOOLEAN /\ CheckedOut \in BOOLEAN /\ Unborn \in BOOLEAN
    /\ CheckedOut => Local
    /\ MaxFaults \in Nat

VARIABLES tip,          \* the branch ref of the repository
          checkout,     \* the tree in its index and working tree
          lock,         \* the process-wide lock of this repository
          pc,           \* how far each actor is
          base,         \* the base token of its last read: expectedBase
          parent,       \* the tip its commit was built on
          old,          \* the tip advertised to its push
          answer,       \* what its last call returned
          acked,        \* the mutations reported as committed
          conflicts,    \* how often each actor was told ErrRefCASLost
          orphaned,     \* receive-packs whose client process has died
          disturbed,    \* somebody but the lock's holder touched the checkout
          faults        \* aborts, crashes and user edits so far

repo == <<tip, checkout>>
private == <<base, parent, old>>
result == <<answer, acked, conflicts>>
vars == <<repo, lock, pc, private, result, orphaned, disturbed, faults>>

States == {"idle", "ready", "entered", "push", "sent", "checked", "written", "landed"}
\* a receive-pack is running for the actor
Receiving == {"sent", "checked", "written"}
Answers == {"none", "ok", "conflict", "refused", "canceled", "error"}

(* Type correctness, and a lock that is held is held by a running call.    *)
TypeOK == /\ tip \in Tips
          /\ checkout \in Trees \union {Dirty}
          /\ lock \in Writers \union {Nobody}
          /\ pc \in [Actors -> States]
          /\ base \in [Actors -> Tips]
          /\ parent \in [Actors -> Tips]
          /\ old \in [Actors -> Tips]
          /\ answer \in [Actors -> Answers]
          /\ acked \in SUBSET Actors
          /\ conflicts \in [Actors -> Nat]
          /\ orphaned \in SUBSET Writers
          /\ disturbed \in BOOLEAN
          /\ faults \in Nat
          \* the lock is not leaked: its holder is inside its call
          /\ lock # Nobody => pc[lock] \notin {"idle", "ready"}

\* the files at a tip; an absent branch has none
Tree(t) == IF t = NoBranch THEN <<>> ELSE t
Applied(t) == {Tree(t)[i] : i \in DOMAIN Tree(t)}
\* the tree an actor pushes: what it read, with its mutation applied
Work(a) == Append(Tree(base[a]), a)
Clean == checkout = Tree(tip)

Init == /\ tip = IF Unborn THEN NoBranch ELSE <<>>
        /\ checkout = <<>>
        /\ lock = Nobody
        /\ pc = [a \in Actors |-> "idle"]
        /\ base = [a \in Actors |-> NoBranch]
        /\ parent = [a \in Actors |-> NoBranch]
        /\ old = [a \in Actors |-> NoBranch]
        /\ answer = [a \in Actors |-> "none"]
        /\ acked = {}
        /\ conflicts = [a \in Actors |-> 0]
        /\ orphaned = {}
        /\ disturbed = FALSE
        /\ faults = 0

Goto(a, to) == pc' = [pc EXCEPT ![a] = to]

-----------------------------------------------------------------------------
(* Mutations of the definitions below, used only to show that the          *)
(* properties can fail.                                                    *)

\* an early return that skips the deferred unlock
ReturnKeepsLock(a, ans) ==
    /\ Goto(a, "idle")
    /\ orphaned' = orphaned \ {a}
    /\ UNCHANGED lock
    /\ answer' = [answer EXCEPT ![a] = ans]
    /\ conflicts' = IF ans = "conflict" THEN [conflicts EXCEPT ![a] = @ + 1] ELSE conflicts

\* the writer of a local repository goes in without the lock
EnterUnlocked(w) ==
    /\ w \in Writers
    /\ pc[w] = "ready"
    /\ Goto(w, "entered")
    /\ UNCHANGED <<repo, lock, private, result, orphaned, disturbed, faults>>

\* any base is good enough for the commit
NoPrecondition(expected, t) == TRUE

\* the classifier takes a checkout refusal for a lost race (before FIX-002)
CatchAllConflict(reason) == "conflict"
-----------------------------------------------------------------------------
(* The call of a returns: PushLocal's deferred unlock, the error of        *)
(* classifyPushError or checkCASPrecondition, or success.  An orphaned     *)
(* receive-pack ends without a client to tell and without the lock.        *)
Return(a, ans) ==
    /\ Goto(a, "idle")
    /\ orphaned' = orphaned \ {a}
    /\ lock' = IF lock = a THEN Nobody ELSE lock
    /\ IF a \in orphaned THEN UNCHANGED <<answer, conflicts>>
       ELSE /\ answer' = [answer EXCEPT ![a] = ans]
            /\ conflicts' = IF ans = "conflict"
                            THEN [conflicts EXCEPT ![a] = @ + 1] ELSE conflicts
-----------------------------------------------------------------------------
(* GitStore, in the order of CommitSubtree's calls.                        *)

\* ReadSubtree: one clone, a consistent view of the tip.  The caller probes
\* the ledger in it: an earlier attempt may have landed without an answer.
Read(a) ==
    /\ pc[a] = "idle"
    /\ a \notin acked
    /\ answer[a] # "refused"
    /\ IF a \in Applied(tip)
       THEN /\ acked' = acked \union {a}
            /\ answer' = [answer EXCEPT ![a] = "ok"]
            /\ UNCHANGED <<pc, base>>
       ELSE /\ base' = [base EXCEPT ![a] = tip]
            /\ answer' = [answer EXCEPT ![a] = "none"]
            /\ Goto(a, "ready")
            /\ UNCHANGED acked
    /\ UNCHANGED <<repo, lock, parent, old, conflicts, orphaned, disturbed, faults>>

\* withLocalRepoLock: a local target is locked around the rest of the call.
Enter(w) ==
    /\ w \in Writers
    /\ pc[w] = "ready"
    /\ IF Local THEN lock = Nobody /\ lock' = w ELSE UNCHANGED lock
    /\ Goto(w, "entered")
    /\ UNCHANGED <<repo, private, result, orphaned, disturbed, faults>>

\* The wait for the lock is cancelled: ctx.Err(), and nothing is held.
GiveUp(w) ==
    /\ w \in Writers
    /\ Local
    /\ pc[w] = "ready"
    /\ faults < MaxFaults
    /\ faults' = faults + 1
    /\ Goto(w, "idle")
    /\ answer' = [answer EXCEPT ![w] = "canceled"]
    /\ UNCHANGED <<repo, lock, private, acked, conflicts, orphaned, disturbed>>

\* checkCASPrecondition
CASPrecondition(expected, t) ==
    IF expected = NoBranch THEN t = NoBranch ELSE t = expected

\* commitSubtree up to the push: clone, compare, replace the subtree, commit.
CloneAndCommit(w) ==
    /\ w \in Writers
    /\ pc[w] = "entered"
    /\ IF CASPrecondition(base[w], tip)
       THEN /\ parent' = [parent EXCEPT ![w] = tip]
            /\ Goto(w, "push")
            /\ UNCHANGED <<lock, answer, conflicts, orphaned>>
       ELSE /\ Return(w, "conflict")
            /\ UNCHANGED parent
    /\ UNCHANGED <<repo, base, old, acked, disturbed, faults>>

\* An outsider commits on what it fetched and pushes; no lock, no pre-check.
OutsiderCommit(o) ==
    /\ o \in Outsiders
    /\ pc[o] = "ready"
    /\ parent' = [parent EXCEPT ![o] = base[o]]
    /\ Goto(o, "push")
    /\ UNCHANGED <<repo, lock, base, old, result, orphaned, disturbed, faults>>

\* What a rejected push means: the checkout's reasons are tested first, and
\* are never a lost race.
CheckoutRefusals == {"staged changes", "could not update working tree"}
classifyPushError(reason) ==
    IF reason \in CheckoutRefusals THEN "refused" ELSE "conflict"

\* The push reads the advertised tip and refuses to send a commit that does
\* not descend from it.
Advertise(a) ==
    /\ pc[a] = "push"
    /\ IF tip = parent[a]
       THEN /\ old' = [old EXCEPT ![a] = tip]
            /\ Goto(a, "sent")
            /\ disturbed' = (disturbed \/ a \in Outsiders)
            /\ UNCHANGED <<lock, answer, conflicts, orphaned>>
       ELSE /\ Return(a, classifyPushError("non-fast-forward"))
            /\ UNCHANGED <<old, disturbed>>
    /\ UNCHANGED <<repo, base, parent, acked, faults>>

(* git receive-pack, which the pushing process only waits for.             *)

\* A push to a checked-out branch is refused unless the checkout is clean;
\* a branch nobody checks out goes straight to the ref update.
ReceiveCheck(a) ==
    /\ pc[a] = "sent"
    /\ \/ /\ ~CheckedOut
          /\ Goto(a, "written")
          /\ UNCHANGED <<lock, answer, conflicts, orphaned>>
       \/ /\ CheckedOut /\ Clean
          /\ Goto(a, "checked")
          /\ UNCHANGED <<lock, answer, conflicts, orphaned>>
       \/ /\ CheckedOut /\ ~Clean
          /\ Return(a, classifyPushError("staged changes"))
    /\ UNCHANGED <<repo, private, acked, disturbed, faults>>

\* read-tree -u -m: the pushed tree goes into the index and the working tree,
\* unless the user's edits stand in the way.
ReadTree(a) ==
    /\ pc[a] = "checked"
    /\ IF checkout = Dirty
       THEN /\ Return(a, classifyPushError("could not update working tree"))
            /\ UNCHANGED checkout
       ELSE /\ checkout' = Work(a)
            /\ Goto(a, "written")
            /\ UNCHANGED <<lock, answer, conflicts, orphaned>>
    /\ UNCHANGED <<tip, private, acked, disturbed, faults>>

\* The ref transaction: the tip must still be the advertised one.
RefCAS(a) ==
    /\ pc[a] = "written"
    /\ IF tip = old[a]
       THEN /\ tip' = Work(a)
            /\ IF a \in orphaned THEN Return(a, "ok")
               ELSE Goto(a, "landed") /\ UNCHANGED <<lock, answer, conflicts, orphaned>>
       ELSE /\ Return(a, classifyPushError("failed to update ref"))
            /\ UNCHANGED tip
    /\ UNCHANGED <<checkout, private, acked, disturbed, faults>>

\* The report-status arrives and the call returns the new base.
Reply(a) ==
    /\ pc[a] = "landed"
    /\ acked' = acked \union {a}
    /\ Return(a, "ok")
    /\ UNCHANGED <<repo, private, disturbed, faults>>
-----------------------------------------------------------------------------
(* Failures.                                                               *)

\* The context of a call ends inside the lock: the error is retryable, the
\* receive-pack it waited for is killed where it stands, the lock is released.
Abort(w) ==
    /\ w \in Writers \ orphaned
    /\ pc[w] \in {"entered", "push", "landed"} \union Receiving
    /\ faults < MaxFaults
    /\ faults' = faults + 1
    /\ disturbed' = (disturbed \/ pc[w] \in Receiving)
    /\ Return(w, "error")
    /\ UNCHANGED <<repo, private, acked>>

\* The server process dies with its lock table and is started again; some of
\* the receive-packs it was waiting for survive it.
Crash ==
    /\ faults < MaxFaults
    /\ faults' = faults + 1
    /\ \E survivors \in SUBSET {w \in Writers : pc[w] \in Receiving} :
          /\ orphaned \subseteq survivors
          /\ orphaned' = survivors
          /\ pc' = [a \in Actors |-> IF a \in Writers \ survivors THEN "idle" ELSE pc[a]]
    /\ answer' = [a \in Actors |-> IF a \in Writers /\ a \notin acked /\ pc[a] # "idle"
                                   THEN "error" ELSE answer[a]]
    /\ disturbed' = (disturbed \/ \E w \in Writers : pc[w] \in Receiving)
    /\ lock' = Nobody
    /\ UNCHANGED <<repo, private, acked, conflicts>>

UserEdits ==
    /\ CheckedOut
    /\ checkout # Dirty
    /\ faults < MaxFaults
    /\ faults' = faults + 1
    /\ checkout' = Dirty
    /\ disturbed' = TRUE
    /\ UNCHANGED <<tip, lock, pc, private, result, orphaned>>

\* The recovery that a refusal's message asks for: reset and check out.
UserCleans ==
    /\ \E a \in Actors : answer[a] = "refused"
    /\ ~Clean
    /\ checkout' = Tree(tip)
    /\ disturbed' = TRUE
    /\ UNCHANGED <<tip, lock, pc, private, result, orphaned, faults>>

\* After a refusal, which no retry policy repeats, the command is given again.
Resubmit(a) ==
    /\ answer[a] = "refused"
    /\ pc[a] = "idle"
    /\ answer' = [answer EXCEPT ![a] = "none"]
    /\ UNCHANGED <<repo, lock, pc, private, acked, conflicts, orphaned, disturbed, faults>>
-----------------------------------------------------------------------------
Receive(a) == ReceiveCheck(a) \/ ReadTree(a) \/ RefCAS(a)

Progress(a) == \/ Read(a) \/ CloneAndCommit(a) \/ OutsiderCommit(a)
               \/ Advertise(a) \/ Receive(a) \/ Reply(a)

Next == \/ \E a \in Actors : Progress(a) \/ Enter(a) \/ GiveUp(a) \/ Abort(a) \/ Resubmit(a)
        \/ Crash \/ UserEdits \/ UserCleans

Spec == Init /\ [][Next]_vars

(* An activity keeps running and its retryable errors are retried; git     *)
(* finishes what it was sent.  The lock's channel is FIFO, so a waiter     *)
(* that is let past infinitely often gets its turn.  Nothing obliges the   *)
(* user or a fault.                                                        *)
Fairness == \A w \in Writers : WF_vars(Progress(w)) /\ SF_vars(Enter(w))

FairSpec == Spec /\ Fairness
-----------------------------------------------------------------------------
(* The branch is the append-only log that GitStore promises: a commit      *)
(* never drops or repeats a mutation, whatever raced, crashed or lost its  *)
(* reply, and "committed" is only said of a mutation that is in the log    *)
(* (the package comment of gitdata.go: the rejection IS the CAS).          *)
Log == INSTANCE RefLog WITH Mutations <- Actors, log <- Tree(tip)

ImplementsRefLog == Log!LogSpec

(* As long as only the server's own writers touch a checked-out            *)
(* repository and none of them is cut off inside a push, no loser of a     *)
(* race leaves its tree behind: between pushes the checkout is the tip's,  *)
(* and nobody is refused (the header of localrepolock.go).                 *)
NoSelfInflictedWedge ==
    CheckedOut /\ ~disturbed =>
        /\ \/ Clean
           \/ lock \in Writers /\ pc[lock] = "written" /\ checkout = Work(lock)
        /\ \A a \in Actors : answer[a] # "refused"

(* ErrRefCASLost is told only to an actor whose base is no longer the tip, *)
(* so re-reading gives it a new base; in particular a refusal by the       *)
(* checkout is never reported as a lost race (classifyPushError).          *)
OnlyLosersConflict ==
    \A a \in Actors : answer[a] = "conflict" => base[a] # tip

(* The conflict loop converges: an actor loses at most one race for every  *)
(* mutation that was committed, so a bound on the number of conflicts is   *)
(* never burnt on a repository that refuses for another reason.            *)
ConflictsBounded == \A a \in Actors : conflicts[a] <= Len(Tree(tip))

(* Every writer gets its mutation committed and reported, or is told that  *)
(* the checkout refuses it - and that only after somebody disturbed the    *)
(* checkout: no fault, lost reply or restart leaves it waiting for ever.   *)
EventuallyDecided ==
    \A w \in Writers : <>(w \in acked \/ (answer[w] = "refused" /\ disturbed))
=============================================================================
