--------------------------- MODULE LocalRepoLock ---------------------------
(***************************************************************************)
(* framework-go-infrastructure-github/localrepolock.go: the process-wide   *)
(* map from a canonical repository path to a 1-slot channel, and           *)
(* LockLocalRepo / PushLocal on top of it.                                 *)
(*                                                                         *)
(* A path is an element of Paths; RealPath[p] is the repository that p     *)
(* reaches once its symlinks are followed.  A path resolves only while     *)
(* its repository exists on disk, and repositories may be created while    *)
(* the process runs.                                                       *)
(*                                                                         *)
(* The Go channel is a Boolean per slot: full, or not.  Blocked senders of *)
(* a Go channel are served in FIFO order; here any of them may be served,  *)
(* which allows more interleavings, and the FIFO order appears as the      *)
(* strong fairness of Send.                                                *)
(***************************************************************************)
EXTENDS Naturals

CONSTANTS Callers,      \* goroutines of the server process
          Paths,        \* spellings of repository paths, file:// stripped
          Repos,        \* the spellings that are fully resolved paths
          RealPath,     \* [Paths -> Repos]: what the path's symlinks lead to
          Created,      \* the repositories that exist when the server starts
          Slots,        \* identities of the channels the process allocates
          NoSlot

ASSUME RepoAssumption ==
    /\ Repos \subseteq Paths
    /\ Created \subseteq Repos
    /\ RealPath \in [Paths -> Repos]
    /\ \A r \in Repos : RealPath[r] = r
    /\ NoSlot \notin Slots

VARIABLES onDisk,       \* the repositories that exist now
          slots,        \* localRepoLocks.slots: path key -> channel, or NoSlot
          full,         \* full[s]: channel s holds its one token
          at,           \* where each caller is in LockLocalRepo / PushLocal
          path,         \* the path each caller asked for
          key,          \* its canonical key
          slot,         \* the channel it looked up
          done          \* done[c]: the context of c's call is cancelled

lockVars == <<onDisk, slots, full, at, path, key, slot, done>>
caller == <<path, key, slot, done>>

\* idle -> keyed -> lookup -> select -> (holding -> released) -> idle
LockStates == {"idle", "keyed", "lookup", "select", "holding", "released"}

(* Type correctness; the last conjunct is what keeps select off a nil      *)
(* channel (LockLocalRepo's lookup always yields one).                     *)
LockTypeOK ==
    /\ onDisk \in SUBSET Repos
    /\ slots \in [Paths -> Slots \union {NoSlot}]
    /\ full \in [Slots -> BOOLEAN]
    /\ at \in [Callers -> LockStates]
    /\ path \in [Callers -> Paths]
    /\ key \in [Callers -> Paths]
    /\ slot \in [Callers -> Slots \union {NoSlot}]
    /\ done \in [Callers -> BOOLEAN]
    \* nobody waits on, or gives back, a channel that was never made
    /\ \A c \in Callers :
          at[c] \in {"select", "holding", "released"} => slot[c] \in Slots

LockInit ==
    /\ onDisk = Created
    /\ slots = [p \in Paths |-> NoSlot]
    /\ full = [s \in Slots |-> FALSE]
    /\ at = [c \in Callers |-> "idle"]
    /\ path \in [Callers -> Paths]
    /\ key = path
    /\ slot = [c \in Callers |-> NoSlot]
    /\ done = [c \in Callers |-> FALSE]

MoveTo(c, from, to) ==
    /\ at[c] = from
    /\ at' = [at EXCEPT ![c] = to]

-----------------------------------------------------------------------------
(* Mutations of the definitions below, used only to show that the          *)
(* properties can fail.                                                    *)

\* the symlink is not followed: every spelling is its own key
LexicalPath(p) == p

\* a cancelled waiter leaves its token behind
GiveUpKeepsToken(c) ==
    /\ MoveTo(c, "select", "idle")
    /\ done[c]
    /\ full' = [full EXCEPT ![slot[c]] = TRUE]
    /\ UNCHANGED <<onDisk, slots, caller>>
-----------------------------------------------------------------------------
\* The canonical key: the resolved path when it resolves, else the path as is.
CanonicalLocalRepoPath(p) ==
    IF RealPath[p] \in onDisk THEN RealPath[p] ELSE p

\* A repository that was not there yet is initialised by someone else.
CreateRepo(r) ==
    /\ r \notin onDisk
    /\ onDisk' = onDisk \union {r}
    /\ UNCHANGED <<slots, full, at, caller>>

\* The context of a call is cancelled, at any moment of the call.
Cancel(c) ==
    /\ at[c] # "idle"
    /\ ~done[c]
    /\ done' = [done EXCEPT ![c] = TRUE]
    /\ UNCHANGED <<onDisk, slots, full, at, path, key, slot>>

\* LockLocalRepo(ctx, p) is called and computes its key.
Call(c, p) ==
    /\ MoveTo(c, "idle", "keyed")
    /\ path' = [path EXCEPT ![c] = p]
    /\ key' = [key EXCEPT ![c] = CanonicalLocalRepoPath(p)]
    /\ slot' = [slot EXCEPT ![c] = NoSlot]
    /\ done' = [done EXCEPT ![c] = FALSE]
    /\ UNCHANGED <<onDisk, slots, full>>

\* The early return on a context that is already cancelled.
CheckCtx(c) ==
    /\ \/ done[c] /\ MoveTo(c, "keyed", "idle")
       \/ ~done[c] /\ MoveTo(c, "keyed", "lookup")
    /\ UNCHANGED <<onDisk, slots, full, caller>>

\* Get or make the key's channel; one step, because it runs under mu.
Lookup(c) ==
    /\ MoveTo(c, "lookup", "select")
    /\ \E s \in Slots :
          /\ IF slots[key[c]] = NoSlot THEN s \notin {slots[k] : k \in Paths}
                                       ELSE s = slots[key[c]]
          /\ slots' = [slots EXCEPT ![key[c]] = s]
          /\ slot' = [slot EXCEPT ![c] = s]
    /\ UNCHANGED <<onDisk, full, path, key, done>>

\* The select's first arm.  It may win although the context is done too.
Send(c) ==
    /\ MoveTo(c, "select", "holding")
    /\ ~full[slot[c]]
    /\ full' = [full EXCEPT ![slot[c]] = TRUE]
    /\ UNCHANGED <<onDisk, slots, caller>>

\* The select's second arm: the call returns ctx.Err().
GiveUpWaiting(c) ==
    /\ MoveTo(c, "select", "idle")
    /\ done[c]
    /\ UNCHANGED <<onDisk, slots, full, caller>>

\* The first call of unlock takes the token out.
Unlock(c) ==
    /\ MoveTo(c, "holding", "released")
    /\ full' = [full EXCEPT ![slot[c]] = FALSE]
    /\ UNCHANGED <<onDisk, slots, caller>>

\* Any later call of the same unlock finds once already spent.
UnlockAgain(c) ==
    /\ MoveTo(c, "released", "idle")
    /\ UNCHANGED <<onDisk, slots, full, caller>>

Step(c) == \/ \E p \in Paths : Call(c, p)
           \/ CheckCtx(c) \/ Lookup(c) \/ Send(c) \/ GiveUpWaiting(c)
           \/ Unlock(c) \/ UnlockAgain(c)

LockNext ==
    \/ \E r \in Repos : CreateRepo(r)
    \/ \E c \in Callers : Cancel(c) \/ Step(c)

LockSpec == LockInit /\ [][LockNext]_lockVars

(* Every started call runs on and the callback under PushLocal returns     *)
(* (it is bounded by its own context); FIFO hand-over of the channel is    *)
(* strong fairness of Send.  Nobody is obliged to call or to cancel.       *)
LockFairness == \A c \in Callers :
    /\ WF_lockVars(CheckCtx(c) \/ Lookup(c) \/ GiveUpWaiting(c) \/ Unlock(c) \/ UnlockAgain(c))
    /\ SF_lockVars(Send(c))

LockFairSpec == LockSpec /\ LockFairness
-----------------------------------------------------------------------------
(* At most one caller is inside the callback for a repository that existed *)
(* when the server started, however it spelled the path, whatever contexts *)
(* were cancelled and whichever unlock was called twice                    *)
(* (LockLocalRepo, "ONE key").                                             *)
MutualExclusion ==
    \A c, d \in Callers :
        /\ at[c] = "holding" /\ at[d] = "holding"
        /\ RealPath[path[c]] = RealPath[path[d]]
        /\ RealPath[path[c]] \in Created
        => c = d

(* A channel holds its token exactly while one caller holds the lock: no   *)
(* token is left behind by a waiter that gave up or drained by a second    *)
(* unlock, so no repository is locked for ever and none is unlocked early. *)
TokenHasOwner ==
    \A s \in Slots :
        full[s] <=> \E c \in Callers : at[c] = "holding" /\ slot[c] = s

(* A call of LockLocalRepo that is waiting returns, with the lock or with  *)
(* the context's error.                                                    *)
WaiterReturns ==
    \A c \in Callers : at[c] = "select" ~> at[c] \in {"holding", "idle"}

(* The lock refines RepoLock over the repositories that existed at the     *)
(* start: r is held by the caller inside the callback for r.               *)
Inside(r) == {c \in Callers : at[c] = "holding" /\ RealPath[path[c]] = r}

Abstract == INSTANCE RepoLock
                WITH Repos <- Created, holders <- [r \in Created |-> Inside(r)]

ImplementsRepoLock == Abstract!LockSpec
=============================================================================
