----------------------------- MODULE RunDispatch -----------------------------
(***************************************************************************)
(* Dispatching a workflow once per token (actions.go).  GitHub creates a   *)
(* run some time after it accepted the dispatch, and lists one page of the *)
(* newest.  The submitter is the algorithm that the file's header          *)
(* describes for the component above: probe by run name, dispatch if there *)
(* is none, take the lowest id, cancel the others.                         *)
(***************************************************************************)
EXTENDS ErrorKinds, FiniteSets, Sequences, FiniteSetsExt

CONSTANTS Submitters,   \* callers with one and the same token
          PageSize,     \* 100 in the code
          MaxForeign,   \* bound on runs of other tokens
          MaxFaults     \* bound on calls that fail

VARIABLES runs,     \* the runs of the workflow, oldest first: ours, and live
          accepted, \* dispatches accepted whose run is not created yet
          dispatched, \* dispatches of the token GitHub ever accepted (history)
          psub,     \* how far each submitter is
          listedRuns, \* the ids its last listing matched
          handle,   \* the run it answered, 0 for none
          subError, \* the kind it failed with, or "none"
          faults

InitRuns(crew) ==
    /\ runs = <<>>
    /\ accepted = 0
    /\ dispatched = 0
    /\ psub = [s \in Submitters |-> IF s \in crew THEN "probe" ELSE "done"]
    /\ listedRuns = [s \in Submitters |-> {}]
    /\ handle = [s \in Submitters |-> 0]
    /\ subError = [s \in Submitters |-> "none"]

Ours(i) == runs[i].ours
OursAlive == {i \in DOMAIN runs : Ours(i) /\ runs[i].live}
-----------------------------------------------------------------------------
(* Mutations of the definitions below, used only to show that the          *)
(* properties can fail.                                                    *)

\* A mistake for the checks to find: the newest run is canonical.
NewestCanonical(ids) == Max(ids)
-----------------------------------------------------------------------------
SubFault == faults < MaxFaults /\ faults' = faults + 1

At(s, from, to) == psub[s] = from /\ psub' = [psub EXCEPT ![s] = to]

\* GitHub's page of the newest runs, and ListRunsByName's exact match.
Newest == {i \in DOMAIN runs : i > Len(runs) - PageSize}
ByName(page) == {i \in page : Ours(i)}

\* The canonical run is a total order both racers compute: the lowest id.
Canonical(ids) == Min(ids)

\* ListRunsByName, as the probe and as the resolver after a dispatch.
Probe(s) ==
    /\ psub[s] = "probe"
    /\ LET found == ByName(Newest)
       IN  /\ psub' = [psub EXCEPT ![s] = IF found = {} THEN "dispatch" ELSE "cancel"]
           /\ listedRuns' = [listedRuns EXCEPT ![s] = found]
    /\ UNCHANGED <<runs, accepted, dispatched, handle, subError, faults>>

Resolve(s) ==
    /\ psub[s] = "resolve"
    /\ LET found == ByName(Newest)
       IN  /\ found # {}
           /\ At(s, "resolve", "cancel")
           /\ listedRuns' = [listedRuns EXCEPT ![s] = found]
    /\ UNCHANGED <<runs, accepted, dispatched, handle, subError, faults>>

\* DispatchWorkflow: accepted, or accepted without an answer and repeated.
Dispatch(s) ==
    /\ psub[s] = "dispatch"
    /\ accepted' = accepted + 1
    /\ dispatched' = dispatched + 1
    /\ \/ At(s, "dispatch", "resolve") /\ UNCHANGED faults
       \/ At(s, "dispatch", "probe") /\ SubFault
    /\ UNCHANGED <<runs, listedRuns, handle, subError>>

\* CancelRun of one sibling; 409 and 404 are success, so is 2xx.
CancelSibling(s) ==
    /\ psub[s] = "cancel"
    /\ \E i \in listedRuns[s] \ {Canonical(listedRuns[s])} :
          /\ runs' = [runs EXCEPT ![i].live = FALSE]
          /\ listedRuns' = [listedRuns EXCEPT ![s] = @ \ {i}]
    /\ \/ UNCHANGED <<psub, faults>>
       \/ At(s, "cancel", "probe") /\ SubFault
    /\ UNCHANGED <<accepted, dispatched, handle, subError>>

Answer(s) ==
    /\ At(s, "cancel", "done")
    /\ listedRuns[s] = {Canonical(listedRuns[s])}
    /\ handle' = [handle EXCEPT ![s] = Canonical(listedRuns[s])]
    /\ UNCHANGED <<runs, accepted, dispatched, listedRuns, subError, faults>>

\* Any call of the submitter that is refused unserved.
SubRefused(s) ==
    /\ psub[s] # "done"
    /\ SubFault
    /\ \E kind \in {"Transient", "RateLimited", "Auth"} :
          IF Retried(kind, {}, 1, 0)
          THEN psub' = [psub EXCEPT ![s] = "probe"] /\ UNCHANGED subError
          ELSE psub' = [psub EXCEPT ![s] = "done"] /\ subError' = [subError EXCEPT ![s] = kind]
    /\ UNCHANGED <<runs, accepted, dispatched, listedRuns, handle>>

\* GitHub creates an accepted run; others' runs come too.
CreateRun == /\ accepted > 0
             /\ accepted' = accepted - 1
             /\ runs' = Append(runs, [ours |-> TRUE, live |-> TRUE])
             /\ UNCHANGED <<dispatched, psub, listedRuns, handle, subError, faults>>

ForeignRun == /\ \E s \in Submitters : psub[s] # "done"
              /\ Cardinality({i \in DOMAIN runs : ~Ours(i)}) < MaxForeign
              /\ runs' = Append(runs, [ours |-> FALSE, live |-> TRUE])
              /\ UNCHANGED <<accepted, dispatched, psub, listedRuns, handle, subError, faults>>

SubSteps(s) == Probe(s) \/ Dispatch(s) \/ Resolve(s) \/ CancelSibling(s) \/ Answer(s)

NextRuns == \/ \E s \in Submitters : SubSteps(s) \/ SubRefused(s)
            \/ CreateRun
            \/ ForeignRun
-----------------------------------------------------------------------------
(* Type correctness; and a caller that still runs has no answer.           *)
RunsTypeOK ==
    /\ runs \in Seq([ours : BOOLEAN, live : BOOLEAN])
    /\ accepted \in Nat /\ dispatched \in Nat
    /\ psub \in [Submitters -> {"probe", "dispatch", "resolve", "cancel", "done"}]
    /\ listedRuns \in [Submitters -> SUBSET (DOMAIN runs)]
    /\ handle \in [Submitters -> {0} \union DOMAIN runs]
    /\ subError \in [Submitters -> Kinds \union {"none"}]
    /\ \A s \in Submitters : psub[s] # "done" => handle[s] = 0 /\ subError[s] = "none"

(* Submitters of one token answer one and the same run, the oldest of its  *)
(* name, which none of them cancels, unless more runs than a page holds    *)
(* exist: then the oldest may have left the page they select from.         *)
OneHandle ==
    Len(runs) <= PageSize =>
        \A s \in Submitters : handle[s] # 0 =>
            handle[s] = Min({i \in DOMAIN runs : Ours(i)}) /\ handle[s] \in OursAlive
=============================================================================
