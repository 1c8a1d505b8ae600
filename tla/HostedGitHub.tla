----------------------------- MODULE HostedGitHub -----------------------------
(***************************************************************************)
(* The GitHub client's callers over one installation: provisioning and     *)
(* listing repositories, seating the workflow file, dispatching its run,   *)
(* storing the run's output, and committing to a session branch.  The      *)
(* seat's commits move the head on which a new output is committed.  The   *)
(* callers at work are a crew.                                             *)
(***************************************************************************)
EXTENDS Naturals, Sequences, FiniteSets

CONSTANTS Provisioners, Wanted, Listers, Repos, Refused, MaxDeletions,
          Seaters, Content, NoFile,
          Submitters, MaxForeign,
          Storers, NoCommit,
          Writers, Merge, Direct, NoBranch, MaxSessionFaults,
          PageSize, MaxFaults,
          Olds,         \* the sets of repositories there may be at first
          Crews         \* the sets of callers considered together

Callers == Provisioners \union Listers \union Seaters \union Submitters \union Storers
           \union Writers

ASSUME CrewAssumption ==
    /\ Crews \subseteq SUBSET Callers
    /\ Provisioners \intersect Listers = {}
    /\ Repos \subseteq Nat /\ IsFiniteSet(Repos) /\ MaxDeletions \in Nat
    /\ Wanted \in [Provisioners -> Repos] /\ Refused \subseteq Repos
    /\ Olds \subseteq SUBSET (Repos \ Refused)
    /\ NoFile \notin {Content[s] : s \in Seaters}
    /\ NoCommit \notin [base : Nat, key : Storers]
    /\ NoBranch \notin Seq(Writers \union {Merge, Direct})
    /\ {Merge, Direct} \intersect Writers = {} /\ MaxSessionFaults \in Nat
    /\ PageSize \in Nat \ {0} /\ MaxFaults \in Nat

VARIABLES catalog, posts, pcat, answer, listed, awaited, lost, deleted,
          log, puts, pseat, seen, since, seated, seatedAt,
          runs, accepted, dispatched, psub, listedRuns, handle, subError,
          onDefault, output, pushes, pstore, cloned, stored, address,
          main, session, psess, base, exists, work, told, acked, dropped, deletes,
          crew, faults

Catalog == INSTANCE OrgCatalog
Seat == INSTANCE WorkflowSeat
Runs == INSTANCE RunDispatch
Store == INSTANCE OutputStore WITH head <- Len(log)
Session == INSTANCE SessionBranch WITH MaxFaults <- MaxSessionFaults

catalogVars == <<catalog, posts, pcat, answer, listed, awaited, lost, deleted>>
seatVars == <<log, puts, pseat, seen, since, seated, seatedAt>>
runVars == <<runs, accepted, dispatched, psub, listedRuns, handle, subError>>
storeVars == <<onDefault, output, pushes, pstore, cloned, stored, address>>
sessionVars == <<main, session, psess, base, exists, work, told, acked, dropped, deletes>>
vars == <<catalogVars, seatVars, runVars, storeVars, sessionVars, crew, faults>>

TypeOK == /\ Catalog!CatalogTypeOK
          /\ Seat!SeatTypeOK
          /\ Runs!RunsTypeOK
          /\ Store!StoreTypeOK
          /\ Session!SessionTypeOK
          /\ crew \in Crews /\ faults \in Nat

Init == /\ crew \in Crews
        /\ Catalog!InitCatalog(crew, IF crew \intersect Listers = {} THEN {{}} ELSE Olds)
        /\ Seat!InitSeat(crew, IF crew \subseteq Seaters THEN {Content[s] : s \in Seaters} ELSE {})
        /\ Runs!InitRuns(crew)
        /\ Store!InitStore(crew)
        /\ Session!InitSession(crew)
        /\ faults = 0

CatalogStep == Catalog!NextCatalog /\ UNCHANGED <<seatVars, runVars, storeVars, sessionVars, crew>>
SeatStep == Seat!NextSeat /\ UNCHANGED <<catalogVars, runVars, storeVars, sessionVars, crew>>
RunsStep == Runs!NextRuns /\ UNCHANGED <<catalogVars, seatVars, storeVars, sessionVars, crew>>
StoreStep == Store!NextStore /\ UNCHANGED <<catalogVars, seatVars, runVars, sessionVars, crew>>
SessionStep == Session!SessionNext /\ UNCHANGED <<catalogVars, seatVars, runVars, storeVars, crew>>

Next == CatalogStep \/ SeatStep \/ RunsStep \/ StoreStep \/ SessionStep

Spec == Init /\ [][Next]_vars

(* A caller's attempt goes on, Temporal repeats it, and GitHub creates the *)
(* runs it accepted; no late call need ever be served.                     *)
CatalogProgress(c) == Catalog!CallerSteps(c) /\ UNCHANGED <<seatVars, runVars, storeVars, sessionVars, crew>>
SeatProgress(s) == Seat!SeatSteps(s) /\ UNCHANGED <<catalogVars, runVars, storeVars, sessionVars, crew>>
RunsProgress(s) == Runs!SubSteps(s) /\ UNCHANGED <<catalogVars, seatVars, storeVars, sessionVars, crew>>
RunsCreated == Runs!CreateRun /\ UNCHANGED <<catalogVars, seatVars, storeVars, sessionVars, crew>>
StoreProgress(o) == Store!StoreSteps(o) /\ UNCHANGED <<catalogVars, seatVars, runVars, sessionVars, crew>>
SessionProgress(w) == Session!Call(w) /\ UNCHANGED <<catalogVars, seatVars, runVars, storeVars, crew>>

FairSpec == /\ Spec
            /\ \A c \in Provisioners \union Listers : WF_vars(CatalogProgress(c))
            /\ \A s \in Seaters : WF_vars(SeatProgress(s))
            /\ \A s \in Submitters : WF_vars(RunsProgress(s))
            /\ WF_vars(RunsCreated)
            /\ \A o \in Storers : WF_vars(StoreProgress(o))
            /\ \A w \in Writers : WF_vars(SessionProgress(w))
-----------------------------------------------------------------------------
BareIsOwed == Catalog!BareIsOwed
CatalogComplete == Catalog!CatalogComplete
RefusalMeansRace == Seat!RefusalMeansRace
CommittedOnce == Session!CommittedOnce

(* Whoever asks for the same is answered the same: submitters of a token   *)
(* one run (RunDispatch), storers of a content one address (OutputStore).  *)
OneAnswer == Runs!OneHandle /\ Store!OneAddress

(* Every call returns, after whatever lost answers, refusals and races, a  *)
(* writer's with its commit reported, however its branch is born or goes;  *)
(* but two: a store whose content is on the default branch with no branch  *)
(* of its own is an error that is retried for ever, and a submitter waits  *)
(* for a run that other runs may have pushed off the page it reads.        *)
EveryCallReturns ==
    <>(/\ \A c \in Provisioners \union Listers : pcat[c] = "done"
       /\ \A s \in Seaters : pseat[s] = "done"
       /\ \A s \in Submitters : psub[s] = "done" \/ Len(runs) > PageSize
       /\ \A o \in Storers : pstore[o] = "done" \/ onDefault
       /\ \A w \in Writers : psess[w] = "away" \/ w \in acked)
=============================================================================
