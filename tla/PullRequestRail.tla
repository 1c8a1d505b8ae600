--------------------------- MODULE PullRequestRail ---------------------------
(***************************************************************************)
(* The pull request rail (github_pullrequest.go): each operation is one or *)
(* more REST calls, run by an activity that is retried on retryable kinds. *)
(* A call can fail before it is served, after it was served, or while it   *)
(* is still in transit and be served later, after its caller's retry.      *)
(*                                                                         *)
(* One head branch and one base branch; a commit is the set of changes it  *)
(* contains.  GitHub is modelled as the operations it serves.              *)
(***************************************************************************)
EXTENDS ErrorKinds, FiniteSets, Sequences

CONSTANTS Clients,    \* activities
          Plans,      \* the ways to give each an operation
          CheckRuns,  \* the check runs of every head commit
          FirstPage,  \* those that one page of the listing returns
          NoBranch,   \* an absent branch
          MaxChanges, \* bound on changes made by anybody
          MaxPulls,   \* bound on pull requests
          MaxFaults   \* bound on failed calls

Ops == {"create", "open", "status", "review", "merge", "close", "delete", "protect"}

ASSUME RailAssumption == /\ Plans \subseteq [Clients -> Ops]
                         /\ FirstPage \subseteq CheckRuns
                         /\ \A h \in SUBSET (1 .. MaxChanges) : h # NoBranch
                         /\ MaxChanges \in Nat /\ MaxPulls \in Nat /\ MaxFaults \in Nat

VARIABLES main,       \* the changes on the base branch
          branch,     \* the changes on the head branch
          pulls,      \* the pull requests, by number
          checks,     \* for each head commit, the state of its check runs
          protected,  \* the base branch is protected
          transit,    \* calls whose caller gave up, not yet served
          pc,         \* how far each client's attempt is
          arg,        \* what its attempt has read and will write
          answer,     \* the result of its operation
          does,       \* the operation each client performs
          faults,     \* failed calls so far
          changes     \* changes made so far

remote == <<main, branch, pulls, checks, protected>>
caller == <<pc, arg, answer, does>>
vars == <<remote, transit, caller, faults, changes>>

Heads == SUBSET (1 .. MaxChanges)
Pulls == [state : {"open", "closed", "merged"}, head : Heads, approvals : Nat]
Rollups == {"pending", "success", "failure"}
Args == [sha : Heads \union {NoBranch}, number : 0 .. MaxPulls, mergeable : BOOLEAN,
         rollup : Rollups]
Calls == [op : Ops, sha : Heads \union {NoBranch}, number : 0 .. MaxPulls]
Answers == Kinds \union {"none", "ok", "already"}

(* Type correctness; and a client that still runs has no final answer.     *)
TypeOK == /\ main \in Heads /\ branch \in Heads \union {NoBranch}
          /\ pulls \in Seq(Pulls) /\ Len(pulls) <= MaxPulls
          /\ checks \in [Heads -> [CheckRuns -> {"running", "passed", "failed"}]]
          /\ protected \in BOOLEAN
          /\ transit \subseteq Calls
          /\ pc \in [Clients -> {"start", "write", "find", "checks", "reviews", "done"}]
          /\ arg \in [Clients -> Args]
          /\ answer \in [Clients -> Answers]
          /\ does \in Plans
          /\ faults \in 0 .. MaxFaults
          /\ changes \in 0 .. MaxChanges
          /\ \A c \in Clients : /\ pc[c] = "done" => answer[c] # "none"
                                /\ answer[c] \in {"ok", "already"} => pc[c] = "done"

NoArg == [sha |-> NoBranch, number |-> 0, mergeable |-> FALSE, rollup |-> "pending"]

Init == /\ main = {} /\ branch = NoBranch /\ pulls = <<>>
        /\ checks = [h \in Heads |-> [r \in CheckRuns |-> "running"]]
        /\ protected = FALSE
        /\ transit = {}
        /\ pc = [c \in Clients |-> "start"]
        /\ arg = [c \in Clients |-> NoArg]
        /\ answer = [c \in Clients |-> "none"]
        /\ does \in Plans
        /\ faults = 0 /\ changes = 0
-----------------------------------------------------------------------------
(* GitHub.                                                                 *)

OpenPulls == {n \in DOMAIN pulls : pulls[n].state = "open"}
Ahead == branch # NoBranch /\ ~(branch \subseteq main)
\* histories that diverged cannot be merged (see SessionBranch)
Mergeable(n) == branch # NoBranch /\ main \subseteq branch /\ n \in OpenPulls

\* What a write is answered, and what it does.
Status(q) ==
    CASE q.op = "create" -> IF branch = NoBranch THEN 201 ELSE 422
      [] q.op = "open" -> IF OpenPulls = {} /\ Ahead THEN 201 ELSE 422
      [] q.op = "merge" -> IF Mergeable(q.number) THEN 200 ELSE 405
      [] q.op = "delete" -> IF branch # NoBranch THEN 204 ELSE 422
      [] OTHER -> 200

CloseAll == [n \in DOMAIN pulls |->
                IF n \in OpenPulls THEN [pulls[n] EXCEPT !.state = "closed"] ELSE pulls[n]]

Serve(q) ==
    /\ q.op = "open" /\ Succeeded(Status(q)) => Len(pulls) < MaxPulls
    /\ branch' = CASE q.op = "create" /\ Succeeded(Status(q)) -> q.sha
                   [] q.op = "delete" -> NoBranch
                   [] OTHER -> branch
    /\ pulls' = IF ~Succeeded(Status(q)) THEN pulls
                ELSE CASE q.op = "open" ->
                            Append(pulls, [state |-> "open", head |-> branch, approvals |-> 0])
                       [] q.op = "merge" -> [pulls EXCEPT ![q.number].state = "merged"]
                       [] q.op = "close" /\ q.number \in OpenPulls ->
                            [pulls EXCEPT ![q.number].state = "closed"]
                       [] q.op = "review" -> [pulls EXCEPT ![q.number].approvals = @ + 1]
                       [] q.op = "delete" -> CloseAll
                       [] OTHER -> pulls
    /\ main' = IF q.op = "merge" /\ Succeeded(Status(q)) THEN main \union branch ELSE main
    /\ protected' = (protected \/ q.op = "protect")
    /\ UNCHANGED checks

\* The head-state store commits to the branch; an open pull request follows.
Push == /\ branch # NoBranch /\ changes < MaxChanges
        /\ changes' = changes + 1
        /\ branch' = branch \union {changes + 1}
        /\ pulls' = [n \in DOMAIN pulls |->
                        IF n \in OpenPulls THEN [pulls[n] EXCEPT !.head = branch'] ELSE pulls[n]]
        /\ UNCHANGED <<main, checks, protected, transit, caller, faults>>

\* A user pushes to the base branch, unless it is protected.
PushOutOfBand == /\ ~protected /\ changes < MaxChanges
                 /\ changes' = changes + 1
                 /\ main' = main \union {changes + 1}
                 /\ UNCHANGED <<branch, pulls, checks, protected, transit, caller, faults>>

\* A check run of the branch's head ends.
CheckEnds(r) == /\ branch # NoBranch /\ checks[branch][r] = "running"
                /\ \E result \in {"passed", "failed"} :
                      checks' = [checks EXCEPT ![branch][r] = result]
                /\ UNCHANGED <<main, branch, pulls, protected, transit, caller, faults, changes>>
-----------------------------------------------------------------------------
(* What a client does with a call's outcome.                               *)

Call(c) == [op |-> does[c], sha |-> arg[c].sha, number |-> arg[c].number]

Continue(c, label, a) == /\ pc' = [pc EXCEPT ![c] = label]
                         /\ arg' = [arg EXCEPT ![c] = a]
                         /\ UNCHANGED <<answer, does>>

Finish(c, result) == /\ pc' = [pc EXCEPT ![c] = "done"]
                     /\ answer' = [answer EXCEPT ![c] = result]
                     /\ UNCHANGED does

Quietly == UNCHANGED <<remote, transit, faults, changes>>

\* An error: the activity runs the operation again, or reports it.
Fails(c, kind) ==
    /\ IF Retried(kind, {}, 1, 0)
       THEN /\ pc' = [pc EXCEPT ![c] = "start"]
            /\ UNCHANGED <<answer, does>>
       ELSE Finish(c, kind)
    /\ UNCHANGED arg
-----------------------------------------------------------------------------
(* The first call of each operation.                                       *)

Start(c, op) == pc[c] = "start" /\ does[c] = op

\* The pull request an operation is about; a retry is about the same one.
About(c) == IF arg[c].number # 0 THEN {arg[c].number} ELSE DOMAIN pulls

\* CreateBranch: getRefSHA of the base.
CreateBranch(c) == /\ Start(c, "create")
                   /\ Continue(c, "write", [arg[c] EXCEPT !.sha = main])
                   /\ Quietly

\* OpenPullRequest, PostReview, DeleteBranch, ConfigureBranchProtection begin with the write.
Request(c) == /\ pc[c] = "start" /\ does[c] \in {"open", "delete", "protect"}
              /\ Continue(c, "write", arg[c])
              /\ Quietly

PostReview(c) == /\ Start(c, "review")
                 /\ \E n \in About(c) : Continue(c, "write", [arg[c] EXCEPT !.number = n])
                 /\ Quietly

\* MergePullRequest: the pull request is read first.
MergePullRequest(c) ==
    /\ Start(c, "merge")
    /\ \E n \in About(c) :
          IF pulls[n].state = "merged"
          THEN Finish(c, "already") /\ arg' = [arg EXCEPT ![c].number = n]
          ELSE Continue(c, "write", [arg[c] EXCEPT !.number = n])
    /\ Quietly

\* ClosePullRequest: the pull request is read first.
ClosePullRequest(c) ==
    /\ Start(c, "close")
    /\ \E n \in About(c) :
          IF pulls[n].state \in {"merged", "closed"}
          THEN Finish(c, "already") /\ arg' = [arg EXCEPT ![c].number = n]
          ELSE Continue(c, "write", [arg[c] EXCEPT !.number = n])
    /\ Quietly

\* GetPullStatus: the pull request, with its head and whether it can be merged ...
GetPullStatus(c) ==
    /\ Start(c, "status")
    /\ \E n \in About(c) :
          Continue(c, "checks", [arg[c] EXCEPT !.number = n, !.sha = pulls[n].head,
                                               !.mergeable = Mergeable(n)])
    /\ Quietly

\* ... the check runs of that head ...
foldCheckRollup(runs) ==
    IF "failed" \in {runs[r] : r \in FirstPage} THEN "failure"
    ELSE IF "running" \in {runs[r] : r \in FirstPage} THEN "pending"
    ELSE "success"

\* (mutations: the checks of whatever the branch is now; a check that runs is overlooked)
RollupOfBranch(c) == IF branch = NoBranch THEN "pending" ELSE foldCheckRollup(checks[branch])
-----------------------------------------------------------------------------
getCheckRollup(c) == foldCheckRollup(checks[arg[c].sha])

ReadChecks(c) == /\ pc[c] = "checks"
                 /\ Continue(c, "reviews", [arg[c] EXCEPT !.rollup = getCheckRollup(c)])
                 /\ Quietly

\* ... and the reviews.
ReadReviews(c) == /\ pc[c] = "reviews"
                  /\ Finish(c, "ok")
                  /\ UNCHANGED arg
                  /\ Quietly
-----------------------------------------------------------------------------
\* (mutations: an already existing ref is an error; a write's status is not looked at)
StrictOutcome(op, status) == IF Succeeded(status) THEN "ok" ELSE ClassifyStatus(status)
LaxOutcome(op, status) == IF status = TransportFailed THEN "Transient" ELSE "ok"

(* What the answer to a write means to its operation.                      *)
Outcome(op, status) ==
    CASE Succeeded(status) -> "ok"
      [] op = "create" /\ status \in {409, 422} -> "already"
      [] op = "delete" /\ status \in {404, 422} -> "already"
      [] OTHER -> ClassifyStatus(status)

\* The write is served and answered.
Write(c) ==
    /\ pc[c] = "write"
    /\ Serve(Call(c))
    /\ LET status == Status(Call(c))
           result == Outcome(does[c], status)
       IN  CASE does[c] = "open" /\ status = 422 -> Continue(c, "find", arg[c])
             [] does[c] = "open" /\ status = 201 ->
                  Finish(c, "ok") /\ arg' = [arg EXCEPT ![c].number = Len(pulls')]
             [] does[c] # "open" /\ result \in {"ok", "already"} -> Finish(c, result) /\ UNCHANGED arg
             [] OTHER -> Fails(c, result)
    /\ UNCHANGED <<transit, faults, changes>>

\* findOpenPR, after a proposal was rejected
FindOpenPR(c) ==
    /\ pc[c] = "find"
    /\ IF OpenPulls # {}
       THEN \E n \in OpenPulls : Finish(c, "already") /\ arg' = [arg EXCEPT ![c].number = n]
       ELSE Fails(c, ClassifyStatus(422))
    /\ Quietly

(* A call gets no answer.  A read is just repeated with the operation; a   *)
(* write may have been served, be lost, or be served later.                *)
NoAnswer(c) ==
    /\ pc[c] \in {"write", "find", "checks", "reviews"} /\ faults < MaxFaults
    /\ faults' = faults + 1
    /\ \/ UNCHANGED <<remote, transit>>
       \/ pc[c] = "write" /\ Serve(Call(c)) /\ UNCHANGED transit
       \/ pc[c] = "write" /\ transit' = transit \union {Call(c)} /\ UNCHANGED remote
    /\ Fails(c, ClassifyStatus(TransportFailed))
    /\ UNCHANGED changes

\* A call in transit is served; nobody waits for its answer.
ServeLate(q) == /\ q \in transit
                /\ Serve(q)
                /\ transit' = transit \ {q}
                /\ UNCHANGED <<caller, faults, changes>>
-----------------------------------------------------------------------------
Step(c) == \/ CreateBranch(c) \/ Request(c) \/ PostReview(c) \/ MergePullRequest(c)
           \/ ClosePullRequest(c) \/ GetPullStatus(c) \/ ReadChecks(c) \/ ReadReviews(c)
           \/ Write(c) \/ FindOpenPR(c)

Next == \/ \E c \in Clients : Step(c) \/ NoAnswer(c)
        \/ \E q \in transit : ServeLate(q)
        \/ Push \/ PushOutOfBand \/ \E r \in CheckRuns : CheckEnds(r)

Spec == Init /\ [][Next]_vars

(* Activities are retried; GitHub need not serve what its caller gave up.  *)
FairSpec == Spec /\ \A c \in Clients : WF_vars(Step(c))
-----------------------------------------------------------------------------
Reported(op) == {c \in Clients : does[c] = op /\ answer[c] \in {"ok", "already"}}

(* What was reported stays so, whatever is still in transit: a merged pull *)
(* request stays merged, one reported closed is never open again, the base *)
(* branch keeps every merged change, and it is protected once that was     *)
(* reported, so that it moves by merges only.                              *)
Settled == /\ \A c \in Reported("merge") : /\ pulls[arg[c].number].state = "merged"
                                           /\ pulls[arg[c].number].head \subseteq main
           /\ \A c \in Reported("close") : pulls[arg[c].number].state # "open"
           /\ Reported("protect") # {} => protected

(* The status reported is about one commit: the one that the mergeability  *)
(* was read for is the one whose listed checks have passed.                *)
RollupOfHead ==
    \A c \in Reported("status") :
        arg[c].rollup = "success" =>
            \A r \in FirstPage : checks[arg[c].sha][r] = "passed"

(* Every operation that was begun ends, and the idempotent ones are begun  *)
(* and end well, however their calls fare.                                 *)
EventuallyAnswered ==
    <>[](\A c \in Clients :
            /\ pc[c] \in {"start", "done"}
            /\ does[c] \in {"create", "delete", "protect"} => answer[c] \in {"ok", "already"})
=============================================================================
