----------------------- MODULE PullRequestRail_proofs -----------------------
(***************************************************************************)
(* Proofs about PullRequestRail, for any activities, plans, check runs and *)
(* bounds.                                                                 *)
(***************************************************************************)
EXTENDS PullRequestRail, TLAPS

\* An open pull request proposes what the head branch holds; what was merged
\* is on the base branch.
PullsFollow ==
    \A n \in DOMAIN pulls :
        /\ pulls[n].state = "open" => pulls[n].head = branch /\ branch # NoBranch
        /\ pulls[n].state = "merged" => pulls[n].head \subseteq main

\* What GitHub holds.
RemoteOK == /\ main \in Heads /\ branch \in Heads \union {NoBranch}
            /\ pulls \in Seq(Pulls) /\ Len(pulls) <= MaxPulls
            /\ checks \in [Heads -> [CheckRuns -> {"running", "passed", "failed"}]]
            /\ protected \in BOOLEAN

CallersOK == /\ pc \in [Clients -> {"start", "write", "find", "checks", "reviews", "done"}]
             /\ arg \in [Clients -> Args]
             /\ answer \in [Clients -> Answers]
             /\ does \in Plans
             /\ \A c \in Clients : /\ pc[c] = "done" => answer[c] # "none"
                                   /\ answer[c] \in {"ok", "already"} => pc[c] = "done"

BoundsOK == transit \subseteq Calls /\ faults \in 0 .. MaxFaults /\ changes \in 0 .. MaxChanges

\* What the attempt of one activity relies on, and what its answer says: the
\* pull request it is about exists once it was looked up; the checks it read
\* are those of the head it read.
Numbered == {"status", "review", "merge", "close"}
Answered(c) == answer[c] \in {"ok", "already"}
ClientOK(c) ==
    /\ pc[c] \in {"checks", "reviews"} => does[c] = "status"
    /\ pc[c] = "find" => does[c] = "open"
    /\ pc[c] = "write" => does[c] # "status"
    /\ arg[c].number \in 0 .. Len(pulls)
    /\ does[c] \in Numbered /\ pc[c] # "start" => arg[c].number # 0
    /\ does[c] = "status" /\ (pc[c] \in {"checks", "reviews"} \/ Answered(c)) => arg[c].sha \in Heads
    /\ does[c] = "status" /\ (pc[c] = "reviews" \/ Answered(c)) /\ arg[c].rollup = "success" =>
          \A r \in FirstPage : checks[arg[c].sha][r] = "passed"
    /\ does[c] = "merge" /\ Answered(c) => /\ pulls[arg[c].number].state = "merged"
                                           /\ pulls[arg[c].number].head \subseteq main
    /\ does[c] = "close" /\ Answered(c) => pulls[arg[c].number].state # "open"
    /\ does[c] = "protect" /\ Answered(c) => protected

IInv == RemoteOK /\ CallersOK /\ BoundsOK /\ PullsFollow /\ \A c \in Clients : ClientOK(c)

\* What no step undoes: a pull request that left the open state, what was
\* merged, the protection, a check that passed.
Settling == /\ Len(pulls) <= Len(pulls')
            /\ \A n \in 1 .. Len(pulls) :
                  /\ pulls[n].state = "merged" => pulls'[n].state = "merged" /\ pulls'[n].head = pulls[n].head
                  /\ pulls[n].state # "open" => pulls'[n].state # "open"
            /\ main \subseteq main'
            /\ protected => protected'
            /\ \A h \in Heads, r \in CheckRuns : checks[h][r] = "passed" => checks'[h][r] = "passed"
-----------------------------------------------------------------------------
(* GitHub's part *)

\* A sequence that is rewritten place by place keeps its length.
LEMMA Rewritten ==
    ASSUME NEW S, NEW s \in Seq(S), NEW t, DOMAIN t = DOMAIN s, t = [n \in DOMAIN t |-> t[n]],
           \A n \in DOMAIN s : t[n] \in S
    PROVE  t \in Seq(S) /\ Len(t) = Len(s)
  OBVIOUS

\* A pull request that is merged or closed keeps its head, and the others stay.
LEMMA StateSet ==
    ASSUME NEW s \in Seq(Pulls), NEW n \in DOMAIN s, NEW st \in {"closed", "merged"},
           NEW t, t = [s EXCEPT ![n].state = st]
    PROVE  /\ t \in Seq(Pulls) /\ Len(t) = Len(s)
           /\ t[n].state = st /\ t[n].head = s[n].head
           /\ \A m \in DOMAIN s \ {n} : t[m] = s[m]
<1> DEFINE p == [s[n] EXCEPT !.state = st]
<1>1. s[n] \in Pulls
  OBVIOUS
<1>2. p \in Pulls /\ p.state = st /\ p.head = s[n].head
  BY <1>1 DEF Pulls
<1>3. DOMAIN t = DOMAIN s /\ t[n] = p /\ \A m \in DOMAIN s \ {n} : t[m] = s[m]
  OBVIOUS
<1>4. t = [m \in DOMAIN t |-> t[m]]
  OBVIOUS
<1> HIDE DEF p
<1>5. \A m \in DOMAIN s : t[m] \in Pulls
  BY <1>2, <1>3
<1>6. t \in Seq(Pulls) /\ Len(t) = Len(s)
  <2>1. Len(s) \in Nat /\ DOMAIN s = 1 .. Len(s)
    OBVIOUS
  <2>2. t \in [1 .. Len(s) -> Pulls]
    BY <1>3, <1>4, <1>5, <2>1
  <2> QED  BY <2>1, <2>2
<1> QED  BY <1>2, <1>3, <1>6

LEMMA Approved ==
    ASSUME NEW s \in Seq(Pulls), NEW n \in DOMAIN s, NEW t, t = [s EXCEPT ![n].approvals = @ + 1]
    PROVE  /\ t \in Seq(Pulls) /\ Len(t) = Len(s)
           /\ \A m \in DOMAIN s : t[m].state = s[m].state /\ t[m].head = s[m].head
<1> DEFINE p == [s[n] EXCEPT !.approvals = @ + 1]
<1>1. s[n] \in Pulls
  OBVIOUS
<1>2. p \in Pulls /\ p.state = s[n].state /\ p.head = s[n].head
  <2>1. p = [state |-> s[n].state, head |-> s[n].head, approvals |-> s[n].approvals + 1]
    BY <1>1 DEF Pulls
  <2> QED  BY <1>1, <2>1 DEF Pulls
<1>3. DOMAIN t = DOMAIN s /\ t[n] = p /\ \A m \in DOMAIN s \ {n} : t[m] = s[m]
  OBVIOUS
<1>4. t = [m \in DOMAIN t |-> t[m]]
  OBVIOUS
<1> HIDE DEF p
<1>5. \A m \in DOMAIN s : t[m] \in Pulls
  BY <1>2, <1>3
<1>6. t \in Seq(Pulls) /\ Len(t) = Len(s)
  <2>1. Len(s) \in Nat /\ DOMAIN s = 1 .. Len(s)
    OBVIOUS
  <2>2. t \in [1 .. Len(s) -> Pulls]
    BY <1>3, <1>4, <1>5, <2>1
  <2> QED  BY <2>1, <2>2
<1> QED  BY <1>2, <1>3, <1>6

LEMMA RemoteIdle ==
    ASSUME RemoteOK, PullsFollow, UNCHANGED remote PROVE RemoteOK' /\ PullsFollow' /\ Settling
  BY DEF RemoteOK, PullsFollow, Settling, remote

\* Nothing happens to the pull requests; at most an absent branch comes.
LEMMA PullsKept ==
    ASSUME RemoteOK, PullsFollow, UNCHANGED <<main, pulls, checks>>,
           protected' \in BOOLEAN, protected => protected',
           branch' = branch \/ (branch = NoBranch /\ branch' \in Heads \union {NoBranch})
    PROVE  RemoteOK' /\ PullsFollow' /\ Settling
  BY DEF RemoteOK, PullsFollow, Settling

\* Whatever GitHub serves, a pull request that was merged stays so.
LEMMA ServeSettles ==
    ASSUME RemoteOK, PullsFollow, NEW q \in Calls, Serve(q)
    PROVE  RemoteOK' /\ PullsFollow' /\ Settling
<1>1. UNCHANGED checks
  BY DEF Serve
<1>2. protected' \in BOOLEAN /\ (protected => protected')
  BY DEF Serve
<1>3. q.op \in Ops /\ q.sha \in Heads \union {NoBranch}
  BY DEF Calls
<1>4. \/ q.op = "open" /\ Succeeded(Status(q))
      \/ q.op = "merge" /\ Mergeable(q.number)
      \/ q.op = "close" /\ q.number \in OpenPulls
      \/ q.op = "review" /\ q.number \in DOMAIN pulls
      \/ q.op = "delete" /\ branch # NoBranch
      \/ UNCHANGED <<main, pulls>> /\ (branch' = branch \/ (branch = NoBranch /\ branch' \in Heads \union {NoBranch}))
  <2>a. CASE ~Succeeded(Status(q))
    <3>1. pulls' = pulls /\ main' = main
      BY <2>a DEF Serve
    <3>2. branch' = branch \/ (q.op = "delete" /\ branch' = NoBranch)
      BY <2>a DEF Serve
    <3>3. q.op = "delete" => branch = NoBranch \/ branch # NoBranch
      OBVIOUS
    <3> QED  BY <3>1, <3>2
  <2>b. q.op = "create" /\ Succeeded(Status(q)) => branch = NoBranch
    BY DEF Succeeded, Status
  <2>c. q.op = "merge" /\ Succeeded(Status(q)) => Mergeable(q.number)
    BY DEF Succeeded, Status
  <2>1. CASE q.op \in {"create", "status", "protect"}
    <3>1. pulls' = pulls /\ main' = main
      BY <2>1 DEF Serve
    <3>2. CASE q.op = "create" /\ Succeeded(Status(q))
      BY <1>3, <2>b, <3>1, <3>2 DEF Serve
    <3>3. CASE ~(q.op = "create" /\ Succeeded(Status(q)))
      <4>1. branch' = branch
        BY <2>1, <3>3 DEF Serve
      <4> QED  BY <3>1, <4>1
    <3> QED  BY <3>2, <3>3
  <2>2. CASE q.op = "open"
    BY <2>2, <2>a
  <2>3. CASE q.op = "merge"
    BY <2>3, <2>a, <2>c
  <2>4. CASE q.op = "close" /\ q.number \notin OpenPulls
    BY <2>4 DEF Serve
  <2>5. CASE q.op = "review" /\ q.number \notin DOMAIN pulls
    <3>1. [pulls EXCEPT ![q.number].approvals = @ + 1] = pulls
      BY <2>5 DEF RemoteOK
    <3> QED  BY <2>5, <3>1 DEF Serve
  <2>7. CASE q.op = "delete" /\ Succeeded(Status(q))
    BY <2>7 DEF Succeeded, Status
  <2> QED  BY <1>3, <2>a, <2>1, <2>2, <2>3, <2>4, <2>5, <2>7 DEF Ops
<1>5. CASE q.op = "open" /\ Succeeded(Status(q))
  <2> DEFINE new == [state |-> "open", head |-> branch, approvals |-> 0]
  <2>1. branch \in Heads /\ branch # NoBranch /\ new \in Pulls
    <3>1. Ahead
      BY <1>5 DEF Succeeded, Status
    <3> QED  BY <3>1 DEF Ahead, Pulls, RemoteOK
  <2>2. pulls' = Append(pulls, new)
    BY <1>5 DEF Serve
  <2>3. Len(pulls) < MaxPulls
    BY <1>5 DEF Serve
  <2>4. UNCHANGED <<main, branch>>
    BY <1>5 DEF Serve
  <2>5. new.state = "open" /\ new.head = branch
    OBVIOUS
  <2> HIDE DEF new
  <2>6. /\ pulls' \in Seq(Pulls) /\ Len(pulls') = Len(pulls) + 1
        /\ \A n \in 1 .. Len(pulls) : pulls'[n] = pulls[n]
        /\ pulls'[Len(pulls) + 1] = new
    BY <2>1, <2>2 DEF RemoteOK
  <2>7. MaxPulls \in Nat
    BY RailAssumption
  <2>x. RemoteOK'
    BY <1>1, <1>2, <2>1, <2>3, <2>4, <2>6, <2>7 DEF RemoteOK
  <2>y. PullsFollow'
    BY <1>1, <1>2, <2>1, <2>4, <2>5, <2>6 DEF RemoteOK, PullsFollow
  <2>z. Settling
    BY <1>1, <1>2, <2>4, <2>6 DEF RemoteOK, Settling
  <2> QED  BY <2>x, <2>y, <2>z
<1>6. CASE q.op = "merge" /\ Mergeable(q.number)
  <2> DEFINE n == q.number
  <2>1. /\ branch \in Heads /\ n \in DOMAIN pulls /\ pulls[n].state = "open" /\ pulls[n].head = branch
    BY <1>6 DEF Mergeable, OpenPulls, RemoteOK, PullsFollow
  <2>2. pulls' = [pulls EXCEPT ![n].state = "merged"]
    BY <1>6 DEF Serve, Succeeded, Status
  <2>0. Succeeded(Status(q))
    BY <1>6 DEF Succeeded, Status
  <2>3. main' = main \union branch /\ branch' = branch
    BY <1>6, <2>0 DEF Serve
  <2>4. main' \in Heads
    BY <2>1, <2>3 DEF Heads, RemoteOK
  <2> HIDE DEF n
  <2>5. /\ pulls' \in Seq(Pulls) /\ Len(pulls') = Len(pulls)
        /\ pulls'[n].state = "merged" /\ pulls'[n].head = pulls[n].head
        /\ \A m \in DOMAIN pulls \ {n} : pulls'[m] = pulls[m]
    <3>1. pulls \in Seq(Pulls) /\ n \in DOMAIN pulls /\ "merged" \in {"closed", "merged"}
      BY <2>1 DEF RemoteOK
    <3> QED  BY <2>2, <3>1, StateSet
  <2> HIDE DEF n
  <2>x. RemoteOK'
    BY <1>1, <1>2, <2>1, <2>3, <2>4, <2>5 DEF RemoteOK
  <2>y. PullsFollow'
    BY <1>1, <1>2, <2>1, <2>3, <2>4, <2>5 DEF RemoteOK, PullsFollow
  <2>z. Settling
    BY <1>1, <1>2, <2>1, <2>3, <2>4, <2>5 DEF RemoteOK, Settling
  <2> QED  BY <2>x, <2>y, <2>z
<1>7. CASE q.op = "close" /\ q.number \in OpenPulls
  <2> DEFINE n == q.number
  <2>1. n \in DOMAIN pulls /\ pulls[n].state = "open"
    BY <1>7 DEF OpenPulls
  <2>0. Succeeded(Status(q))
    BY <1>7 DEF Succeeded, Status
  <2>2. pulls' = [pulls EXCEPT ![n].state = "closed"]
    BY <1>7, <2>0 DEF Serve
  <2>3. UNCHANGED <<main, branch>>
    BY <1>7 DEF Serve
  <2>5. /\ pulls' \in Seq(Pulls) /\ Len(pulls') = Len(pulls)
        /\ pulls'[n].state = "closed"
        /\ \A m \in DOMAIN pulls \ {n} : pulls'[m] = pulls[m]
    BY <2>1, <2>2, StateSet DEF RemoteOK
  <2> HIDE DEF n
  <2>x. RemoteOK'
    BY <1>1, <1>2, <2>1, <2>3, <2>5 DEF RemoteOK
  <2>y. PullsFollow'
    BY <1>1, <1>2, <2>1, <2>3, <2>5 DEF RemoteOK, PullsFollow
  <2>z. Settling
    BY <1>1, <1>2, <2>1, <2>3, <2>5 DEF RemoteOK, Settling
  <2> QED  BY <2>x, <2>y, <2>z
<1>8. CASE q.op = "review" /\ q.number \in DOMAIN pulls
  <2>0. Succeeded(Status(q))
    BY <1>8 DEF Succeeded, Status
  <2>1. pulls' = [pulls EXCEPT ![q.number].approvals = @ + 1]
    BY <1>8, <2>0 DEF Serve
  <2>2. UNCHANGED <<main, branch>>
    BY <1>8 DEF Serve
  <2>3. /\ pulls' \in Seq(Pulls) /\ Len(pulls') = Len(pulls)
        /\ \A m \in DOMAIN pulls : pulls'[m].state = pulls[m].state /\ pulls'[m].head = pulls[m].head
    BY <1>8, <2>1, Approved DEF RemoteOK
  <2>x. RemoteOK'
    BY <1>1, <1>2, <2>2, <2>3 DEF RemoteOK
  <2>y. PullsFollow'
    BY <1>1, <1>2, <2>2, <2>3 DEF RemoteOK, PullsFollow
  <2>z. Settling
    BY <1>1, <1>2, <2>2, <2>3 DEF RemoteOK, Settling
  <2> QED  BY <2>x, <2>y, <2>z
<1>9. CASE q.op = "delete" /\ branch # NoBranch
  <2>0. Succeeded(Status(q))
    BY <1>9 DEF Succeeded, Status
  <2>1. pulls' = CloseAll
    BY <1>9, <2>0 DEF Serve
  <2>2. branch' = NoBranch /\ main' = main
    BY <1>9 DEF Serve
  <2>3. /\ DOMAIN pulls' = DOMAIN pulls /\ pulls' = [m \in DOMAIN pulls' |-> pulls'[m]]
        /\ \A m \in DOMAIN pulls : pulls'[m] = IF m \in OpenPulls THEN [pulls[m] EXCEPT !.state = "closed"] ELSE pulls[m]
    BY <2>1 DEF CloseAll
  <2>4. \A m \in DOMAIN pulls : /\ pulls'[m] \in Pulls /\ pulls'[m].state # "open"
                                /\ pulls'[m].state = "closed" \/ pulls'[m] = pulls[m]
                                /\ m \notin OpenPulls => pulls'[m] = pulls[m]
    <3> SUFFICES ASSUME NEW m \in DOMAIN pulls
                 PROVE  /\ pulls'[m] \in Pulls /\ pulls'[m].state # "open"
                        /\ pulls'[m].state = "closed" \/ pulls'[m] = pulls[m]
                        /\ m \notin OpenPulls => pulls'[m] = pulls[m]
      OBVIOUS
    <3>1. pulls[m] \in Pulls
      BY DEF RemoteOK
    <3>2. [pulls[m] EXCEPT !.state = "closed"] \in Pulls /\ [pulls[m] EXCEPT !.state = "closed"].state = "closed"
      BY <3>1 DEF Pulls
    <3> QED  BY <2>3, <3>1, <3>2 DEF OpenPulls
  <2>5. pulls' \in Seq(Pulls) /\ Len(pulls') = Len(pulls)
    BY <2>3, <2>4, Rewritten DEF RemoteOK
  <2>6. \A m \in DOMAIN pulls : pulls[m].state # "open" => pulls'[m] = pulls[m]
    BY <2>4 DEF OpenPulls
  <2>x. RemoteOK'
    BY <1>1, <1>2, <2>2, <2>4, <2>5, <2>6 DEF RemoteOK
  <2>y. PullsFollow'
    BY <1>1, <1>2, <2>2, <2>4, <2>5, <2>6 DEF RemoteOK, PullsFollow
  <2>z. Settling
    BY <1>1, <1>2, <2>2, <2>4, <2>5, <2>6 DEF RemoteOK, Settling
  <2> QED  BY <2>x, <2>y, <2>z
<1> QED  BY <1>1, <1>2, <1>4, <1>5, <1>6, <1>7, <1>8, <1>9, PullsKept

\* A commit by anybody: open pull requests follow the head branch.
LEMMA PushSettles ==
    ASSUME RemoteOK, BoundsOK, PullsFollow, Push
    PROVE  RemoteOK' /\ PullsFollow' /\ Settling
<1> DEFINE new == branch \union {changes + 1}
<1>1. /\ branch \in Heads /\ branch # NoBranch
      /\ changes + 1 \in 1 .. MaxChanges
  BY RailAssumption DEF Push, RemoteOK, BoundsOK
<1>2. new \in Heads
  BY <1>1 DEF Heads
<1>3. branch' = new /\ UNCHANGED <<main, checks, protected>>
  BY DEF Push
<1>4. /\ DOMAIN pulls' = DOMAIN pulls /\ pulls' = [m \in DOMAIN pulls' |-> pulls'[m]]
      /\ \A m \in DOMAIN pulls : pulls'[m] = IF m \in OpenPulls THEN [pulls[m] EXCEPT !.head = new] ELSE pulls[m]
  BY <1>3 DEF Push
<1> HIDE DEF new
<1>5. \A m \in DOMAIN pulls : /\ pulls'[m] \in Pulls /\ pulls'[m].state = pulls[m].state
                              /\ pulls[m].state = "open" => pulls'[m].head = new
                              /\ pulls[m].state # "open" => pulls'[m] = pulls[m]
  <2> SUFFICES ASSUME NEW m \in DOMAIN pulls
               PROVE  /\ pulls'[m] \in Pulls /\ pulls'[m].state = pulls[m].state
                      /\ pulls[m].state = "open" => pulls'[m].head = new
                      /\ pulls[m].state # "open" => pulls'[m] = pulls[m]
    OBVIOUS
  <2>1. pulls[m] \in Pulls
    BY DEF RemoteOK
  <2>2. /\ [pulls[m] EXCEPT !.head = new] \in Pulls
        /\ [pulls[m] EXCEPT !.head = new].state = pulls[m].state
        /\ [pulls[m] EXCEPT !.head = new].head = new
    BY <1>2, <2>1 DEF Pulls
  <2> QED  BY <1>4, <2>1, <2>2 DEF OpenPulls
<1>6. pulls' \in Seq(Pulls) /\ Len(pulls') = Len(pulls)
  BY <1>4, <1>5, Rewritten DEF RemoteOK
<1>7. new # NoBranch /\ main \in Heads
  BY <1>2, RailAssumption DEF Heads, RemoteOK
<1>8. RemoteOK'
  BY <1>2, <1>3, <1>6 DEF RemoteOK
<1>9. PullsFollow'
  BY <1>1, <1>3, <1>4, <1>5, <1>7 DEF RemoteOK, PullsFollow
<1>10. Settling
  BY <1>3, <1>5, <1>6 DEF RemoteOK, Settling
<1> QED  BY <1>8, <1>9, <1>10

LEMMA OutOfBandSettles ==
    ASSUME RemoteOK, BoundsOK, PullsFollow, PushOutOfBand
    PROVE  RemoteOK' /\ PullsFollow' /\ Settling
<1>1. changes + 1 \in 1 .. MaxChanges
  BY RailAssumption DEF PushOutOfBand, BoundsOK
<1>2. main' = main \union {changes + 1} /\ UNCHANGED <<branch, pulls, checks, protected>>
  BY DEF PushOutOfBand
<1>3. main' \in Heads
  BY <1>1, <1>2 DEF Heads, RemoteOK
<1> QED  BY <1>2, <1>3 DEF RemoteOK, PullsFollow, Settling

\* A check run that ended does not run again.
LEMMA CheckSettles ==
    ASSUME RemoteOK, PullsFollow, NEW r \in CheckRuns, CheckEnds(r)
    PROVE  RemoteOK' /\ PullsFollow' /\ Settling
<1>1. branch \in Heads /\ checks[branch][r] = "running" /\ UNCHANGED <<main, branch, pulls, protected>>
  BY DEF CheckEnds, RemoteOK
<1>2. PICK result \in {"passed", "failed"} : checks' = [checks EXCEPT ![branch][r] = result]
  BY DEF CheckEnds
<1>3. checks' \in [Heads -> [CheckRuns -> {"running", "passed", "failed"}]]
  BY <1>1, <1>2 DEF RemoteOK
<1>4. \A h \in Heads, s \in CheckRuns : checks[h][s] = "passed" => checks'[h][s] = "passed"
  BY <1>1, <1>2 DEF RemoteOK
<1> QED  BY <1>1, <1>3, <1>4 DEF RemoteOK, PullsFollow, Settling
-----------------------------------------------------------------------------
(* The activities' part *)

\* An activity that does not move keeps what it relies on.
LEMMA Keeps ==
    ASSUME RemoteOK, RemoteOK', Settling, NEW d \in Clients, ClientOK(d),
           Answered(d) => pc[d] = "done",
           pc'[d] = pc[d], arg'[d] = arg[d], answer'[d] = answer[d], does'[d] = does[d]
    PROVE  ClientOK(d)'
<1>1. Len(pulls) \in Nat /\ Len(pulls') \in Nat /\ Len(pulls) <= Len(pulls')
  BY DEF RemoteOK, Settling
<1>2. arg[d].number \in 0 .. Len(pulls')
  BY <1>1 DEF ClientOK
<1>3. does[d] = "status" /\ (pc[d] = "reviews" \/ Answered(d)) /\ arg[d].rollup = "success" =>
          \A r \in FirstPage : checks'[arg[d].sha][r] = "passed"
  BY RailAssumption DEF ClientOK, Settling
<1>4. does[d] \in {"merge", "close"} /\ Answered(d) => arg[d].number \in 1 .. Len(pulls)
  BY <1>1 DEF ClientOK, Numbered
<1>5. does[d] = "merge" /\ Answered(d) => /\ pulls'[arg[d].number].state = "merged"
                                          /\ pulls'[arg[d].number].head \subseteq main'
  BY <1>4 DEF ClientOK, Settling
<1>6. does[d] = "close" /\ Answered(d) => pulls'[arg[d].number].state # "open"
  BY <1>4 DEF ClientOK, Settling
<1>7. does[d] = "protect" /\ Answered(d) => protected'
  BY DEF ClientOK, Settling
<1>8. /\ pc'[d] \in {"checks", "reviews"} => does'[d] = "status"
      /\ pc'[d] = "find" => does'[d] = "open"
      /\ pc'[d] = "write" => does'[d] # "status"
      /\ does'[d] \in Numbered /\ pc'[d] # "start" => arg'[d].number # 0
  BY DEF ClientOK
<1>9. does'[d] = "status" /\ (pc'[d] \in {"checks", "reviews"} \/ Answered(d)') => arg'[d].sha \in Heads
  BY DEF ClientOK, Answered
<1>10. Answered(d)' <=> Answered(d)
  BY DEF Answered
<1> QED  BY <1>2, <1>3, <1>5, <1>6, <1>7, <1>8, <1>9, <1>10 DEF ClientOK

\* A step of GitHub or of a user moves no activity.
LEMMA NobodyMoves ==
    ASSUME IInv, RemoteOK', PullsFollow', BoundsOK', Settling, UNCHANGED caller
    PROVE  IInv'
<1>1. CallersOK'
  BY DEF IInv, CallersOK, caller
<1>2. ASSUME NEW d \in Clients PROVE ClientOK(d)'
  <2>1. Answered(d) => pc[d] = "done"
    BY DEF IInv, CallersOK, Answered
  <2> QED  BY <2>1, Keeps DEF IInv, caller
<1> QED  BY <1>1, <1>2 DEF IInv

\* One activity moves: the others rely on what they did.
LEMMA OneMoves ==
    ASSUME IInv, RemoteOK', PullsFollow', BoundsOK', CallersOK', Settling, NEW c \in Clients,
           \A d \in Clients \ {c} : /\ pc'[d] = pc[d] /\ arg'[d] = arg[d]
                                    /\ answer'[d] = answer[d] /\ does'[d] = does[d],
           ClientOK(c)'
    PROVE  IInv'
<1>1. ASSUME NEW d \in Clients \ {c} PROVE ClientOK(d)'
  <2>1. Answered(d) => pc[d] = "done"
    BY DEF IInv, CallersOK, Answered
  <2> QED  BY <2>1, Keeps DEF IInv
<1> QED  BY <1>1 DEF IInv

\* An attempt that goes on: its answer is still to come.
LEMMA Continues ==
    ASSUME CallersOK, NEW c \in Clients, pc[c] # "done", NEW a \in Args,
           NEW label \in {"write", "find", "checks", "reviews"}, Continue(c, label, a)
    PROVE  /\ CallersOK'
           /\ pc'[c] = label /\ arg'[c] = a /\ does'[c] = does[c] /\ ~Answered(c)'
           /\ \A d \in Clients \ {c} : /\ pc'[d] = pc[d] /\ arg'[d] = arg[d]
                                       /\ answer'[d] = answer[d] /\ does'[d] = does[d]
<1>1. pc' = [pc EXCEPT ![c] = label] /\ arg' = [arg EXCEPT ![c] = a] /\ answer' = answer /\ does' = does
  BY DEF Continue
<1> QED  BY <1>1 DEF CallersOK, Answered

\* An attempt that ends, with what it leaves behind as argument.
LEMMA Finishes ==
    ASSUME CallersOK, NEW c \in Clients, NEW result \in Answers \ {"none"}, Finish(c, result),
           NEW a \in Args, arg' = [arg EXCEPT ![c] = a]
    PROVE  /\ CallersOK'
           /\ pc'[c] = "done" /\ arg'[c] = a /\ does'[c] = does[c] /\ answer'[c] = result
           /\ \A d \in Clients \ {c} : /\ pc'[d] = pc[d] /\ arg'[d] = arg[d]
                                       /\ answer'[d] = answer[d] /\ does'[d] = does[d]
<1>1. pc' = [pc EXCEPT ![c] = "done"] /\ answer' = [answer EXCEPT ![c] = result] /\ does' = does
  BY DEF Finish
<1> QED  BY <1>1 DEF CallersOK

\* An attempt that fails is begun again or reported: nothing was promised.
LEMMA FailsKeeps ==
    ASSUME IInv, RemoteOK', PullsFollow', BoundsOK', Settling, NEW c \in Clients,
           pc[c] \in {"write", "find", "checks", "reviews"}, NEW kind \in Kinds, Fails(c, kind)
    PROVE  IInv'
<1>1. CallersOK /\ ClientOK(c) /\ ~Answered(c)
  BY DEF IInv, CallersOK, Answered
<1>2. arg' = arg /\ does' = does
  BY DEF Fails, Finish
<1>3. \/ pc' = [pc EXCEPT ![c] = "start"] /\ answer' = answer
      \/ pc' = [pc EXCEPT ![c] = "done"] /\ answer' = [answer EXCEPT ![c] = kind]
  BY DEF Fails, Finish
<1>4. kind \in Answers \ {"none", "ok", "already"}
  BY DEF Kinds, RetryableKinds, TerminalKinds, Answers
<1>5. CallersOK' /\ ~Answered(c)' /\ pc'[c] \in {"start", "done"}
  BY <1>1, <1>2, <1>3, <1>4 DEF CallersOK, Answered
<1>6. \A d \in Clients \ {c} : /\ pc'[d] = pc[d] /\ arg'[d] = arg[d]
                               /\ answer'[d] = answer[d] /\ does'[d] = does[d]
  BY <1>1, <1>2, <1>3 DEF CallersOK
<1>7. Len(pulls) \in Nat /\ Len(pulls') \in Nat /\ Len(pulls) <= Len(pulls')
  BY DEF IInv, RemoteOK, Settling
<1>8. arg'[c].number \in 0 .. Len(pulls')
  BY <1>1, <1>2, <1>7 DEF ClientOK
<1>9. does'[c] \in Numbered => arg'[c].number # 0
  BY <1>1, <1>2 DEF ClientOK
<1>10. ClientOK(c)'
  BY <1>5, <1>8, <1>9 DEF ClientOK
<1> QED  BY <1>5, <1>6, <1>10, OneMoves

LEMMA ClassifiedKind == ASSUME NEW status \in Nat PROVE ClassifyStatus(status) \in Kinds
<1>1. CASE status \in {401, 403}
  BY <1>1 DEF ClassifyStatus, Kinds, RetryableKinds, TerminalKinds
<1>2. CASE status \in {404, 405, 409, 422}
  BY <1>2 DEF ClassifyStatus, Kinds, RetryableKinds, TerminalKinds
<1>3. CASE status = 0 \/ status = 429 \/ status >= 500
  BY <1>3 DEF ClassifyStatus, Kinds, RetryableKinds, TerminalKinds, TransportFailed
<1>4. CASE status \notin {401, 403, 404, 405, 409, 422, 0, 429} /\ status < 500
  BY <1>4 DEF ClassifyStatus, Kinds, RetryableKinds, TerminalKinds, TransportFailed
<1> QED  BY <1>1, <1>2, <1>3, <1>4

\* A call asks for what its activity is to do, about what it has read.
LEMMA CallTyped ==
    ASSUME CallersOK, NEW c \in Clients
    PROVE  Call(c) \in Calls /\ Call(c).op = does[c] /\ Call(c).number = arg[c].number
<1>1. does[c] \in Ops
  BY RailAssumption DEF CallersOK
<1>2. arg[c] \in Args
  BY DEF CallersOK
<1> QED  BY <1>1, <1>2 DEF Call, Calls, Args

\* What GitHub answers to a write, by operation.
LEMMA StatusCases ==
    ASSUME NEW q \in Calls
    PROVE  /\ Status(q) \in {200, 201, 204, 405, 422}
           /\ q.op = "open" => Status(q) \in {201, 422}
           /\ q.op \in {"status", "review", "close", "protect"} => Status(q) = 200
           /\ q.op = "merge" => Status(q) = IF Mergeable(q.number) THEN 200 ELSE 405
<1>1. q.op \in Ops
  BY DEF Calls
<1> QED  BY <1>1 DEF Status, Ops

\* What is done when a write's answer says so.
LEMMA ServedAsAnswered ==
    ASSUME RemoteOK, PullsFollow, NEW q \in Calls, Serve(q), q.number \in 1 .. Len(pulls)
    PROVE  /\ q.op = "merge" /\ Mergeable(q.number) => /\ pulls'[q.number].state = "merged"
                                                       /\ pulls'[q.number].head \subseteq main'
           /\ q.op = "close" => pulls'[q.number].state # "open"
<1> DEFINE n == q.number
<1>1. n \in DOMAIN pulls /\ pulls[n] \in Pulls
  BY DEF RemoteOK
<1>2. CASE q.op = "merge" /\ Mergeable(n)
  <2>1. Succeeded(Status(q))
    BY <1>2 DEF Succeeded, Status
  <2>2. pulls' = [pulls EXCEPT ![n].state = "merged"] /\ main' = main \union branch
    BY <1>2, <2>1 DEF Serve
  <2>3. pulls[n].head = branch
    BY <1>1, <1>2 DEF Mergeable, OpenPulls, PullsFollow
  <2>4. pulls'[n].state = "merged" /\ pulls'[n].head = pulls[n].head
    <3>1. pulls \in Seq(Pulls) /\ "merged" \in {"closed", "merged"}
      BY DEF RemoteOK
    <3> HIDE DEF n
    <3> QED  BY <1>1, <2>2, <3>1, StateSet
  <2> QED  BY <1>2, <2>2, <2>3, <2>4
<1>3. CASE q.op = "close"
  <2>1. Succeeded(Status(q))
    BY <1>3 DEF Succeeded, Status
  <2>2. CASE n \in OpenPulls
    <3>1. pulls' = [pulls EXCEPT ![n].state = "closed"]
      BY <1>3, <2>1, <2>2 DEF Serve
    <3>2. pulls \in Seq(Pulls) /\ "closed" \in {"closed", "merged"}
      BY DEF RemoteOK
    <3>3. pulls'[n].state = "closed"
      <4> HIDE DEF n
      <4> QED  BY <1>1, <3>1, <3>2, StateSet
    <3> QED  BY <1>3, <3>3
  <2>3. CASE n \notin OpenPulls
    <3>1. pulls' = pulls
      BY <1>3, <2>1, <2>3 DEF Serve
    <3> QED  BY <1>1, <1>3, <2>3, <3>1 DEF OpenPulls
  <2> QED  BY <2>2, <2>3
<1> QED  BY <1>2, <1>3
-----------------------------------------------------------------------------
(* One lemma per action: the invariant goes on. *)

\* A read or a decision of an activity leaves GitHub alone.
LEMMA QuietlyOK ==
    ASSUME IInv, Quietly
    PROVE  /\ RemoteOK' /\ PullsFollow' /\ BoundsOK' /\ Settling
           /\ UNCHANGED <<main, branch, pulls, checks, protected>>
           /\ CallersOK /\ \A c \in Clients : ClientOK(c) /\ arg[c] \in Args
<1>1. RemoteOK' /\ PullsFollow' /\ Settling
  BY RemoteIdle DEF IInv, Quietly
<1>2. BoundsOK'
  BY DEF IInv, Quietly, BoundsOK
<1> QED  BY <1>1, <1>2 DEF IInv, Quietly, remote, CallersOK

\* The pull request an attempt takes up exists.
LEMMA AboutExists ==
    ASSUME RemoteOK, NEW c \in Clients, ClientOK(c), NEW n \in About(c)
    PROVE  n \in 1 .. Len(pulls) /\ n \in 0 .. MaxPulls /\ n # 0
<1>1. Len(pulls) \in Nat /\ Len(pulls) <= MaxPulls /\ MaxPulls \in Nat /\ DOMAIN pulls = 1 .. Len(pulls)
  BY RailAssumption DEF RemoteOK
<1> QED  BY <1>1 DEF ClientOK, About

LEMMA CreateBranchKeeps == ASSUME IInv, NEW c \in Clients, CreateBranch(c) PROVE IInv'
<1> DEFINE a == [arg[c] EXCEPT !.sha = main]
<1>1. Quietly /\ Continue(c, "write", a) /\ pc[c] = "start" /\ does[c] = "create"
  BY DEF CreateBranch, Start
<1>2. /\ RemoteOK' /\ PullsFollow' /\ BoundsOK' /\ Settling /\ UNCHANGED pulls
      /\ CallersOK /\ ClientOK(c) /\ arg[c] \in Args
  BY <1>1, QuietlyOK
<1>3. a \in Args /\ a.number = arg[c].number
  BY <1>2 DEF Args, IInv, RemoteOK
<1> HIDE DEF a
<1>4. /\ CallersOK' /\ pc'[c] = "write" /\ arg'[c] = a /\ does'[c] = does[c] /\ ~Answered(c)'
      /\ \A d \in Clients \ {c} : /\ pc'[d] = pc[d] /\ arg'[d] = arg[d]
                                  /\ answer'[d] = answer[d] /\ does'[d] = does[d]
  BY <1>1, <1>2, <1>3, Continues
<1>5. ClientOK(c)'
  BY <1>1, <1>2, <1>3, <1>4 DEF ClientOK, Numbered
<1> QED  BY <1>2, <1>4, <1>5, OneMoves

LEMMA RequestKeeps == ASSUME IInv, NEW c \in Clients, Request(c) PROVE IInv'
<1>1. Quietly /\ Continue(c, "write", arg[c]) /\ pc[c] = "start" /\ does[c] \in {"open", "delete", "protect"}
  BY DEF Request
<1>2. /\ RemoteOK' /\ PullsFollow' /\ BoundsOK' /\ Settling /\ UNCHANGED pulls
      /\ CallersOK /\ ClientOK(c) /\ arg[c] \in Args
  BY <1>1, QuietlyOK
<1>4. /\ CallersOK' /\ pc'[c] = "write" /\ arg'[c] = arg[c] /\ does'[c] = does[c] /\ ~Answered(c)'
      /\ \A d \in Clients \ {c} : /\ pc'[d] = pc[d] /\ arg'[d] = arg[d]
                                  /\ answer'[d] = answer[d] /\ does'[d] = does[d]
  BY <1>1, <1>2, Continues
<1>5. ClientOK(c)'
  BY <1>1, <1>2, <1>4 DEF ClientOK, Numbered
<1> QED  BY <1>2, <1>4, <1>5, OneMoves

\* An operation that goes on to write about a pull request.
LEMMA WritesAbout ==
    ASSUME IInv, Quietly, NEW c \in Clients, pc[c] = "start", does[c] \in {"review", "merge", "close"},
           NEW n \in About(c), Continue(c, "write", [arg[c] EXCEPT !.number = n])
    PROVE  IInv'
<1> DEFINE a == [arg[c] EXCEPT !.number = n]
<1>1. /\ RemoteOK' /\ PullsFollow' /\ BoundsOK' /\ Settling /\ UNCHANGED pulls
      /\ CallersOK /\ ClientOK(c) /\ arg[c] \in Args
  BY QuietlyOK
<1>2. n \in 1 .. Len(pulls) /\ n \in 0 .. MaxPulls /\ n # 0
  BY <1>1, AboutExists DEF IInv
<1>3. a \in Args /\ a.number = n
  BY <1>1, <1>2 DEF Args
<1> HIDE DEF a
<1>4. /\ CallersOK' /\ pc'[c] = "write" /\ arg'[c] = a /\ does'[c] = does[c] /\ ~Answered(c)'
      /\ \A d \in Clients \ {c} : /\ pc'[d] = pc[d] /\ arg'[d] = arg[d]
                                  /\ answer'[d] = answer[d] /\ does'[d] = does[d]
  <2>1. Continue(c, "write", a)
    BY DEF a
  <2> QED  BY <1>1, <1>3, <2>1, Continues
<1>5. Len(pulls) \in Nat
  BY DEF IInv, RemoteOK
<1>6. ClientOK(c)'
  BY <1>1, <1>2, <1>3, <1>4, <1>5 DEF ClientOK, Numbered
<1> QED  BY <1>1, <1>4, <1>6, OneMoves

\* One that finds the pull request as it would leave it.
LEMMA FindsDone ==
    ASSUME IInv, Quietly, NEW c \in Clients, pc[c] = "start",
           NEW n \in About(c), Finish(c, "already"), arg' = [arg EXCEPT ![c].number = n],
           \/ does[c] = "merge" /\ pulls[n].state = "merged"
           \/ does[c] = "close" /\ pulls[n].state \in {"merged", "closed"}
    PROVE  IInv'
<1> DEFINE a == [arg[c] EXCEPT !.number = n]
<1>1. /\ RemoteOK' /\ PullsFollow' /\ BoundsOK' /\ Settling /\ UNCHANGED <<pulls, main>>
      /\ CallersOK /\ ClientOK(c) /\ arg[c] \in Args
  BY QuietlyOK
<1>2. n \in 1 .. Len(pulls) /\ n \in 0 .. MaxPulls /\ n # 0
  BY <1>1, AboutExists DEF IInv
<1>3. a \in Args /\ a.number = n
  BY <1>1, <1>2 DEF Args
<1>4. arg' = [arg EXCEPT ![c] = a]
  BY <1>1 DEF CallersOK
<1>5. "already" \in Answers \ {"none"}
  BY DEF Answers
<1> HIDE DEF a
<1>6. /\ CallersOK' /\ pc'[c] = "done" /\ arg'[c] = a /\ does'[c] = does[c] /\ answer'[c] = "already"
      /\ \A d \in Clients \ {c} : /\ pc'[d] = pc[d] /\ arg'[d] = arg[d]
                                  /\ answer'[d] = answer[d] /\ does'[d] = does[d]
  <2>1. pc' = [pc EXCEPT ![c] = "done"] /\ answer' = [answer EXCEPT ![c] = "already"] /\ does' = does
    BY DEF Finish
  <2> QED  BY <1>1, <1>3, <1>4, <1>5, <2>1 DEF CallersOK
<1>7. Len(pulls) \in Nat /\ DOMAIN pulls = 1 .. Len(pulls)
  BY DEF IInv, RemoteOK
<1>8. pulls[n].state = "merged" => pulls[n].head \subseteq main
  BY <1>2, <1>7 DEF IInv, PullsFollow
<1>9. ClientOK(c)'
  BY <1>1, <1>2, <1>3, <1>6, <1>7, <1>8 DEF ClientOK, Numbered
<1> QED  BY <1>1, <1>6, <1>9, OneMoves

LEMMA PostReviewKeeps == ASSUME IInv, NEW c \in Clients, PostReview(c) PROVE IInv'
<1>1. Quietly /\ pc[c] = "start" /\ does[c] = "review"
  BY DEF PostReview, Start
<1>2. PICK n \in About(c) : Continue(c, "write", [arg[c] EXCEPT !.number = n])
  BY DEF PostReview
<1> QED  BY <1>1, <1>2, WritesAbout

LEMMA MergeKeeps == ASSUME IInv, NEW c \in Clients, MergePullRequest(c) PROVE IInv'
<1>1. Quietly /\ pc[c] = "start" /\ does[c] = "merge"
  BY DEF MergePullRequest, Start
<1>2. PICK n \in About(c) : IF pulls[n].state = "merged"
                            THEN Finish(c, "already") /\ arg' = [arg EXCEPT ![c].number = n]
                            ELSE Continue(c, "write", [arg[c] EXCEPT !.number = n])
  BY DEF MergePullRequest
<1>3. CASE pulls[n].state = "merged"
  BY <1>1, <1>2, <1>3, FindsDone
<1>4. CASE pulls[n].state # "merged"
  BY <1>1, <1>2, <1>4, WritesAbout
<1> QED  BY <1>3, <1>4

LEMMA CloseKeeps == ASSUME IInv, NEW c \in Clients, ClosePullRequest(c) PROVE IInv'
<1>1. Quietly /\ pc[c] = "start" /\ does[c] = "close"
  BY DEF ClosePullRequest, Start
<1>2. PICK n \in About(c) : IF pulls[n].state \in {"merged", "closed"}
                            THEN Finish(c, "already") /\ arg' = [arg EXCEPT ![c].number = n]
                            ELSE Continue(c, "write", [arg[c] EXCEPT !.number = n])
  BY DEF ClosePullRequest
<1>3. CASE pulls[n].state \in {"merged", "closed"}
  BY <1>1, <1>2, <1>3, FindsDone
<1>4. CASE pulls[n].state \notin {"merged", "closed"}
  BY <1>1, <1>2, <1>4, WritesAbout
<1> QED  BY <1>3, <1>4

LEMMA GetPullStatusKeeps == ASSUME IInv, NEW c \in Clients, GetPullStatus(c) PROVE IInv'
<1>1. Quietly /\ pc[c] = "start" /\ does[c] = "status"
  BY DEF GetPullStatus, Start
<1>2. PICK n \in About(c) :
        Continue(c, "checks", [arg[c] EXCEPT !.number = n, !.sha = pulls[n].head, !.mergeable = Mergeable(n)])
  BY DEF GetPullStatus
<1> DEFINE a == [arg[c] EXCEPT !.number = n, !.sha = pulls[n].head, !.mergeable = Mergeable(n)]
<1>3. /\ RemoteOK' /\ PullsFollow' /\ BoundsOK' /\ Settling /\ UNCHANGED pulls
      /\ CallersOK /\ ClientOK(c) /\ arg[c] \in Args
  BY <1>1, QuietlyOK
<1>4. n \in 1 .. Len(pulls) /\ n \in 0 .. MaxPulls /\ n # 0
  BY <1>3, AboutExists DEF IInv
<1>5. pulls[n].head \in Heads
  <2>1. pulls[n] \in Pulls
    BY <1>4 DEF IInv, RemoteOK
  <2> QED  BY <2>1 DEF Pulls
<1>6. Mergeable(n) \in BOOLEAN
  BY DEF Mergeable
<1>7. a \in Args /\ a.number = n /\ a.sha \in Heads
  BY <1>3, <1>4, <1>5, <1>6 DEF Args
<1>8. Continue(c, "checks", a)
  BY <1>2
<1> HIDE DEF a
<1>9. /\ CallersOK' /\ pc'[c] = "checks" /\ arg'[c] = a /\ does'[c] = does[c] /\ ~Answered(c)'
      /\ \A d \in Clients \ {c} : /\ pc'[d] = pc[d] /\ arg'[d] = arg[d]
                                  /\ answer'[d] = answer[d] /\ does'[d] = does[d]
  BY <1>1, <1>3, <1>7, <1>8, Continues
<1>10. Len(pulls) \in Nat
  BY DEF IInv, RemoteOK
<1>11. ClientOK(c)'
  BY <1>1, <1>3, <1>4, <1>7, <1>9, <1>10 DEF ClientOK, Numbered
<1> QED  BY <1>3, <1>9, <1>11, OneMoves

\* The roll-up is a success only when every listed check has passed.
LEMMA SuccessMeansPassed ==
    ASSUME NEW runs \in [CheckRuns -> {"running", "passed", "failed"}],
           foldCheckRollup(runs) = "success"
    PROVE  \A r \in FirstPage : runs[r] = "passed"
<1> SUFFICES ASSUME NEW r \in FirstPage PROVE runs[r] = "passed"
  OBVIOUS
<1>1. runs[r] \in {"running", "passed", "failed"}
  BY RailAssumption
<1>2. "failed" \notin {runs[s] : s \in FirstPage} /\ "running" \notin {runs[s] : s \in FirstPage}
  BY DEF foldCheckRollup
<1> QED  BY <1>1, <1>2

LEMMA ReadChecksKeeps == ASSUME IInv, NEW c \in Clients, ReadChecks(c) PROVE IInv'
<1> DEFINE a == [arg[c] EXCEPT !.rollup = getCheckRollup(c)]
<1>1. Quietly /\ pc[c] = "checks" /\ Continue(c, "reviews", a)
  BY DEF ReadChecks
<1>2. /\ RemoteOK' /\ PullsFollow' /\ BoundsOK' /\ Settling /\ UNCHANGED <<pulls, checks>>
      /\ CallersOK /\ ClientOK(c) /\ arg[c] \in Args
  BY <1>1, QuietlyOK
<1>3. does[c] = "status" /\ arg[c].sha \in Heads /\ arg[c].number # 0
  BY <1>1, <1>2 DEF ClientOK, Numbered
<1>4. getCheckRollup(c) \in Rollups
  BY DEF getCheckRollup, foldCheckRollup, Rollups
<1>5. a \in Args /\ a.number = arg[c].number /\ a.sha = arg[c].sha /\ a.rollup = getCheckRollup(c)
  BY <1>2, <1>4 DEF Args
<1>6. a.rollup = "success" => \A r \in FirstPage : checks[a.sha][r] = "passed"
  <2>1. checks[arg[c].sha] \in [CheckRuns -> {"running", "passed", "failed"}]
    BY <1>3 DEF IInv, RemoteOK
  <2> QED  BY <1>5, <2>1, SuccessMeansPassed DEF getCheckRollup
<1> HIDE DEF a
<1>7. /\ CallersOK' /\ pc'[c] = "reviews" /\ arg'[c] = a /\ does'[c] = does[c] /\ ~Answered(c)'
      /\ \A d \in Clients \ {c} : /\ pc'[d] = pc[d] /\ arg'[d] = arg[d]
                                  /\ answer'[d] = answer[d] /\ does'[d] = does[d]
  BY <1>1, <1>2, <1>5, Continues
<1>8. ClientOK(c)'
  BY <1>1, <1>2, <1>3, <1>5, <1>6, <1>7 DEF ClientOK, Numbered
<1> QED  BY <1>2, <1>7, <1>8, OneMoves

LEMMA ReadReviewsKeeps == ASSUME IInv, NEW c \in Clients, ReadReviews(c) PROVE IInv'
<1>1. Quietly /\ pc[c] = "reviews" /\ UNCHANGED <<arg, does>>
      /\ pc' = [pc EXCEPT ![c] = "done"] /\ answer' = [answer EXCEPT ![c] = "ok"]
  BY DEF ReadReviews, Finish
<1>2. /\ RemoteOK' /\ PullsFollow' /\ BoundsOK' /\ Settling /\ UNCHANGED <<pulls, checks>>
      /\ CallersOK /\ ClientOK(c)
  BY <1>1, QuietlyOK
<1>3. "ok" \in Answers
  BY DEF Answers
<1>4. /\ CallersOK' /\ pc'[c] = "done" /\ arg' = arg /\ does' = does
      /\ \A d \in Clients \ {c} : /\ pc'[d] = pc[d] /\ arg'[d] = arg[d]
                                  /\ answer'[d] = answer[d] /\ does'[d] = does[d]
  BY <1>1, <1>2, <1>3 DEF CallersOK
<1>5. does[c] = "status"
  BY <1>1, <1>2 DEF ClientOK
<1>6. ClientOK(c)'
  BY <1>1, <1>2, <1>4, <1>5 DEF ClientOK, Numbered
<1> QED  BY <1>2, <1>4, <1>6, OneMoves

LEMMA FindOpenKeeps == ASSUME IInv, NEW c \in Clients, FindOpenPR(c) PROVE IInv'
<1>1. Quietly /\ pc[c] = "find"
  BY DEF FindOpenPR
<1>2. /\ RemoteOK' /\ PullsFollow' /\ BoundsOK' /\ Settling /\ UNCHANGED <<pulls, checks>>
      /\ CallersOK /\ ClientOK(c) /\ arg[c] \in Args
  BY <1>1, QuietlyOK
<1>3. CASE OpenPulls # {}
  <2>1. PICK n \in OpenPulls : Finish(c, "already") /\ arg' = [arg EXCEPT ![c].number = n]
    BY <1>3 DEF FindOpenPR
  <2>2. Len(pulls) \in Nat /\ n \in 0 .. Len(pulls) /\ n \in 0 .. MaxPulls
    BY RailAssumption DEF IInv, RemoteOK, OpenPulls
  <2> DEFINE a == [arg[c] EXCEPT !.number = n]
  <2>3. a \in Args /\ a.number = n
    BY <1>2, <2>2 DEF Args
  <2>4. arg' = [arg EXCEPT ![c] = a]
    BY <1>2, <2>1 DEF CallersOK
  <2>5. pc' = [pc EXCEPT ![c] = "done"] /\ answer' = [answer EXCEPT ![c] = "already"] /\ does' = does
    BY <2>1 DEF Finish
  <2>6. "already" \in Answers
    BY DEF Answers
  <2> HIDE DEF a
  <2>7. /\ CallersOK' /\ pc'[c] = "done" /\ arg'[c] = a /\ does' = does
        /\ \A d \in Clients \ {c} : /\ pc'[d] = pc[d] /\ arg'[d] = arg[d]
                                    /\ answer'[d] = answer[d] /\ does'[d] = does[d]
    BY <1>2, <2>3, <2>4, <2>5, <2>6 DEF CallersOK
  <2>8. does[c] = "open"
    BY <1>1, <1>2 DEF ClientOK
  <2>9. ClientOK(c)'
    BY <1>2, <2>2, <2>3, <2>7, <2>8 DEF ClientOK, Numbered
  <2> QED  BY <1>2, <2>7, <2>9, OneMoves
<1>4. CASE OpenPulls = {}
  <2>1. Fails(c, ClassifyStatus(422)) /\ ClassifyStatus(422) \in Kinds
    BY <1>4, ClassifiedKind DEF FindOpenPR
  <2> QED  BY <1>1, <1>2, <2>1, FailsKeeps
<1> QED  BY <1>3, <1>4

\* A write that was served and answered.
LEMMA WriteKeeps == ASSUME IInv, NEW c \in Clients, Write(c) PROVE IInv'
<1> DEFINE status == Status(Call(c))
           result == Outcome(does[c], status)
<1>1. /\ pc[c] = "write" /\ Serve(Call(c)) /\ UNCHANGED <<transit, faults, changes>>
      /\ RemoteOK /\ PullsFollow /\ BoundsOK /\ CallersOK /\ ClientOK(c) /\ arg[c] \in Args
  BY DEF Write, IInv, CallersOK
<1>2. Call(c) \in Calls /\ Call(c).op = does[c] /\ Call(c).number = arg[c].number
  BY <1>1, CallTyped
<1>3. RemoteOK' /\ PullsFollow' /\ Settling
  BY <1>1, <1>2, ServeSettles
<1>4. BoundsOK'
  BY <1>1 DEF BoundsOK
<1>5. /\ status \in {200, 201, 204, 405, 422}
      /\ does[c] = "open" => status \in {201, 422}
      /\ does[c] \in {"status", "review", "close", "protect"} => status = 200
      /\ does[c] = "merge" => status = IF Mergeable(arg[c].number) THEN 200 ELSE 405
  BY <1>2, StatusCases
<1>6. Len(pulls) \in Nat /\ Len(pulls') \in 0 .. MaxPulls /\ Len(pulls) <= Len(pulls')
  BY <1>1, <1>3, RailAssumption DEF RemoteOK, Settling
<1>7. arg[c].number \in 0 .. Len(pulls')
  BY <1>1, <1>6 DEF ClientOK
<1>8. CASE does[c] = "open" /\ status = 422
  <2>1. Continue(c, "find", arg[c])
    BY <1>8 DEF Write
  <2>2. /\ CallersOK' /\ pc'[c] = "find" /\ arg'[c] = arg[c] /\ does'[c] = does[c] /\ ~Answered(c)'
        /\ \A d \in Clients \ {c} : /\ pc'[d] = pc[d] /\ arg'[d] = arg[d]
                                    /\ answer'[d] = answer[d] /\ does'[d] = does[d]
    BY <1>1, <2>1, Continues
  <2>3. ClientOK(c)'
    BY <1>7, <1>8, <2>2 DEF ClientOK, Numbered
  <2> QED  BY <1>3, <1>4, <2>2, <2>3, OneMoves
<1>9. CASE does[c] = "open" /\ status = 201
  <2> DEFINE a == [arg[c] EXCEPT !.number = Len(pulls')]
  <2>1. Finish(c, "ok") /\ arg' = [arg EXCEPT ![c].number = Len(pulls')]
    BY <1>9 DEF Write
  <2>2. a \in Args /\ a.number = Len(pulls')
    BY <1>1, <1>6 DEF Args
  <2>3. arg' = [arg EXCEPT ![c] = a]
    BY <1>1, <2>1 DEF CallersOK
  <2>4. pc' = [pc EXCEPT ![c] = "done"] /\ answer' = [answer EXCEPT ![c] = "ok"] /\ does' = does
    BY <2>1 DEF Finish
  <2>5. "ok" \in Answers
    BY DEF Answers
  <2> HIDE DEF a
  <2>6. /\ CallersOK' /\ pc'[c] = "done" /\ arg'[c] = a /\ does' = does
        /\ \A d \in Clients \ {c} : /\ pc'[d] = pc[d] /\ arg'[d] = arg[d]
                                    /\ answer'[d] = answer[d] /\ does'[d] = does[d]
    BY <1>1, <2>2, <2>3, <2>4, <2>5 DEF CallersOK
  <2>7. ClientOK(c)'
    BY <1>6, <1>9, <2>2, <2>6 DEF ClientOK, Numbered
  <2> QED  BY <1>3, <1>4, <2>6, <2>7, OneMoves
<1>10. CASE does[c] # "open" /\ result \in {"ok", "already"}
  <2>1. Finish(c, result) /\ arg' = arg
    BY <1>10 DEF Write
  <2>2. pc' = [pc EXCEPT ![c] = "done"] /\ answer' = [answer EXCEPT ![c] = result] /\ does' = does
    BY <2>1 DEF Finish
  <2>3. result \in Answers \ {"none"}
    BY <1>10 DEF Answers
  <2>4. does[c] = "merge" => Mergeable(arg[c].number)
    <3>1. ASSUME does[c] = "merge", status = 405 PROVE FALSE
      <4>1. Outcome("merge", 405) = "Conflict"
        <5>1. ~Succeeded(405)
          BY DEF Succeeded
        <5>2. Outcome("merge", 405) = ClassifyStatus(405)
          BY <5>1 DEF Outcome
        <5> QED  BY <5>2 DEF ClassifyStatus, TransportFailed
      <4> QED  BY <1>10, <3>1, <4>1
    <3> QED  BY <1>5, <3>1
  <2> HIDE DEF result, status
  <2>5. /\ CallersOK' /\ pc'[c] = "done" /\ arg' = arg /\ does' = does
        /\ \A d \in Clients \ {c} : /\ pc'[d] = pc[d] /\ arg'[d] = arg[d]
                                    /\ answer'[d] = answer[d] /\ does'[d] = does[d]
    BY <1>1, <2>1, <2>2, <2>3 DEF CallersOK
  <2>6. does[c] # "status" /\ (does[c] \in Numbered => arg[c].number # 0)
    BY <1>1 DEF ClientOK
  <2>7. does[c] \in {"merge", "close"} => Call(c).number \in 1 .. Len(pulls)
    BY <1>1, <1>2, <1>6, <2>6 DEF ClientOK, Numbered
  <2>8. does[c] = "merge" => /\ pulls'[arg[c].number].state = "merged"
                             /\ pulls'[arg[c].number].head \subseteq main'
    BY <1>1, <1>2, <2>4, <2>7, ServedAsAnswered
  <2>9. does[c] = "close" => pulls'[arg[c].number].state # "open"
    BY <1>1, <1>2, <2>7, ServedAsAnswered
  <2>10. does[c] = "protect" => protected'
    BY <1>1, <1>2 DEF Serve
  <2>11. ClientOK(c)'
    BY <1>7, <2>5, <2>6, <2>8, <2>9, <2>10 DEF ClientOK
  <2> QED  BY <1>3, <1>4, <2>5, <2>11, OneMoves
<1>11. CASE does[c] # "open" /\ result \notin {"ok", "already"}
  <2>1. Fails(c, result)
    BY <1>11 DEF Write
  <2>2. result \in Kinds
    <3>1. ClassifyStatus(status) \in Kinds
      <4> HIDE DEF status
      <4> QED  BY <1>5, ClassifiedKind
    <3>2. result = ClassifyStatus(status)
      <4> HIDE DEF status
      <4> QED  BY <1>5, <1>11 DEF Outcome
    <3> QED  BY <3>1, <3>2
  <2> HIDE DEF result
  <2> QED  BY <1>1, <1>3, <1>4, <2>1, <2>2, FailsKeeps
<1> HIDE DEF status, result
<1> QED  BY <1>5, <1>8, <1>9, <1>10, <1>11

\* A call without an answer, whether it was served, lost, or is still to be served.
LEMMA NoAnswerKeeps == ASSUME IInv, NEW c \in Clients, NoAnswer(c) PROVE IInv'
<1>1. /\ pc[c] \in {"write", "find", "checks", "reviews"} /\ Fails(c, ClassifyStatus(TransportFailed))
      /\ faults' = faults + 1 /\ faults < MaxFaults /\ UNCHANGED changes
      /\ RemoteOK /\ PullsFollow /\ BoundsOK /\ CallersOK
  BY DEF NoAnswer, IInv
<1>2. ClassifyStatus(TransportFailed) \in Kinds
  BY ClassifiedKind DEF TransportFailed
<1>3. Call(c) \in Calls
  BY <1>1, CallTyped
<1>4. RemoteOK' /\ PullsFollow' /\ Settling
  <2>1. UNCHANGED remote \/ Serve(Call(c))
    BY DEF NoAnswer
  <2> QED  BY <1>1, <1>3, <2>1, ServeSettles, RemoteIdle
<1>5. BoundsOK'
  <2>1. transit' = transit \/ transit' = transit \union {Call(c)}
    BY DEF NoAnswer
  <2> QED  BY <1>1, <1>3, <2>1, RailAssumption DEF BoundsOK
<1> QED  BY <1>1, <1>2, <1>4, <1>5, FailsKeeps

\* A call that is served after its caller gave up.
LEMMA ServeLateKeeps == ASSUME IInv, NEW q \in transit, ServeLate(q) PROVE IInv'
<1>1. /\ q \in Calls /\ Serve(q) /\ UNCHANGED caller /\ BoundsOK'
      /\ RemoteOK /\ PullsFollow
  BY DEF ServeLate, IInv, BoundsOK
<1>2. RemoteOK' /\ PullsFollow' /\ Settling
  BY <1>1, ServeSettles
<1> QED  BY <1>1, <1>2, NobodyMoves

LEMMA OthersKeep ==
    ASSUME IInv, Push \/ PushOutOfBand \/ \E r \in CheckRuns : CheckEnds(r)
    PROVE  IInv'
<1>1. RemoteOK /\ PullsFollow /\ BoundsOK
  BY DEF IInv
<1>2. CASE Push
  <2>1. UNCHANGED caller /\ BoundsOK'
    BY <1>1, <1>2, RailAssumption DEF Push, BoundsOK
  <2> QED  BY <1>1, <1>2, <2>1, PushSettles, NobodyMoves
<1>3. CASE PushOutOfBand
  <2>1. UNCHANGED caller /\ BoundsOK'
    BY <1>1, <1>3, RailAssumption DEF PushOutOfBand, BoundsOK
  <2> QED  BY <1>1, <1>3, <2>1, OutOfBandSettles, NobodyMoves
<1>4. CASE \E r \in CheckRuns : CheckEnds(r)
  <2>1. PICK r \in CheckRuns : CheckEnds(r)
    BY <1>4
  <2>2. UNCHANGED caller /\ BoundsOK'
    BY <1>1, <2>1 DEF CheckEnds, BoundsOK
  <2> QED  BY <1>1, <2>1, <2>2, CheckSettles, NobodyMoves
<1> QED  BY <1>2, <1>3, <1>4

\* Every step of anybody: what GitHub recorded is not undone.
LEMMA StepSettles == IInv /\ [Next]_vars => Settling
<1> SUFFICES ASSUME IInv, [Next]_vars PROVE Settling
  OBVIOUS
<1>1. RemoteOK /\ PullsFollow /\ BoundsOK /\ CallersOK
  BY DEF IInv
<1>2. CASE UNCHANGED remote
  BY <1>1, <1>2, RemoteIdle
<1>3. ASSUME NEW c \in Clients, Serve(Call(c)) PROVE Settling
  BY <1>1, <1>3, CallTyped, ServeSettles
<1>4. ASSUME NEW q \in transit, Serve(q) PROVE Settling
  <2>1. q \in Calls
    BY <1>1 DEF BoundsOK
  <2> QED  BY <1>1, <1>4, <2>1, ServeSettles
<1>5. ASSUME NEW c \in Clients, Step(c) \/ NoAnswer(c) PROVE UNCHANGED remote \/ Serve(Call(c))
  <2>1. CASE Quietly
    BY <2>1 DEF Quietly
  <2>2. CASE Write(c) \/ NoAnswer(c)
    BY <2>2 DEF Write, NoAnswer
  <2> QED  BY <1>5, <2>1, <2>2 DEF Step, CreateBranch, Request, PostReview, MergePullRequest,
              ClosePullRequest, GetPullStatus, ReadChecks, ReadReviews, FindOpenPR
<1>6. CASE Push \/ PushOutOfBand \/ \E r \in CheckRuns : CheckEnds(r)
  BY <1>1, <1>6, PushSettles, OutOfBandSettles, CheckSettles
<1> QED  BY <1>2, <1>3, <1>4, <1>5, <1>6 DEF Next, vars, ServeLate
-----------------------------------------------------------------------------
(* The theorems *)

LEMMA InitOK == Init => IInv
<1> SUFFICES ASSUME Init PROVE IInv
  OBVIOUS
<1>1. RemoteOK
  <2>1. main \in Heads /\ branch = NoBranch
    BY DEF Init, Heads
  <2>2. pulls \in Seq(Pulls) /\ Len(pulls) <= MaxPulls
    BY RailAssumption DEF Init
  <2>3. checks \in [Heads -> [CheckRuns -> {"running", "passed", "failed"}]]
    BY DEF Init
  <2> QED  BY <2>1, <2>2, <2>3 DEF Init, RemoteOK
<1>2. NoArg \in Args /\ NoArg.number = 0
  BY RailAssumption DEF NoArg, Args, Rollups
<1>3. CallersOK
  BY <1>2 DEF Init, CallersOK, Answers
<1>4. BoundsOK
  BY RailAssumption DEF Init, BoundsOK
<1>5. PullsFollow
  BY DEF Init, PullsFollow
<1>6. ASSUME NEW c \in Clients PROVE ClientOK(c)
  BY <1>2 DEF Init, ClientOK, Answered
<1> QED  BY <1>1, <1>3, <1>4, <1>5, <1>6 DEF IInv

LEMMA StepOK == IInv /\ [Next]_vars => IInv'
<1> SUFFICES ASSUME IInv, [Next]_vars PROVE IInv'
  OBVIOUS
<1>1. CASE UNCHANGED vars
  <2>1. UNCHANGED remote /\ UNCHANGED caller /\ UNCHANGED <<transit, faults, changes>>
    BY <1>1 DEF vars
  <2>2. BoundsOK' /\ RemoteOK /\ PullsFollow
    BY <2>1 DEF IInv, BoundsOK
  <2> QED  BY <2>1, <2>2, RemoteIdle, NobodyMoves
<1>2. ASSUME NEW c \in Clients, Step(c) PROVE IInv'
  BY <1>2, CreateBranchKeeps, RequestKeeps, PostReviewKeeps, MergeKeeps, CloseKeeps,
     GetPullStatusKeeps, ReadChecksKeeps, ReadReviewsKeeps, WriteKeeps, FindOpenKeeps DEF Step
<1>3. ASSUME NEW c \in Clients, NoAnswer(c) PROVE IInv'
  BY <1>3, NoAnswerKeeps
<1>4. ASSUME NEW q \in transit, ServeLate(q) PROVE IInv'
  BY <1>4, ServeLateKeeps
<1>5. CASE Push \/ PushOutOfBand \/ \E r \in CheckRuns : CheckEnds(r)
  BY <1>5, OthersKeep
<1> QED  BY <1>1, <1>2, <1>3, <1>4, <1>5 DEF Next

\* Inductive invariant: what GitHub holds is consistent, and what each attempt
\* relies on is so, however calls fail or come late.
THEOREM Invariant == Spec => []IInv
<1> QED  BY InitOK, StepOK, PTL DEF Spec

\* Type correctness.
THEOREM TypeCorrect == Spec => []TypeOK
<1>1. IInv => TypeOK
  BY DEF IInv, RemoteOK, CallersOK, BoundsOK, TypeOK
<1> QED  BY <1>1, Invariant, PTL

\* What MergePullRequest, ClosePullRequest and ConfigureBranchProtection
\* reported stays so: no call that is served after its caller gave up, no
\* other activity and no user takes it back.
THEOREM ReportsStaySettled == Spec => []Settled
<1>1. IInv => Settled
  BY DEF IInv, ClientOK, Answered, Reported, Settled
<1> QED  BY <1>1, Invariant, PTL

\* A status reported with passing checks is about one commit: getCheckRollup
\* read the checks of the head that GetPullStatus had read.
THEOREM StatusIsOfOneHead == Spec => []RollupOfHead
<1>1. IInv => RollupOfHead
  BY DEF IInv, ClientOK, Answered, Reported, RollupOfHead
<1> QED  BY <1>1, Invariant, PTL

\* Nothing that GitHub records of a pull request is undone by any step: a
\* merged one stays merged with the head it was merged at, a closed one stays
\* closed, the base branch loses nothing, and a passed check stays passed.
THEOREM NothingIsUndone == Spec => [][Settling]_vars
<1> QED  BY StepSettles, Invariant, PTL DEF Spec
=============================================================================
