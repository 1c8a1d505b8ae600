----------------------------- MODULE Lifecycles -----------------------------
(***************************************************************************)
(* method-assets/lifecycles.go: the task graph an activity of one type     *)
(* walks, and what a catalog of them is refused for.  A lifecycle l has    *)
(*   l.type, l.phases : a sequence of [id, weight, gate],                  *)
(*   l.tasks : a sequence of [id, kind, phase, deps, reviews, back, up,    *)
(*     filled]; "" is an absent reviews or back (SendsBackTo), up is the   *)
(*     sequence of upstream routes [type, gate], filled says whether the   *)
(*     texts its kind needs are there: a title, a dispatch's command,      *)
(*     workerClass and artifactKind, the artifactKind of a review of none. *)
(* Each of the first half's operators is what one check of the validator   *)
(* reports.                                                                *)
(*                                                                         *)
(* The second half is one activity walking its lifecycle.  The walker is   *)
(* the server, which is not in this repository; what it does is what       *)
(* lifecycles.go says of a task, of a review that judges one and of the    *)
(* routes that send work back, and what the rules read from the ledger it  *)
(* appends to.  Attempt i of task t is ledger[t][i] = [outcome, basis]:    *)
(* outcome "" while it is pending, basis the number of attempts that every *)
(* gate upstream had when the attempt began (<<>> before it did).          *)
(***************************************************************************)
EXTENDS Integers, Sequences, FiniteSets, FiniteSetsExt, SequencesExt, ActivityRows

\* The tasks the validator takes: of several with one id the first.
Taken(l) == {i \in DOMAIN l.tasks :
                /\ l.tasks[i].id # ""
                /\ \A j \in 1..(i - 1) : l.tasks[j].id # l.tasks[i].id}
Ids(l) == {l.tasks[i].id : i \in Taken(l)}
Task(l, id) == l.tasks[CHOOSE i \in Taken(l) : l.tasks[i].id = id]
TasksOf(l) == {l.tasks[i] : i \in DOMAIN l.tasks}
PhaseIds(l) == {l.phases[i].id : i \in DOMAIN l.phases}

\* What each task transitively depends on, along dependencies on earlier tasks.
Upstream(l) ==
    LET up[i \in DOMAIN l.tasks] ==
            UNION {{l.tasks[j].id} \union up[j] :
                       j \in {k \in Taken(l) : k < i /\ l.tasks[k].id \in l.tasks[i].deps}}
    IN  [id \in Ids(l) |-> up[CHOOSE i \in Taken(l) : l.tasks[i].id = id]]

Dispatches(l) == {t \in TasksOf(l) : t.kind = "dispatch"}
Reviewed(l, id) == id \in Ids(l) /\ Task(l, id).kind = "review" /\ Task(l, id).reviews # ""

-----------------------------------------------------------------------------
BadTasks(l) ==
    {l.tasks[i] : i \in DOMAIN l.tasks \ Taken(l)}
    \union {t \in {l.tasks[i] : i \in Taken(l)} :
               t.kind \notin {"dispatch", "review"} \/ t.phase \notin PhaseIds(l) \/ ~t.filled}

\* A dependency that is unknown, the task itself or a later one: without them
\* there is no cycle.
ForwardDeps(l) ==
    {i \in Taken(l) : \E d \in l.tasks[i].deps : \A j \in Taken(l) : l.tasks[j].id = d => j >= i}

Roots(l) == {i \in DOMAIN l.tasks : l.tasks[i].deps = {}}

BadWeights(l) ==
    \/ \E i \in DOMAIN l.phases : l.phases[i].weight <= 0 \/ l.phases[i].id = ""
    \/ Cardinality(PhaseIds(l)) # Len(l.phases)
    \/ MapThenSumSet(LAMBDA i : l.phases[i].weight, DOMAIN l.phases) # 100

BadGates(l) ==
    {p \in {l.phases[i] : i \in DOMAIN l.phases} :
        \/ ~(p.gate \in Ids(l) /\ Task(l, p.gate).kind = "review" /\ Task(l, p.gate).phase = p.id)
        \/ \E t \in TasksOf(l) : t.phase = p.id /\ t.id # p.gate /\ t.id \notin Upstream(l)[p.gate]}

BadReviews(l) ==
    {t \in TasksOf(l) :
        \/ t.kind # "review" /\ t.reviews # ""
        \/ t.kind = "review" /\ t.reviews = "" /\ Dispatches(l) # {}
        \/ t.kind = "review" /\ t.reviews # ""
              /\ ~(t.reviews \in Ids(l) /\ Task(l, t.reviews).kind = "dispatch"
                   /\ t.reviews \in Upstream(l)[t.id])}

\* A mistake for the checks to find: what is behind the review may bypass t.
AnyReviewSendBack(l, t) ==
    \/ t.kind # "dispatch"
    \/ ~Reviewed(l, t.back)
    \/ t.id \in Upstream(l)[t.back]

\* What may not be re-opened by t: a review that waits on t, or one with a task
\* behind it that does not wait on t and would keep its pass.
BadSendBack(l, t) ==
    \/ t.kind # "dispatch"
    \/ ~Reviewed(l, t.back)
    \/ t.id \in Upstream(l)[t.back]
    \/ \E o \in TasksOf(l) : o.id # t.id /\ t.back \in Upstream(l)[o.id] /\ t.id \notin Upstream(l)[o.id]

BadUpstreamShape(l, t) ==
    /\ t.up # <<>>
    /\ \/ t.kind # "dispatch"
       \/ \E i \in DOMAIN t.up : t.up[i].type \in {"", l.type} \/ t.up[i].gate = ""
       \/ \E i, j \in DOMAIN t.up : i < j /\ t.up[i] = t.up[j]

ValidateLifecycle(l) ==
    /\ BadTasks(l) = {} /\ ForwardDeps(l) = {}
    /\ Cardinality(Roots(l)) = 1
    /\ ~BadWeights(l) /\ BadGates(l) = {}
    /\ BadReviews(l) = {}
    /\ \A t \in TasksOf(l) : t.back # "" => ~BadSendBack(l, t)
    /\ \A t \in TasksOf(l) : ~BadUpstreamShape(l, t)

\* The whole catalog ls: a type's last lifecycle is the one its routes resolve to.
BadRoute(ls, r) ==
    LET of == {i \in DOMAIN ls : ls[i].type = r.type}
    IN  \/ of = {}
        \/ \A g \in TasksOf(ls[Max(of)]) : ~(g.id = r.gate /\ g.kind = "review" /\ g.reviews # "")

ValidateLifecycles(ls) ==
    /\ \A i \in DOMAIN ls : ValidateLifecycle(ls[i])
    /\ \A i, j \in DOMAIN ls : i # j => ls[i].type # ls[j].type
    /\ \A i \in DOMAIN ls : \A t \in TasksOf(ls[i]) : \A k \in DOMAIN t.up : ~BadRoute(ls, t.up[k])

-----------------------------------------------------------------------------
(* The walk *)

CONSTANTS
    Candidates,     \* the lifecycles that someone may write
    MaxAttempts     \* bounds the attempts at one task, for each type of lifecycle

\* The tasks of a lifecycle are listed.
ASSUME CandidatesAssumption ==
    \A x \in Candidates : Len(x.tasks) \in Nat /\ DOMAIN x.tasks = 1 .. Len(x.tasks)

VARIABLES
    l,      \* the activity's lifecycle
    before, \* what each of its tasks transitively depends on
    ledger, \* its attempts at each task
    held    \* the dispatches that wait for a gate they have sent back to
walkVars == <<l, before, ledger, held>>

Attempted(t) == ledger[t] # <<>>
Standing(t) == Attempted(t) /\ Last(ledger[t]).outcome = "passed"
Reopened(t) == Attempted(t) /\ Last(ledger[t]) = [outcome |-> "", basis |-> <<>>]
Begun(t) == Attempted(t) /\ Last(ledger[t]).outcome = "" /\ ~Reopened(t)

GatesBefore(t) == {g \in before[t] : Task(l, g).kind = "review"}
BasisOf(t) ==
    [g \in GatesBefore(t) \union {"started"} |-> IF g \in GatesBefore(t) THEN Len(ledger[g]) ELSE 1]

\* The ledger as the rules read it from the activity's row.
Attempts ==
    UNION {{[task |-> t, attempt |-> i, outcome |-> ledger[t][i].outcome] : i \in DOMAIN ledger[t]} : t \in DOMAIN ledger}

Workable(t) ==
    /\ t \notin held
    /\ \A d \in Task(l, t).deps : Standing(d)
    /\ Attempted(t) /\ ~Reopened(t) => Last(ledger[t]).outcome \in {"rejected", "failed"}

Add(led, t, a) == [led EXCEPT ![t] = Append(@, a)]
Ends(led, t, outcome) == [led EXCEPT ![t][Len(led[t])].outcome = outcome]

\* The pair that a review judges: the work and the review of it.
Reopen(led, gate) ==
    LET again == [outcome |-> "", basis |-> <<>>]
    IN  Add(Add(led, Task(l, gate).reviews, again), gate, again)

-----------------------------------------------------------------------------
Begin(t) ==
    /\ Workable(t)
    /\ IF Reopened(t)
       THEN ledger' = [ledger EXCEPT ![t][Len(ledger[t])].basis = BasisOf(t)]
       ELSE /\ Len(ledger[t]) < MaxAttempts[l.type]
            /\ ledger' = Add(ledger, t, [outcome |-> "", basis |-> BasisOf(t)])
    /\ UNCHANGED <<l, before, held>>

\* A gate that passes releases whoever has sent back to it.
Pass(t) ==
    /\ Begun(t)
    /\ ledger' = Ends(ledger, t, "passed")
    /\ held' = {s \in held : Task(l, s).back # t}
    /\ UNCHANGED <<l, before>>

Fail(t) ==
    /\ Begun(t) /\ Len(ledger[t]) < MaxAttempts[l.type]
    /\ ledger' = Ends(ledger, t, "failed")
    /\ UNCHANGED <<l, before, held>>

\* A review does not accept the work: both are to be done again.
Reject(t) ==
    /\ Begun(t) /\ Task(l, t).kind = "review" /\ Task(l, t).reviews # ""
    /\ Len(ledger[t]) < MaxAttempts[l.type] /\ Len(ledger[Task(l, t).reviews]) < MaxAttempts[l.type]
    /\ ledger' = Reopen(Ends(ledger, t, "rejected"), t)
    /\ UNCHANGED <<l, before, held>>

\* A dispatch finds a defect in what a gate has passed: the gate's pair is
\* re-opened, and the dispatch holds until the gate passes again, whether it
\* depends on the gate or not.
SendBack(t) ==
    /\ Begun(t) /\ Task(l, t).back # "" /\ Standing(Task(l, t).back)
    /\ Len(ledger[t]) < MaxAttempts[l.type] /\ Len(ledger[Task(l, t).back]) < MaxAttempts[l.type]
    /\ Len(ledger[Task(l, Task(l, t).back).reviews]) < MaxAttempts[l.type]
    /\ ledger' = Reopen(Ends(ledger, t, "rejected"), Task(l, t).back)
    /\ held' = held \union {t}
    /\ UNCHANGED <<l, before>>

InitWalk ==
    /\ l \in {x \in Candidates : ValidateLifecycle(x)}
    /\ before = Upstream(l)
    /\ ledger = [t \in Ids(l) |-> <<>>]
    /\ held = {}

NextWalk == \E t \in DOMAIN ledger : Begin(t) \/ Pass(t) \/ Fail(t) \/ Reject(t) \/ SendBack(t)

WalkSpec == InitWalk /\ [][NextWalk]_walkVars

-----------------------------------------------------------------------------
\* Whatever waits for the work that a review judges waits for the review too.
JudgedFirst ==
    \A r \in {t \in TasksOf(l) : t.reviews # ""} : \A t \in DOMAIN ledger \ {r.id} :
        r.reviews \in before[t] => r.id \in before[t]

\* No dispatches may send back to gates behind each other, all around a ring.
Uncrossed ==
    \A S \in SUBSET {t \in DOMAIN ledger : Task(l, t).back # ""} :
        S # {} => \E s \in S : \A x \in S \ {s} : x \notin before[Task(l, s).back]

Fresh(t) ==
    \A g \in GatesBefore(t) : Standing(g) /\ Last(ledger[t]).basis[g] = Len(ledger[g])

\* What the validator's own words say of a lifecycle it accepts: no re-open leaves a
\* stale pass standing behind it (lifecycles.go, at checkSendBackRoutes).
NoPassLeftBehind == \A t \in DOMAIN ledger : Standing(t) => Fresh(t)

\* lifecycles.go, at the phase gates: a phase whose gate has passed is complete.
PhasesComplete ==
    \A i \in DOMAIN l.phases : Standing(l.phases[i].gate) =>
        \A t \in TasksOf(l) : t.phase = l.phases[i].id => Standing(t.id)

\* lifecycles.go, at checkSendBackRoutes: a gate that waits on the route's source is
\* refused, for "the source could then never run".  Some task can be worked on until
\* all have passed: no ring of held dispatches waits for gates behind each other.
NeverStuck ==
    \/ \A t \in DOMAIN ledger : Standing(t)
    \/ \E t \in DOMAIN ledger : Begun(t) \/ Workable(t)

\* Where "testing" comes last, a ledger that reads as integrated is complete.
ReadsIntegrated ==
    "testing" \in DOMAIN ledger /\ (\A t \in DOMAIN ledger \ {"testing"} : t \in before["testing"]) =>
        (LedgerIntegrated(Attempts) <=> \A t \in DOMAIN ledger : Standing(t))

\* A lifecycle the validator accepts, in which no work is used before its review,
\* never shows a pass that rests on a gate's earlier one, nor a phase that is not
\* complete though its gate has passed.  It is never stuck, with all the holds of its
\* send-backs, unless these cross and work is used before its review.  And none that
\* is accepted reads as integrated while a task is not done.
NoStalePass ==
    /\ JudgedFirst => NoPassLeftBehind /\ PhasesComplete
    /\ JudgedFirst \/ Uncrossed => NeverStuck
    /\ ReadsIntegrated
=============================================================================
