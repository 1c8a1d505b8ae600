---------------------------- MODULE ActivityRows ----------------------------
(***************************************************************************)
(* methodcheck's readings of an activity's execution row: which components *)
(* are still to be built (project.go) and whether an activity is           *)
(* integrated (rules_testplan.go).  A row has                              *)
(*   attempts : the ledger, a set of [task, attempt, outcome], the latest  *)
(*     attempt of a task being the one with the highest number;            *)
(*   completed : CompletedAt is there;  failure : a FailureReason is;      *)
(*   tail : a TailFailureDetail is;  legacy : what the row of an old       *)
(*     document stores ("" in a current one, or done, failed, integrated). *)
(***************************************************************************)
EXTENDS Integers, FiniteSets, FiniteSetsExt

NoRow == [attempts |-> {}, completed |-> FALSE, failure |-> FALSE, tail |-> FALSE, legacy |-> ""]

Skipped(row) == \E a \in row.attempts : a.outcome = "skipped"
Completed(row) == row.completed /\ ~row.failure /\ ~Skipped(row)

\* Project.componentProgress.  The activities are [name, comp], comp "" for one
\* that builds no component; rows is their execution, of those that have any.
Covering(activities, comp) == {a \in activities : a.comp = comp}
RowOf(rows, a) == IF a.name \in DOMAIN rows THEN rows[a.name] ELSE NoRow
Covered(activities) == {a.comp : a \in activities} \ {""}

DoneOf(activities, rows) ==
    {c \in Covered(activities) : \E a \in Covering(activities, c) : Completed(RowOf(rows, a))}

SkippedOf(activities, rows) ==
    {c \in Covered(activities) : \E a \in Covering(activities, c) :
        Skipped(RowOf(rows, a)) /\ ~Completed(RowOf(rows, a))} \ DoneOf(activities, rows)

PendingOf(activities, rows) ==
    Covered(activities) \ (DoneOf(activities, rows) \union SkippedOf(activities, rows))

\* withGeneratedClientsPending: comps are the design's components.
GeneratedClients(comps) ==
    {id \in DOMAIN comps : comps[id].kind = "client" /\ comps[id].generated}

WithGeneratedClients(comps, pending) ==
    IF \E id \in pending : id \in DOMAIN comps /\ comps[id].kind = "manager"
    THEN pending \union GeneratedClients(comps)
    ELSE pending

-----------------------------------------------------------------------------
\* The latest attempt of each task the ledger mentions.
Latest(attempts) ==
    {a \in attempts : \A b \in attempts : b.task = a.task => b.attempt <= a.attempt}

LedgerIntegrated(attempts) ==
    /\ \E a \in Latest(attempts) : a.task = "testing" /\ a.outcome = "passed"
    /\ \A a \in Latest(attempts) : a.outcome = "passed"

\* ActivityRow.done: a failure is sticky, what completed but did not land is not
\* done, and only a row without an exit is read from its ledger.
Done(row) ==
    /\ ~row.failure /\ row.legacy # "failed"
    /\ ~(row.completed /\ row.tail)
    /\ row.completed \/ row.legacy \in {"done", "integrated"} \/ LedgerIntegrated(row.attempts)

Integrated(rows, name) == name \in DOMAIN rows /\ Done(rows[name])
=============================================================================
