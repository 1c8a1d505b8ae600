---------------------------- MODULE ScenarioHost ----------------------------
(***************************************************************************)
(* The host of a package of scenario tests (framework-go-scenariohost):    *)
(* scenarios run one after another against a Temporal dev server that      *)
(* outlives the test process, each flush replays the workflow histories    *)
(* they started against the current code, and the verdicts are merged into *)
(* the results index on disk.  The visibility store that every listing     *)
(* reads trails the histories.                                             *)
(*                                                                         *)
(* A scenario is a (component, scenario) key; the wall-clock window of a   *)
(* run is its place in the sequence of all runs.                           *)
(***************************************************************************)
EXTENDS Naturals, Sequences

CONSTANTS Scenarios,   \* keys of the verdicts
          Executions,  \* workflow executions
          MaxRuns,     \* bound on scenario runs
          MaxBoots,    \* bound on test processes
          MaxTries     \* terminateTries

ASSUME HostAssumption == MaxRuns \in Nat /\ MaxBoots \in Nat \ {0} /\ MaxTries \in Nat \ {0}

VARIABLES index,     \* results.json: the verdict of each scenario
          state,     \* each execution: none, running or closed
          shown,     \* ... as the visibility store shows it
          by,        \* the run that started it
          recorded,  \* its history has a completed workflow task
          bad,       \* its history does not replay against the current code
          runs,      \* the scenario of each run so far (the wall clock)
          boot,      \* the runs before this process (booted)
          boots,     \* test processes so far
          phase,     \* what the process does
          watchdog,  \* the timer of the scenario that runs
          result,    \* how the scenario's function ended
          tries,     \* terminate passes
          entries,   \* Results.entries: the verdicts of this process
          windows,   \* Results.windows: the last run of each scenario
          failed,    \* Results.replayFailed: the scenarios with a finding
          done,      \* replayGate.done: the settled executions
          listed,    \* what the last flush listed, and what it showed of it
          todo,      \* what this flush still has to replay
          reports    \* how often a flush has reported each execution

server == <<state, shown, by, recorded, bad>>
results == <<entries, windows, failed>>
gate == <<done, listed, todo, reports>>
clock == <<runs, boot, boots>>
control == <<phase, watchdog, result, tries>>
vars == <<index, server, clock, control, results, gate>>

Verdicts == {"pass", "fail", "skip", "timeout"}
States == {"none", "running", "closed"}

(* Type correctness; and a scenario with a replay finding has a verdict    *)
(* that the finding can override.                                          *)
TypeOK == /\ index \in [Scenarios -> Verdicts \union {"none"}]
          /\ state \in [Executions -> States] /\ shown \in [Executions -> States]
          /\ by \in [Executions -> 0 .. MaxRuns]
          /\ recorded \in [Executions -> BOOLEAN] /\ bad \in [Executions -> BOOLEAN]
          /\ runs \in Seq(Scenarios) /\ Len(runs) <= MaxRuns
          /\ boot \in 0 .. MaxRuns /\ boots \in 1 .. MaxBoots
          /\ phase \in {"tests", "body", "ending", "stuck", "ran", "replay", "flushed", "exited"}
          /\ watchdog \in {"off", "armed", "fired", "recorded"}
          /\ result \in Verdicts \ {"timeout"}
          /\ tries \in 0 .. MaxTries
          /\ entries \in [Scenarios -> Verdicts \union {"none"}]
          /\ windows \in [Scenarios -> 0 .. MaxRuns]
          /\ failed \subseteq Scenarios /\ done \subseteq Executions
          /\ listed \in [Executions -> States] /\ todo \subseteq Executions
          /\ reports \in [Executions -> Nat]
          /\ \A k \in failed : entries[k] # "none"

Nothing == [e \in Executions |-> "none"]

Init == /\ index = [k \in Scenarios |-> "none"]
        /\ state = Nothing /\ shown = Nothing
        /\ by = [e \in Executions |-> 0]
        /\ recorded = [e \in Executions |-> FALSE]
        /\ bad = [e \in Executions |-> FALSE]
        /\ runs = <<>> /\ boot = 0 /\ boots = 1
        /\ phase = "tests" /\ watchdog = "off" /\ result = "pass" /\ tries = 0
        /\ entries = [k \in Scenarios |-> "none"]
        /\ windows = [k \in Scenarios |-> 0]
        /\ failed = {} /\ done = {}
        /\ listed = Nothing /\ todo = {}
        /\ reports = [e \in Executions |-> 0]

Now == Len(runs)
Current == runs[Now]
-----------------------------------------------------------------------------
(* The dev server.                                                         *)

ServerStep == UNCHANGED <<index, clock, control, results, gate>>

\* The scenario's steps start a workflow.
StartWorkflow(e) ==
    /\ phase = "body" /\ state[e] = "none"
    /\ state' = [state EXCEPT ![e] = "running"]
    /\ by' = [by EXCEPT ![e] = Now]
    /\ UNCHANGED <<shown, recorded, bad>>
    /\ ServerStep

\* It completes a workflow task, perhaps with commands that do not replay.
WorkflowTask(e) ==
    /\ state[e] = "running"
    /\ recorded' = [recorded EXCEPT ![e] = TRUE]
    /\ \E b \in {bad[e], TRUE} : bad' = [bad EXCEPT ![e] = b]
    /\ UNCHANGED <<state, shown, by>>
    /\ ServerStep

CloseWorkflow(e) ==
    /\ state[e] = "running"
    /\ state' = [state EXCEPT ![e] = "closed"]
    /\ UNCHANGED <<shown, by, recorded, bad>>
    /\ ServerStep

CatchUp(e) ==
    /\ shown[e] # state[e]
    /\ shown' = [shown EXCEPT ![e] = state[e]]
    /\ UNCHANGED <<state, by, recorded, bad>>
    /\ ServerStep
-----------------------------------------------------------------------------
(* Mutations of the definitions below, used only to show that the          *)
(* properties can fail.                                                    *)

\* a clean replay settles an execution that still runs
SettlesRunning(e) == TRUE

\* the timer's answer is not looked at
IgnoresWatchdog(r) ==
    /\ phase = "body"
    /\ phase' = "ending" /\ result' = r /\ tries' = 0
    /\ UNCHANGED watchdog
    /\ UNCHANGED <<index, server, clock, results, gate>>

\* no pass is too many
NeverTired == FALSE
-----------------------------------------------------------------------------
(* RunScenario.                                                            *)

\* The sub-test begins, with its watchdog.
RunScenario(k) ==
    /\ phase \in {"tests", "flushed"} /\ Now < MaxRuns
    /\ runs' = Append(runs, k)
    /\ phase' = "body" /\ watchdog' = "armed"
    /\ UNCHANGED <<index, server, boot, boots, result, tries, results, gate>>

\* Its function returns, fails, skips or panics; if the watchdog has fired,
\* the goroutine blocks for good.
BodyEnds(r) ==
    /\ phase = "body"
    /\ IF watchdog = "armed"
       THEN phase' = "ending" /\ watchdog' = "off"
       ELSE phase' = "stuck" /\ UNCHANGED watchdog
    /\ result' = r /\ tries' = 0
    /\ UNCHANGED <<index, server, clock, results, gate>>

\* the executions that a listing shows as still running since the scenario began
StillRunning == {e \in Executions : shown[e] = "running" /\ by[e] = Now}

TooManyTries == tries = MaxTries

\* One pass of terminateRunning.
TerminatePass ==
    /\ phase = "ending" /\ StillRunning # {} /\ ~TooManyTries
    /\ tries' = IF tries = MaxTries THEN tries ELSE tries + 1
    /\ state' = [e \in Executions |-> IF e \in StillRunning THEN "closed" ELSE state[e]]
    /\ UNCHANGED <<index, shown, by, recorded, bad, clock, phase, watchdog, result, results, gate>>

\* The verdict and the window are recorded.
Settle(verdict) ==
    /\ phase = "ending"
    /\ entries' = [entries EXCEPT ![Current] = verdict]
    /\ windows' = [windows EXCEPT ![Current] = Now]
    /\ phase' = "ran"
    /\ UNCHANGED <<index, server, clock, watchdog, result, tries, failed, gate>>

Verdict == \/ TooManyTries /\ Settle("fail")
           \/ ~TooManyTries /\ StillRunning = {} /\ Settle(result)

\* The listing of what still runs fails, and so does the scenario.
ListingFails == Settle("fail")

\* A finding of the replay gate overrides the verdict; scenarios that did not
\* run in this process keep the index's.
Merged == [k \in Scenarios |-> IF entries[k] = "none" THEN index[k]
                               ELSE IF k \in failed THEN "fail" ELSE entries[k]]

\* The watchdog records the timeout, writes the indexes and exits.
WatchdogFires ==
    /\ watchdog = "armed"
    /\ watchdog' = "fired"
    /\ UNCHANGED <<index, server, clock, phase, result, tries, results, gate>>

WatchdogRecords ==
    /\ watchdog = "fired" /\ phase # "exited"
    /\ watchdog' = "recorded"
    /\ entries' = [entries EXCEPT ![Current] = "timeout"]
    /\ UNCHANGED <<index, server, clock, phase, result, tries, windows, failed, gate>>

WatchdogExits ==
    /\ watchdog = "recorded" /\ phase # "exited"
    /\ index' = Merged
    /\ phase' = "exited"
    /\ UNCHANGED <<server, clock, watchdog, result, tries, results, gate>>
-----------------------------------------------------------------------------
(* Flush: when the test around a scenario ends (the generated tests run    *)
(* one each), and once more before the process exits.                      *)

\* settledExecutions of the executions started since boot; if the listing
\* fails, the indexes are still written.
FlushLists ==
    /\ phase \in {"ran", "flushed"}
    /\ phase' = "replay"
    /\ \/ listed' = [e \in Executions |-> IF by[e] > boot THEN shown[e] ELSE "none"]
       \/ listed' = Nothing
    /\ todo' = {e \in Executions : listed'[e] # "none"}
    /\ UNCHANGED <<index, server, clock, watchdog, result, tries, results, done, reports>>

\* a clean history is settled once its execution is closed; a finding, always
Settles(e) == bad[e] \/ listed[e] = "closed"

\* the scenario whose last run holds the execution's start
ScenarioAt(e) == {k \in Scenarios : windows[k] = by[e]}

Replay(e) ==
    /\ phase = "replay" /\ e \in todo
    /\ todo' = todo \ {e}
    /\ IF e \in done \/ ~recorded[e]
       THEN UNCHANGED <<done, reports, failed>>
       ELSE /\ done' = IF Settles(e) THEN done \union {e} ELSE done
            /\ reports' = [reports EXCEPT ![e] = IF bad[e] THEN @ + 1 ELSE @]
            /\ failed' = IF bad[e] THEN failed \union ScenarioAt(e) ELSE failed
    /\ UNCHANGED <<index, server, clock, control, entries, windows, listed>>

FlushWrites ==
    /\ phase = "replay" /\ todo = {}
    /\ index' = Merged
    /\ phase' = "flushed"
    /\ UNCHANGED <<server, clock, watchdog, result, tries, results, gate>>

\* run(): the last flush is done and the stack is torn down.
Exit == /\ phase = "flushed"
        /\ phase' = "exited"
        /\ UNCHANGED <<index, server, clock, watchdog, result, tries, results, gate>>

\* The next process boots; endLeftoverWorkflows ends what its listing shows.
Boot ==
    /\ phase = "exited" /\ boots < MaxBoots
    /\ boots' = boots + 1 /\ boot' = Now
    /\ phase' = "tests" /\ watchdog' = "off" /\ tries' = 0
    /\ state' = [e \in Executions |-> IF shown[e] = "running" THEN "closed" ELSE state[e]]
    /\ entries' = [k \in Scenarios |-> "none"]
    /\ windows' = [k \in Scenarios |-> 0]
    /\ failed' = {} /\ done' = {} /\ listed' = Nothing /\ todo' = {}
    /\ UNCHANGED <<index, shown, by, recorded, bad, runs, result, reports>>
-----------------------------------------------------------------------------
Server == \E e \in Executions :
             StartWorkflow(e) \/ WorkflowTask(e) \/ CloseWorkflow(e) \/ CatchUp(e)
Host == TerminatePass \/ Verdict \/ WatchdogFires \/ WatchdogRecords \/ WatchdogExits

Next == \/ Server \/ Host \/ ListingFails
        \/ \E k \in Scenarios : RunScenario(k)
        \/ \E r \in Verdicts \ {"timeout"} : BodyEnds(r)
        \/ FlushLists \/ FlushWrites \/ Exit \/ Boot
        \/ \E e \in Executions : Replay(e)

Spec == Init /\ [][Next]_vars

(* Time passes, so the watchdog fires, and the host's own steps are taken; *)
(* a scenario's function may hang, and the visibility store may lag.       *)
FairSpec == Spec /\ WF_vars(Host)
-----------------------------------------------------------------------------
\* executions that were closed when the last flush listed them
Examined == {e \in Executions : listed[e] = "closed" /\ recorded[e]}

(* After a flush, a scenario passes in the index only if every listed,     *)
(* closed history that its last run started replays; and a history that    *)
(* does not is reported by one flush of a process only.                    *)
PassMeansReplayed ==
    /\ phase = "flushed" =>
           \A k \in Scenarios, e \in Examined :
               windows[k] # 0 /\ by[e] = windows[k] /\ bad[e] => index[k] = "fail"
    /\ \A e \in Executions : reports[e] <= 1

(* A scenario that the watchdog ended is in the index as a timeout, or as  *)
(* the failure that an earlier replay found - never with the verdict that  *)
(* its function raced to record.                                           *)
TimeoutIsFinal ==
    phase = "exited" /\ watchdog = "recorded" =>
        index[Current] = IF Current \in failed THEN "fail" ELSE "timeout"

(* A scenario never hangs the process, whatever its function does.         *)
ScenarioEnds == phase \in {"body", "ending", "stuck"} ~> phase \in {"ran", "exited"}

(* Claimed by results.go: a re-run that passes cannot wash a               *)
(* non-deterministic history out.                                          *)
NeverWashedOut ==
    phase = "flushed" =>
        \A e \in Examined : by[e] > boot /\ bad[e] => index[runs[by[e]]] = "fail"
=============================================================================
