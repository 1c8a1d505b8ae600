------------------------ MODULE ScenarioHost_proofs ------------------------
(***************************************************************************)
(* Proofs about ScenarioHost, for any scenarios, executions and bounds.    *)
(***************************************************************************)
EXTENDS ScenarioHost, TLAPS

\* What is known of an execution: one that was not started left no trace; a
\* listing that shows it closed is right about it; only this process's
\* executions are examined, and what was found of one stays found.
HistoryOK(e) ==
    /\ state[e] = "none" => /\ by[e] = 0 /\ ~recorded[e] /\ ~bad[e] /\ reports[e] = 0
                            /\ shown[e] = "none" /\ listed[e] = "none" /\ e \notin done
    /\ state[e] # "none" => by[e] \in 1 .. Now
    /\ shown[e] = "closed" \/ listed[e] = "closed" => state[e] = "closed"
    /\ e \in todo => by[e] > boot
    /\ e \in done => by[e] > boot /\ (bad[e] \/ state[e] = "closed")
    /\ reports[e] <= 1
    /\ e \notin done /\ by[e] > boot => reports[e] = 0

\* The watchdog runs while a scenario's function does, and the process goes on
\* only after it was stopped in time.
Running == {"body", "stuck"}
WatchOK == /\ boot <= Now
           /\ phase \in {"tests", "ending", "ran", "replay", "flushed"} => watchdog = "off"
           /\ phase = "body" => watchdog # "off"
           /\ phase = "stuck" => watchdog \in {"fired", "recorded"}
           /\ phase = "exited" => watchdog \in {"off", "recorded"}
           /\ phase \in Running \union {"ending"} => Now >= 1
           /\ phase \in Running /\ watchdog = "recorded" => entries[Current] = "timeout"

\* A verdict has the window of its run, unless the watchdog gave it; a finding
\* is charged to the scenario whose window holds the execution, and no window
\* is given to an execution that was examined before.
FindingsOK == /\ \A k \in Scenarios : windows[k] # 0 => entries[k] # "none"
              /\ \A e \in done, k \in Scenarios : bad[e] /\ windows[k] = by[e] => k \in failed
              /\ phase \in Running \union {"ending"} => \A e \in done : by[e] < Now

\* A flush goes through everything that it listed, and then writes.
FlushOK == /\ phase \in {"replay", "flushed"} =>
                  \A e \in Examined : bad[e] => e \in todo \/ e \in done
           /\ phase = "flushed" => todo = {} /\ index = Merged

IInv == /\ TypeOK /\ WatchOK /\ FindingsOK /\ FlushOK /\ TimeoutIsFinal
        /\ \A e \in Executions : HistoryOK(e)
-----------------------------------------------------------------------------
(* The dev server's steps *)

\* The server's steps only touch histories of executions that are not closed,
\* so neither a finding nor the flush under way is disturbed.
LEMMA ServerKeeps ==
    ASSUME IInv, ServerStep, NEW e \in Executions,
           state' \in [Executions -> States], shown' \in [Executions -> States],
           by' \in [Executions -> 0 .. MaxRuns],
           recorded' \in [Executions -> BOOLEAN], bad' \in [Executions -> BOOLEAN],
           \A f \in Executions \ {e} : /\ state'[f] = state[f] /\ shown'[f] = shown[f] /\ by'[f] = by[f]
                                       /\ recorded'[f] = recorded[f] /\ bad'[f] = bad[f],
           HistoryOK(e)',
           e \in done => by'[e] = by[e],
           listed[e] = "closed" => recorded'[e] = recorded[e] /\ bad'[e] = bad[e],
           e \in done /\ bad'[e] => bad[e]
    PROVE  IInv'
<1>1. UNCHANGED <<index, runs, boot, boots, phase, watchdog, result, tries,
                  entries, windows, failed, done, listed, todo, reports>>
  BY DEF ServerStep, clock, control, results, gate
<1>2. TypeOK'
  BY <1>1 DEF IInv, TypeOK
<1>3. WatchOK'
  BY <1>1 DEF IInv, WatchOK, Now, Current, Running
<1>4. FindingsOK'
  <2>1. \A f \in done : f \in Executions
    BY DEF IInv, TypeOK
  <2>2. \A f \in done : by'[f] = by[f] /\ (bad'[f] => bad[f])
    BY <2>1
  <2> QED  BY <1>1, <2>1, <2>2 DEF IInv, FindingsOK, Now, Running
<1>5. FlushOK'
  <2>1. \A f \in Executions : listed[f] = "closed" => recorded'[f] = recorded[f] /\ bad'[f] = bad[f]
    OBVIOUS
  <2> QED  BY <1>1, <2>1 DEF IInv, FlushOK, Examined, Merged
<1>6. TimeoutIsFinal'
  BY <1>1 DEF IInv, TimeoutIsFinal, Now, Current
<1>7. ASSUME NEW f \in Executions PROVE HistoryOK(f)'
  <2>1. CASE f = e
    BY <2>1
  <2>2. CASE f # e
    BY <1>1, <2>2 DEF IInv, HistoryOK, Now
  <2> QED  BY <2>1, <2>2
<1> QED  BY <1>2, <1>3, <1>4, <1>5, <1>6, <1>7 DEF IInv

LEMMA StartKeeps == ASSUME IInv, NEW e \in Executions, StartWorkflow(e) PROVE IInv'
<1>1. /\ TypeOK /\ HistoryOK(e) /\ phase = "body" /\ state[e] = "none" /\ ServerStep
      /\ state' = [state EXCEPT ![e] = "running"] /\ by' = [by EXCEPT ![e] = Now]
      /\ UNCHANGED <<shown, recorded, bad>>
  BY DEF StartWorkflow, IInv
<1>2. Now \in 1 .. MaxRuns
  <2>1. Len(runs) \in Nat /\ Len(runs) >= 1 /\ Len(runs) <= MaxRuns
    BY <1>1 DEF IInv, TypeOK, WatchOK, Running, Now
  <2> QED  BY <2>1, HostAssumption DEF Now
<1>3. UNCHANGED <<runs, boot, done, listed, todo, reports>>
  BY <1>1 DEF ServerStep, clock, gate
<1>4. state' \in [Executions -> States] /\ by' \in [Executions -> 0 .. MaxRuns]
  BY <1>1, <1>2 DEF TypeOK, States
<1>5. state'[e] = "running" /\ by'[e] = Now
  BY <1>1 DEF TypeOK
<1>6. HistoryOK(e)'
  BY <1>1, <1>2, <1>3, <1>5 DEF HistoryOK, Now, TypeOK
<1>7. e \notin done /\ listed[e] = "none"
  BY <1>1 DEF HistoryOK
<1>8. \A f \in Executions \ {e} : /\ state'[f] = state[f] /\ shown'[f] = shown[f] /\ by'[f] = by[f]
                                  /\ recorded'[f] = recorded[f] /\ bad'[f] = bad[f]
  BY <1>1 DEF TypeOK
<1>9. shown' \in [Executions -> States] /\ recorded' \in [Executions -> BOOLEAN] /\ bad' \in [Executions -> BOOLEAN]
  BY <1>1 DEF TypeOK
<1> QED  BY <1>1, <1>4, <1>6, <1>7, <1>8, <1>9, ServerKeeps

LEMMA TaskKeeps == ASSUME IInv, NEW e \in Executions, WorkflowTask(e) PROVE IInv'
<1>1. /\ TypeOK /\ HistoryOK(e) /\ state[e] = "running" /\ ServerStep
      /\ recorded' = [recorded EXCEPT ![e] = TRUE]
      /\ UNCHANGED <<state, shown, by>>
  BY DEF WorkflowTask, IInv
<1>2. PICK b \in {bad[e], TRUE} : bad' = [bad EXCEPT ![e] = b]
  BY DEF WorkflowTask
<1>3. UNCHANGED <<runs, boot, done, listed, todo, reports>>
  BY <1>1 DEF ServerStep, clock, gate
<1>4. recorded' \in [Executions -> BOOLEAN]
  BY <1>1 DEF TypeOK
<1>5. bad' \in [Executions -> BOOLEAN] /\ bad'[e] = b /\ (bad[e] => bad'[e])
  <2>1. bad[e] \in BOOLEAN
    BY <1>1 DEF TypeOK
  <2> QED  BY <1>1, <1>2, <2>1 DEF TypeOK
<1>6. e \in done => bad[e]
  BY <1>1 DEF HistoryOK
<1>7. HistoryOK(e)'
  BY <1>1, <1>3, <1>5 DEF HistoryOK, Now
<1>8. \A f \in Executions \ {e} : /\ state'[f] = state[f] /\ shown'[f] = shown[f] /\ by'[f] = by[f]
                                  /\ recorded'[f] = recorded[f] /\ bad'[f] = bad[f]
  BY <1>1, <1>2 DEF TypeOK
<1>9. state' \in [Executions -> States] /\ shown' \in [Executions -> States] /\ by' \in [Executions -> 0 .. MaxRuns]
  BY <1>1 DEF TypeOK
<1>10. listed[e] # "closed" /\ by'[e] = by[e]
  BY <1>1 DEF HistoryOK
<1> QED  BY <1>1, <1>4, <1>5, <1>6, <1>7, <1>8, <1>9, <1>10, ServerKeeps

LEMMA CloseKeeps == ASSUME IInv, NEW e \in Executions, CloseWorkflow(e) PROVE IInv'
<1>1. /\ TypeOK /\ HistoryOK(e) /\ state[e] = "running" /\ ServerStep
      /\ state' = [state EXCEPT ![e] = "closed"]
      /\ UNCHANGED <<shown, by, recorded, bad>>
  BY DEF CloseWorkflow, IInv
<1>2. UNCHANGED <<runs, boot, done, listed, todo, reports>>
  BY <1>1 DEF ServerStep, clock, gate
<1>3. state' \in [Executions -> States] /\ state'[e] = "closed"
  BY <1>1 DEF TypeOK, States
<1>4. HistoryOK(e)'
  BY <1>1, <1>2, <1>3 DEF HistoryOK, Now
<1>5. \A f \in Executions \ {e} : /\ state'[f] = state[f] /\ shown'[f] = shown[f] /\ by'[f] = by[f]
                                  /\ recorded'[f] = recorded[f] /\ bad'[f] = bad[f]
  BY <1>1 DEF TypeOK
<1>6. /\ shown' \in [Executions -> States] /\ by' \in [Executions -> 0 .. MaxRuns]
      /\ recorded' \in [Executions -> BOOLEAN] /\ bad' \in [Executions -> BOOLEAN]
      /\ recorded'[e] = recorded[e] /\ bad'[e] = bad[e] /\ by'[e] = by[e]
  BY <1>1 DEF TypeOK
<1>7. e \in done => bad[e]
  BY <1>1 DEF HistoryOK
<1> QED  BY <1>1, <1>3, <1>4, <1>5, <1>6, <1>7, ServerKeeps

LEMMA CatchUpKeeps == ASSUME IInv, NEW e \in Executions, CatchUp(e) PROVE IInv'
<1>1. /\ TypeOK /\ HistoryOK(e) /\ ServerStep /\ shown[e] # state[e]
      /\ shown' = [shown EXCEPT ![e] = state[e]]
      /\ UNCHANGED <<state, by, recorded, bad>>
  BY DEF CatchUp, IInv
<1>2. UNCHANGED <<runs, boot, done, listed, todo, reports>>
  BY <1>1 DEF ServerStep, clock, gate
<1>3. shown' \in [Executions -> States] /\ shown'[e] = state[e]
  BY <1>1 DEF TypeOK, States
<1>4. HistoryOK(e)'
  BY <1>1, <1>2, <1>3 DEF HistoryOK, Now
<1>5. \A f \in Executions \ {e} : /\ state'[f] = state[f] /\ shown'[f] = shown[f] /\ by'[f] = by[f]
                                  /\ recorded'[f] = recorded[f] /\ bad'[f] = bad[f]
  BY <1>1 DEF TypeOK
<1>6. /\ state' \in [Executions -> States] /\ by' \in [Executions -> 0 .. MaxRuns]
      /\ recorded' \in [Executions -> BOOLEAN] /\ bad' \in [Executions -> BOOLEAN]
      /\ recorded'[e] = recorded[e] /\ bad'[e] = bad[e] /\ by'[e] = by[e]
  BY <1>1 DEF TypeOK
<1>7. e \in done /\ bad'[e] => bad[e]
  BY <1>6
<1> QED  BY <1>1, <1>3, <1>4, <1>5, <1>6, <1>7, ServerKeeps
-----------------------------------------------------------------------------
(* The host's steps *)

\* Histories are as they were while the clock does not go back.
LEMMA HistoryKept ==
    ASSUME TypeOK, UNCHANGED <<server, gate, boot>>, Len(runs') \in Nat, Len(runs) <= Len(runs'),
           NEW e \in Executions, HistoryOK(e)
    PROVE  HistoryOK(e)'
<1>1. Len(runs) \in Nat
  BY DEF TypeOK
<1> QED  BY <1>1 DEF HistoryOK, server, gate, Now

LEMMA RunKeeps == ASSUME IInv, NEW k \in Scenarios, RunScenario(k) PROVE IInv'
<1>1. /\ phase \in {"tests", "flushed"} /\ Now < MaxRuns /\ runs' = Append(runs, k)
      /\ phase' = "body" /\ watchdog' = "armed"
      /\ UNCHANGED <<index, server, boot, boots, result, tries, results, gate>>
      /\ TypeOK /\ WatchOK /\ FindingsOK
  BY DEF RunScenario, IInv
<1>2. runs' \in Seq(Scenarios) /\ Len(runs') = Len(runs) + 1 /\ Len(runs) \in Nat /\ MaxRuns \in Nat
  BY <1>1, HostAssumption DEF TypeOK
<1>3. TypeOK'
  BY <1>1, <1>2 DEF TypeOK, server, results, gate, Now
<1>4. WatchOK'
  BY <1>1, <1>2 DEF WatchOK, Running, Now, TypeOK
<1>5. FindingsOK'
  <2>1. \A e \in done : e \in Executions
    BY <1>1 DEF TypeOK
  <2>2. \A e \in Executions : by[e] \in Nat /\ by[e] <= Now
    BY <1>1, <1>2 DEF IInv, HistoryOK, Now
  <2> QED  BY <1>1, <1>2, <2>1, <2>2 DEF FindingsOK, server, results, gate, Now
<1>6. FlushOK' /\ TimeoutIsFinal'
  BY <1>1 DEF FlushOK, TimeoutIsFinal
<1>7. \A e \in Executions : HistoryOK(e)'
  BY <1>1, <1>2, HistoryKept DEF IInv
<1> QED  BY <1>3, <1>4, <1>5, <1>6, <1>7 DEF IInv

\* A step that changes neither a history, nor a verdict, nor what a flush does.
LEMMA ControlKeeps ==
    ASSUME IInv, UNCHANGED <<index, server, clock, results, gate>>, TypeOK', WatchOK',
           phase' \notin {"replay", "flushed", "exited"} \/ (phase' = phase /\ UNCHANGED watchdog)
             \/ (phase' = "exited" /\ watchdog' # "recorded"),
           phase' \in Running \union {"ending"} => phase \in Running \union {"ending"}
    PROVE  IInv'
<1>1. FindingsOK'
  BY DEF IInv, FindingsOK, server, clock, results, gate, Now
<1>2. FlushOK'
  BY DEF IInv, FlushOK, Examined, Merged, server, results, gate
<1>3. TimeoutIsFinal'
  BY DEF IInv, TimeoutIsFinal, clock, results, Current, Now
<1>4. \A e \in Executions : HistoryOK(e)'
  <2>1. Len(runs) \in Nat
    BY DEF IInv, TypeOK
  <2> QED  BY <2>1, HistoryKept DEF IInv, clock
<1> QED  BY <1>1, <1>2, <1>3, <1>4 DEF IInv

LEMMA BodyKeeps == ASSUME IInv, NEW r \in Verdicts \ {"timeout"}, BodyEnds(r) PROVE IInv'
<1>1. /\ phase = "body" /\ result' = r /\ tries' = 0
      /\ \/ watchdog = "armed" /\ phase' = "ending" /\ watchdog' = "off"
         \/ watchdog # "armed" /\ phase' = "stuck" /\ watchdog' = watchdog
      /\ UNCHANGED <<index, server, clock, results, gate>>
      /\ TypeOK /\ WatchOK
  BY DEF BodyEnds, IInv
<1>2. TypeOK'
  BY <1>1, HostAssumption DEF TypeOK, server, clock, results, gate
<1>3. WatchOK'
  BY <1>1 DEF WatchOK, TypeOK, Running, clock, results, Now, Current
<1> QED  BY <1>1, <1>2, <1>3, ControlKeeps DEF Running

LEMMA FiresKeeps == ASSUME IInv, WatchdogFires PROVE IInv'
<1>1. /\ watchdog = "armed" /\ watchdog' = "fired"
      /\ UNCHANGED <<index, server, clock, phase, result, tries, results, gate>>
      /\ TypeOK /\ WatchOK
  BY DEF WatchdogFires, IInv
<1>2. TypeOK'
  BY <1>1 DEF TypeOK, server, clock, results, gate
<1>3. WatchOK'
  BY <1>1 DEF WatchOK, TypeOK, Running, clock, results, Now, Current
<1>4. phase \in Running
  BY <1>1 DEF WatchOK, TypeOK, Running
<1> QED  BY <1>1, <1>2, <1>3, <1>4, ControlKeeps DEF Running

LEMMA ExitKeeps == ASSUME IInv, Exit PROVE IInv'
<1>1. /\ phase = "flushed" /\ phase' = "exited"
      /\ UNCHANGED <<index, server, clock, watchdog, result, tries, results, gate>>
      /\ TypeOK /\ WatchOK
  BY DEF Exit, IInv
<1>2. TypeOK'
  BY <1>1 DEF TypeOK, server, clock, results, gate
<1>3. watchdog' = "off"
  BY <1>1 DEF WatchOK
<1>4. WatchOK'
  BY <1>1, <1>3 DEF WatchOK, Running, clock, results, Now, Current
<1> QED  BY <1>1, <1>2, <1>3, <1>4, ControlKeeps DEF Running

\* A terminate pass closes executions, and no history changes.
LEMMA TerminateKeeps == ASSUME IInv, TerminatePass PROVE IInv'
<1>1. /\ phase = "ending" /\ TypeOK /\ WatchOK
      /\ tries' = IF tries = MaxTries THEN tries ELSE tries + 1
      /\ state' = [e \in Executions |-> IF e \in StillRunning THEN "closed" ELSE state[e]]
      /\ UNCHANGED <<index, shown, by, recorded, bad, clock, phase, watchdog, result, results, gate>>
  BY DEF TerminatePass, IInv
<1>2. tries' \in 0 .. MaxTries
  BY <1>1, HostAssumption DEF TypeOK
<1>3. state' \in [Executions -> States] /\ \A e \in Executions : state'[e] = state[e] \/ (state'[e] = "closed" /\ shown[e] = "running")
  BY <1>1 DEF TypeOK, States, StillRunning
<1>4. TypeOK'
  BY <1>1, <1>2, <1>3 DEF TypeOK, clock, results, gate
<1>5. WatchOK'
  BY <1>1 DEF WatchOK, Running, clock, results, Now, Current
<1>6. FindingsOK' /\ FlushOK' /\ TimeoutIsFinal'
  BY <1>1 DEF IInv, FindingsOK, FlushOK, TimeoutIsFinal, clock, results, gate, Now, Running
<1>7. ASSUME NEW e \in Executions PROVE HistoryOK(e)'
  <2>1. HistoryOK(e) /\ UNCHANGED <<runs, boot, by, recorded, bad, shown, done, listed, todo, reports>>
    BY <1>1 DEF IInv, clock, gate
  <2>2. CASE state'[e] = state[e]
    BY <2>1, <2>2 DEF HistoryOK, Now
  <2>3. CASE state'[e] = "closed" /\ shown[e] = "running"
    BY <2>1, <2>3 DEF HistoryOK, Now
  <2> QED  BY <1>3, <2>2, <2>3
<1> QED  BY <1>4, <1>5, <1>6, <1>7 DEF IInv

\* The verdict of a run, with its window: nothing examined has it.
LEMMA SettleKeeps == ASSUME IInv, NEW v \in Verdicts, Settle(v) PROVE IInv'
<1>1. /\ phase = "ending" /\ phase' = "ran"
      /\ entries' = [entries EXCEPT ![Current] = v] /\ windows' = [windows EXCEPT ![Current] = Now]
      /\ UNCHANGED <<index, server, clock, watchdog, result, tries, failed, gate>>
      /\ TypeOK /\ WatchOK /\ FindingsOK
  BY DEF Settle, IInv
<1>2. Now \in 1 .. MaxRuns /\ Current \in Scenarios
  <2>1. Len(runs) \in Nat /\ Len(runs) >= 1 /\ Len(runs) <= MaxRuns /\ runs \in Seq(Scenarios)
    BY <1>1 DEF TypeOK, WatchOK, Now
  <2> QED  BY <2>1, HostAssumption DEF Now, Current
<1>3. /\ entries' \in [Scenarios -> Verdicts \union {"none"}] /\ windows' \in [Scenarios -> 0 .. MaxRuns]
      /\ entries'[Current] = v /\ windows'[Current] = Now /\ v # "none"
      /\ \A k \in Scenarios \ {Current} : entries'[k] = entries[k] /\ windows'[k] = windows[k]
  BY <1>1, <1>2 DEF TypeOK, Verdicts
<1>4. TypeOK'
  <2>1. \A k \in failed : entries'[k] # "none"
    BY <1>1, <1>2, <1>3 DEF TypeOK
  <2> QED  BY <1>1, <1>3, <2>1 DEF TypeOK, server, clock, gate
<1>5. WatchOK'
  BY <1>1 DEF WatchOK, Running, clock, Now
<1>6. FindingsOK'
  <2>1. \A e \in done : by[e] < Now /\ by[e] \in Nat
    BY <1>1 DEF FindingsOK, TypeOK
  <2>2. \A e \in done, k \in Scenarios : bad[e] /\ windows'[k] = by[e] => k \in failed
    BY <1>1, <1>2, <1>3, <2>1 DEF FindingsOK
  <2>3. \A k \in Scenarios : windows'[k] # 0 => entries'[k] # "none"
    BY <1>1, <1>3 DEF FindingsOK
  <2> QED  BY <1>1, <2>2, <2>3 DEF FindingsOK, server, gate, Running
<1>7. FlushOK' /\ TimeoutIsFinal'
  BY <1>1 DEF FlushOK, TimeoutIsFinal
<1>8. \A e \in Executions : HistoryOK(e)'
  <2>1. Len(runs) \in Nat
    BY <1>1 DEF TypeOK
  <2> QED  BY <1>1, <2>1, HistoryKept DEF IInv, clock
<1> QED  BY <1>4, <1>5, <1>6, <1>7, <1>8 DEF IInv

LEMMA RecordsKeeps == ASSUME IInv, WatchdogRecords PROVE IInv'
<1>1. /\ watchdog = "fired" /\ phase # "exited" /\ watchdog' = "recorded"
      /\ entries' = [entries EXCEPT ![Current] = "timeout"]
      /\ UNCHANGED <<index, server, clock, phase, result, tries, windows, failed, gate>>
      /\ TypeOK /\ WatchOK /\ FindingsOK
  BY DEF WatchdogRecords, IInv
<1>2. phase \in Running
  BY <1>1 DEF WatchOK, TypeOK, Running
<1>3. Current \in Scenarios
  <2>1. Len(runs) \in Nat /\ Len(runs) >= 1 /\ runs \in Seq(Scenarios)
    BY <1>1, <1>2 DEF TypeOK, WatchOK, Now
  <2> QED  BY <2>1 DEF Now, Current
<1>4. /\ entries' \in [Scenarios -> Verdicts \union {"none"}] /\ entries'[Current] = "timeout"
      /\ \A k \in Scenarios \ {Current} : entries'[k] = entries[k]
  BY <1>1, <1>3 DEF TypeOK, Verdicts
<1>5. TypeOK'
  <2>1. \A k \in failed : entries'[k] # "none"
    BY <1>1, <1>3, <1>4 DEF TypeOK
  <2> QED  BY <1>1, <1>4, <2>1 DEF TypeOK, server, clock, gate
<1>6. Current' = Current /\ Now' = Now
  BY <1>1 DEF clock, Current, Now
<1>7. WatchOK'
  BY <1>1, <1>2, <1>4, <1>6 DEF WatchOK, Running, clock
<1>8. FindingsOK'
  BY <1>1, <1>3, <1>4, <1>6 DEF FindingsOK, server, gate
<1>9. FlushOK' /\ TimeoutIsFinal'
  BY <1>1, <1>2 DEF FlushOK, TimeoutIsFinal, Running
<1>10. \A e \in Executions : HistoryOK(e)'
  <2>1. Len(runs) \in Nat
    BY <1>1 DEF TypeOK
  <2> QED  BY <1>1, <2>1, HistoryKept DEF IInv, clock
<1> QED  BY <1>5, <1>7, <1>8, <1>9, <1>10 DEF IInv

\* What a flush or the watchdog writes: merging once more changes nothing.
LEMMA MergedAgain ==
    ASSUME TypeOK, UNCHANGED <<entries, failed>>, index' = Merged
    PROVE  index' \in [Scenarios -> Verdicts \union {"none"}] /\ Merged' = index'
<1>1. \A k \in Scenarios : Merged[k] \in Verdicts \union {"none"}
  BY DEF Merged, TypeOK, Verdicts
<1>2. Merged \in [Scenarios -> Verdicts \union {"none"}]
  BY <1>1 DEF Merged
<1>3. \A k \in Scenarios : Merged'[k] = Merged[k]
  BY DEF Merged
<1>4. Merged' = Merged
  BY <1>3 DEF Merged
<1> QED  BY <1>2, <1>4

LEMMA WatchdogExitsKeeps == ASSUME IInv, WatchdogExits PROVE IInv'
<1>1. /\ watchdog = "recorded" /\ phase # "exited" /\ index' = Merged /\ phase' = "exited"
      /\ UNCHANGED <<server, clock, watchdog, result, tries, results, gate>>
      /\ TypeOK /\ WatchOK
  BY DEF WatchdogExits, IInv
<1>2. phase \in Running
  BY <1>1 DEF WatchOK, TypeOK, Running
<1>3. Current \in Scenarios /\ entries[Current] = "timeout"
  <2>1. Len(runs) \in Nat /\ Len(runs) >= 1 /\ runs \in Seq(Scenarios)
    BY <1>1, <1>2 DEF TypeOK, WatchOK, Now
  <2> QED  BY <1>1, <1>2, <2>1 DEF Now, Current, WatchOK
<1>4. index' \in [Scenarios -> Verdicts \union {"none"}]
  BY <1>1, MergedAgain DEF results
<1>5. TypeOK'
  BY <1>1, <1>4 DEF TypeOK, server, clock, results, gate
<1>6. WatchOK'
  BY <1>1 DEF WatchOK, Running, clock, Now
<1>7. FindingsOK' /\ FlushOK'
  BY <1>1 DEF IInv, FindingsOK, FlushOK, server, results, gate, Running
<1>8. TimeoutIsFinal'
  <2>1. index'[Current] = IF Current \in failed THEN "fail" ELSE "timeout"
    BY <1>1, <1>3 DEF Merged
  <2> QED  BY <1>1, <2>1 DEF TimeoutIsFinal, clock, results, Current, Now
<1>9. \A e \in Executions : HistoryOK(e)'
  <2>1. Len(runs) \in Nat
    BY <1>1 DEF TypeOK
  <2> QED  BY <1>1, <2>1, HistoryKept DEF IInv, clock
<1> QED  BY <1>5, <1>6, <1>7, <1>8, <1>9 DEF IInv

\* A flush lists what this process started, or its listing fails.
LEMMA ListsKeeps == ASSUME IInv, FlushLists PROVE IInv'
<1>1. /\ phase \in {"ran", "flushed"} /\ phase' = "replay"
      /\ todo' = {e \in Executions : listed'[e] # "none"}
      /\ UNCHANGED <<index, server, clock, watchdog, result, tries, results, done, reports>>
      /\ TypeOK /\ WatchOK
  BY DEF FlushLists, IInv
<1>2. /\ listed' \in [Executions -> States]
      /\ \A e \in Executions : listed'[e] = "none" \/ (by[e] > boot /\ listed'[e] = shown[e])
  <2>1. CASE listed' = [e \in Executions |-> IF by[e] > boot THEN shown[e] ELSE "none"]
    BY <1>1, <2>1 DEF TypeOK, States
  <2>2. CASE listed' = Nothing
    BY <2>2 DEF Nothing, States
  <2> QED  BY <2>1, <2>2 DEF FlushLists
<1>3. TypeOK'
  BY <1>1, <1>2 DEF TypeOK, server, clock, results
<1>4. WatchOK' /\ FindingsOK' /\ TimeoutIsFinal'
  BY <1>1 DEF IInv, WatchOK, FindingsOK, TimeoutIsFinal, server, clock, results, Running, Now
<1>5. FlushOK'
  BY <1>1 DEF FlushOK, Examined, server
<1>6. ASSUME NEW e \in Executions PROVE HistoryOK(e)'
  BY <1>1, <1>2 DEF IInv, HistoryOK, server, clock, Now
<1> QED  BY <1>3, <1>4, <1>5, <1>6 DEF IInv

\* One history is replayed: a finding is reported once and charged.
LEMMA ReplayKeeps == ASSUME IInv, NEW e \in Executions, Replay(e) PROVE IInv'
<1>1. /\ phase = "replay" /\ e \in todo /\ todo' = todo \ {e}
      /\ UNCHANGED <<index, server, clock, control, entries, windows, listed>>
      /\ TypeOK /\ WatchOK /\ FindingsOK /\ FlushOK /\ HistoryOK(e)
  BY DEF Replay, IInv
<1>2. by[e] > boot /\ boot \in Nat /\ by[e] \in Nat
  BY <1>1 DEF HistoryOK, TypeOK
<1>3. CASE e \in done \/ ~recorded[e]
  <2>1. UNCHANGED <<done, reports, failed>>
    BY <1>3 DEF Replay
  <2>2. TypeOK' /\ WatchOK' /\ FindingsOK' /\ TimeoutIsFinal'
    BY <1>1, <2>1 DEF IInv, TypeOK, WatchOK, FindingsOK, TimeoutIsFinal, server, clock, control, Now, Current
  <2>3. FlushOK'
    BY <1>1, <1>3, <2>1 DEF FlushOK, Examined, server, control
  <2>4. \A f \in Executions : HistoryOK(f)'
    BY <1>1, <2>1 DEF IInv, HistoryOK, server, clock, Now
  <2> QED  BY <2>2, <2>3, <2>4 DEF IInv
<1>4. CASE e \notin done /\ recorded[e]
  <2>1. /\ done' = IF Settles(e) THEN done \union {e} ELSE done
        /\ reports' = [reports EXCEPT ![e] = IF bad[e] THEN @ + 1 ELSE @]
        /\ failed' = IF bad[e] THEN failed \union ScenarioAt(e) ELSE failed
    BY <1>4 DEF Replay
  <2>2. reports[e] = 0 /\ state[e] # "none"
    BY <1>1, <1>2, <1>4 DEF HistoryOK
  <2>3. /\ reports' \in [Executions -> Nat] /\ reports'[e] = IF bad[e] THEN 1 ELSE 0
        /\ \A f \in Executions \ {e} : reports'[f] = reports[f]
    BY <1>1, <2>1, <2>2 DEF TypeOK
  <2>4. /\ failed' \subseteq Scenarios /\ failed \subseteq failed'
        /\ bad[e] => \A k \in Scenarios : windows[k] = by[e] => k \in failed'
        /\ \A k \in failed' : k \in failed \/ windows[k] = by[e]
    BY <1>1, <2>1 DEF TypeOK, ScenarioAt
  <2>5. \A k \in failed' : entries[k] # "none"
    BY <1>1, <1>2, <2>4 DEF TypeOK, FindingsOK
  <2>6. /\ done' \subseteq done \union {e} /\ done \subseteq done'
        /\ bad[e] => e \in done'
        /\ e \in done' => bad[e] \/ state[e] = "closed"
    BY <1>1, <2>1 DEF Settles, HistoryOK
  <2>7. TypeOK'
    BY <1>1, <2>3, <2>4, <2>5, <2>6 DEF TypeOK, server, clock, control
  <2>8. WatchOK' /\ TimeoutIsFinal'
    BY <1>1 DEF IInv, WatchOK, TimeoutIsFinal, clock, control, Now, Current
  <2>9. FindingsOK'
    BY <1>1, <2>4, <2>6 DEF FindingsOK, server, clock, control, Running
  <2>10. FlushOK'
    BY <1>1, <2>6 DEF FlushOK, Examined, server, control
  <2>11. ASSUME NEW f \in Executions PROVE HistoryOK(f)'
    <3>1. HistoryOK(f) /\ UNCHANGED <<state, shown, by, recorded, bad, runs, boot, listed>>
      BY <1>1 DEF IInv, server, clock
    <3>2. CASE f = e
      BY <1>1, <1>2, <2>2, <2>3, <2>6, <3>1, <3>2 DEF HistoryOK, Now
    <3>3. CASE f # e
      BY <1>1, <2>3, <2>6, <3>1, <3>3 DEF HistoryOK, Now
    <3> QED  BY <3>2, <3>3
  <2> QED  BY <2>7, <2>8, <2>9, <2>10, <2>11 DEF IInv
<1> QED  BY <1>3, <1>4

LEMMA WritesKeeps == ASSUME IInv, FlushWrites PROVE IInv'
<1>1. /\ phase = "replay" /\ todo = {} /\ index' = Merged /\ phase' = "flushed"
      /\ UNCHANGED <<server, clock, watchdog, result, tries, results, gate>>
      /\ TypeOK /\ WatchOK /\ FlushOK
  BY DEF FlushWrites, IInv
<1>2. index' \in [Scenarios -> Verdicts \union {"none"}] /\ Merged' = index'
  BY <1>1, MergedAgain DEF results
<1>3. TypeOK'
  BY <1>1, <1>2 DEF TypeOK, server, clock, results, gate
<1>4. WatchOK' /\ FindingsOK' /\ TimeoutIsFinal'
  BY <1>1 DEF IInv, WatchOK, FindingsOK, TimeoutIsFinal, server, clock, results, gate, Running, Now
<1>5. FlushOK'
  <2>1. Examined' = Examined /\ UNCHANGED <<bad, todo, done>>
    BY <1>1 DEF Examined, server, gate
  <2> QED  BY <1>1, <1>2, <2>1 DEF FlushOK
<1>6. \A e \in Executions : HistoryOK(e)'
  <2>1. Len(runs) \in Nat
    BY <1>1 DEF TypeOK
  <2> QED  BY <1>1, <2>1, HistoryKept DEF IInv, clock
<1> QED  BY <1>3, <1>4, <1>5, <1>6 DEF IInv

\* The next process ends what its listing shows, and has examined nothing.
LEMMA BootKeeps == ASSUME IInv, Boot PROVE IInv'
<1>1. /\ phase = "exited" /\ boots < MaxBoots /\ boots' = boots + 1 /\ boot' = Now
      /\ phase' = "tests" /\ watchdog' = "off" /\ tries' = 0
      /\ entries' = [k \in Scenarios |-> "none"] /\ windows' = [k \in Scenarios |-> 0]
      /\ failed' = {} /\ done' = {} /\ listed' = Nothing /\ todo' = {}
      /\ UNCHANGED <<index, shown, by, recorded, bad, runs, result, reports>>
      /\ TypeOK
  BY DEF Boot, IInv
<1>2. /\ state' \in [Executions -> States]
      /\ \A e \in Executions : state'[e] = state[e] \/ (shown[e] = "running" /\ state'[e] = "closed")
  BY <1>1 DEF Boot, TypeOK, States
<1>3. Len(runs) \in Nat /\ Now \in 0 .. MaxRuns
  BY <1>1, HostAssumption DEF TypeOK, Now
<1>4. TypeOK'
  <2>1. boots' \in 1 .. MaxBoots /\ tries' \in 0 .. MaxTries
    BY <1>1, HostAssumption DEF TypeOK
  <2>2. listed' \in [Executions -> States] /\ entries' \in [Scenarios -> Verdicts \union {"none"}]
    BY <1>1 DEF Nothing, States
  <2>3. windows' \in [Scenarios -> 0 .. MaxRuns]
    BY <1>1, HostAssumption
  <2> QED  BY <1>1, <1>2, <1>3, <2>1, <2>2, <2>3 DEF TypeOK
<1>5. WatchOK'
  BY <1>1, <1>3 DEF WatchOK, Running, Now
<1>6. FindingsOK' /\ FlushOK' /\ TimeoutIsFinal'
  BY <1>1 DEF FindingsOK, FlushOK, TimeoutIsFinal, Running
<1>7. ASSUME NEW e \in Executions PROVE HistoryOK(e)'
  <2>1. HistoryOK(e) /\ listed'[e] = "none" /\ by[e] \in Nat
    BY <1>1 DEF IInv, Nothing, TypeOK
  <2>2. ~(by[e] > Now)
    BY <1>3, <2>1 DEF HistoryOK
  <2> QED  BY <1>1, <1>2, <1>3, <2>1, <2>2 DEF HistoryOK, Now
<1> QED  BY <1>4, <1>5, <1>6, <1>7 DEF IInv
-----------------------------------------------------------------------------
(* The theorems *)

LEMMA InitOK == Init => IInv
<1> SUFFICES ASSUME Init PROVE IInv
  OBVIOUS
<1>1. TypeOK
  <2>1. state \in [Executions -> States] /\ shown \in [Executions -> States] /\ listed \in [Executions -> States]
    BY DEF Init, Nothing, States
  <2>2. runs \in Seq(Scenarios) /\ Len(runs) = 0
    BY DEF Init
  <2> QED  BY <2>1, <2>2, HostAssumption DEF Init, TypeOK, Verdicts
<1>2. WatchOK /\ FindingsOK /\ FlushOK /\ TimeoutIsFinal
  BY DEF Init, WatchOK, FindingsOK, FlushOK, TimeoutIsFinal, Now, Running
<1>3. ASSUME NEW e \in Executions PROVE HistoryOK(e)
  BY DEF Init, HistoryOK, Nothing, Now
<1> QED  BY <1>1, <1>2, <1>3 DEF IInv

LEMMA StepOK == IInv /\ [Next]_vars => IInv'
<1> SUFFICES ASSUME IInv, [Next]_vars PROVE IInv'
  OBVIOUS
<1>1. CASE UNCHANGED vars
  <2>1. UNCHANGED <<index, server, clock, results, gate>> /\ UNCHANGED <<phase, watchdog, result, tries>>
    BY <1>1 DEF vars, control
  <2>2. TypeOK' /\ WatchOK'
    BY <2>1 DEF IInv, TypeOK, WatchOK, server, clock, results, gate, Now, Current
  <2> QED  BY <2>1, <2>2, ControlKeeps
<1>2. CASE Server
  BY <1>2, StartKeeps, TaskKeeps, CloseKeeps, CatchUpKeeps DEF Server
<1>3. CASE Verdict \/ ListingFails
  <2>1. result \in Verdicts /\ "fail" \in Verdicts
    BY DEF IInv, TypeOK, Verdicts
  <2>2. PICK v \in Verdicts : Settle(v)
    BY <1>3, <2>1 DEF Verdict, ListingFails
  <2> QED  BY <2>2, SettleKeeps
<1>4. CASE TerminatePass \/ WatchdogFires \/ WatchdogRecords \/ WatchdogExits
  BY <1>4, TerminateKeeps, FiresKeeps, RecordsKeeps, WatchdogExitsKeeps
<1>5. CASE FlushLists \/ FlushWrites \/ Exit \/ Boot
  BY <1>5, ListsKeeps, WritesKeeps, ExitKeeps, BootKeeps
<1>6. ASSUME NEW k \in Scenarios, RunScenario(k) PROVE IInv'
  BY <1>6, RunKeeps
<1>7. ASSUME NEW r \in Verdicts \ {"timeout"}, BodyEnds(r) PROVE IInv'
  BY <1>7, BodyKeeps
<1>8. ASSUME NEW e \in Executions, Replay(e) PROVE IInv'
  BY <1>8, ReplayKeeps
<1> QED  BY <1>1, <1>2, <1>3, <1>4, <1>5, <1>6, <1>7, <1>8 DEF Next, Host

\* Inductive invariant: what a listing showed closed is closed, a history is
\* examined once, and what was found of it is charged to the run that started it.
THEOREM Invariant == Spec => []IInv
<1> QED  BY InitOK, StepOK, PTL DEF Spec

\* Type correctness; and a replay finding belongs to a scenario with a verdict.
THEOREM TypeCorrect == Spec => []TypeOK
<1>1. IInv => TypeOK
  BY DEF IInv
<1> QED  BY <1>1, Invariant, PTL

\* replayHistories and Results.Flush: once a flush has written, no scenario
\* passes whose last run started a listed, closed history that does not
\* replay; and a process reports each such history once.
THEOREM PassesWereReplayed == Spec => []PassMeansReplayed
<1>1. IInv => PassMeansReplayed
  <2> SUFFICES ASSUME IInv PROVE PassMeansReplayed
    OBVIOUS
  <2>1. ASSUME phase = "flushed", NEW k \in Scenarios, NEW e \in Examined,
               windows[k] # 0, by[e] = windows[k], bad[e]
        PROVE  index[k] = "fail"
    <3>1. e \in done
      BY <2>1 DEF IInv, FlushOK
    <3>2. k \in failed /\ entries[k] # "none"
      BY <2>1, <3>1 DEF IInv, FindingsOK
    <3> QED  BY <2>1, <3>2 DEF IInv, FlushOK, Merged
  <2>2. \A e \in Executions : reports[e] <= 1
    BY DEF IInv, HistoryOK
  <2> QED  BY <2>1, <2>2 DEF PassMeansReplayed
<1> QED  BY <1>1, Invariant, PTL

\* RunScenario: once the watchdog has ended the process, the index holds its
\* timeout or an earlier finding, whatever the scenario's function raced to do.
THEOREM TimeoutsAreFinal == Spec => []TimeoutIsFinal
<1>1. IInv => TimeoutIsFinal
  BY DEF IInv
<1> QED  BY <1>1, Invariant, PTL
=============================================================================
