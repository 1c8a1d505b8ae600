------------------------------- MODULE DevStack -------------------------------
(***************************************************************************)
(* The launcher that rungen generates (rungen/runtime.go): it starts what  *)
(* the plan needs, builds and starts the server, says that it is ready,    *)
(* and, at whatever point it ends, stops what it started, newest first.    *)
(* An interrupt may reach the launcher alone, or, typed at a terminal, its *)
(* children as well: the processes it started and the docker command it is *)
(* waiting for.  The docker daemon works on its own.                       *)
(***************************************************************************)
EXTENDS Naturals, Sequences, SequencesExt

CONSTANTS MaxInterrupts  \* bound on interrupts

Processes == {"temporal", "server"}
Items == Processes \union {"postgres", "files"}

VARIABLES plan,        \* the substrates the plan needs, and whether it has a web
          pc,          \* where run() is
          stack,       \* cleanups: what is to be stopped, oldest first
          proc,        \* the state of each process
          wasUp,       \* the processes that have listened (history)
          chosen,      \* those whose port was picked and given back
          taken,       \* those whose port another program listens on now
          container,   \* what the docker daemon makes of the Postgres container
          cut,         \* a docker command was killed under way (history)
          interrupted, \* the context is done
          interrupts,  \* interrupts so far
          ready        \* the ready line was printed

vars == <<plan, pc, stack, proc, wasUp, chosen, taken, container, cut, interrupted,
          interrupts, ready>>
system == <<proc, wasUp, taken, container, cut, interrupted, interrupts>>

Steps == {"off", "temporal", "dial", "postgres", "docker run", "probe", "web", "address", "build",
          "server", "wait ready", "serving", "cleanup", "docker rm", "exited"}

StartOrder == <<"temporal", "postgres", "files", "server">>

(* Type correctness; and what is on the stack was started, in the order of *)
(* the plan and once.                                                      *)
TypeOK == /\ plan \subseteq {"temporal", "postgres", "web"}
          /\ pc \in Steps
          /\ stack \in Seq(Items)
          /\ stack = SelectSeq(StartOrder, LAMBDA item : item \in ToSet(stack))
          /\ proc \in [Processes -> {"none", "starting", "up", "asked", "exited"}]
          /\ \A p \in ToSet(stack) \intersect Processes : proc[p] # "none"
          /\ wasUp \subseteq Processes /\ chosen \subseteq Processes
          /\ taken \subseteq chosen
          /\ container \in {"none", "requested", "running", "gone"}
          /\ cut \in BOOLEAN /\ interrupted \in BOOLEAN /\ ready \in BOOLEAN
          /\ interrupts \in 0 .. MaxInterrupts

Init == /\ plan = {}
        /\ pc = "off"
        /\ stack = <<>>
        /\ proc = [p \in Processes |-> "none"]
        /\ wasUp = {}
        /\ chosen = {} /\ taken = {}
        /\ container = "none"
        /\ cut = FALSE
        /\ interrupted = FALSE /\ interrupts = 0
        /\ ready = FALSE

Alive(p) == proc[p] \in {"starting", "up", "asked"}
-----------------------------------------------------------------------------
(* Mutations of the definitions below, used only to show that the          *)
(* properties can fail.                                                    *)

\* A mistake for the checks to find: the cleanup is added once it is ready.
AddedWhenReady(item) == IF item = "postgres" THEN stack ELSE Append(stack, item)

\* A mistake for the checks to find: any answer is taken for readiness.
AnyAnswer(p) == proc[p] # "none"

\* A mistake for the checks to find: no kill after the 30 seconds.
AskedOnly(p) == FALSE
-----------------------------------------------------------------------------
Goto(from, to) == pc = from /\ pc' = to

\* With what the plan needs; or not at all, when the environment lacks what
\* only the person can supply.
Begin(needed, supplied) == /\ pc = "off"
                           /\ plan' = needed
                           /\ pc' = IF supplied THEN "temporal" ELSE "exited"
                           /\ UNCHANGED <<stack, chosen, ready, system>>

\* Every error of run() returns through the deferred cleanups.
Fail == pc' = "cleanup"

Pushed(item) == Append(stack, item)

\* start: the child runs until it is waited for.
Start(p) == /\ proc' = [proc EXCEPT ![p] = "starting"]
            /\ stack' = Pushed(p)

\* What answers on the port of a process: itself, or whoever took the port.
Answers(p) == proc[p] \in {"up", "asked"} \/ p \in taken

StartTemporal ==
    /\ pc = "temporal"
    /\ IF "temporal" \in plan
       THEN /\ \/ pc' = "dial" /\ Start("temporal")
               \/ Fail /\ UNCHANGED <<proc, stack>>
            /\ chosen' = chosen \union {"temporal"}
       ELSE pc' = "postgres" /\ UNCHANGED <<proc, stack, chosen>>
    /\ UNCHANGED <<plan, wasUp, taken, container, cut, interrupted, interrupts, ready>>

\* waitDial: an answer, a done context, an exit or the deadline.
WaitDial == /\ pc = "dial"
            /\ \/ Answers("temporal") /\ pc' = "postgres"
               \/ Fail
            /\ UNCHANGED <<plan, stack, chosen, ready, system>>

\* docker run, by a command that the context kills: the daemon may have the
\* request without the command having the id.
RequestPostgres == /\ pc = "postgres"
                   /\ IF "postgres" \in plan
                      THEN pc' = "docker run" /\ container' = "requested"
                      ELSE pc' = "web" /\ UNCHANGED container
                   /\ UNCHANGED <<plan, stack, proc, wasUp, chosen, taken, cut, interrupted,
                                  interrupts, ready>>

PostgresStarted == /\ pc = "docker run"
                   /\ container = "running"
                   /\ pc' = "probe"
                   /\ stack' = Pushed("postgres")
                   /\ UNCHANGED <<plan, chosen, ready, system>>

PostgresRefused == /\ Goto("docker run", "cleanup")
                   /\ container = "requested"
                   /\ container' = "gone"
                   /\ UNCHANGED <<plan, stack, proc, wasUp, chosen, taken, cut, interrupted,
                                  interrupts, ready>>

RunCutShort == /\ Goto("docker run", "cleanup")
               /\ interrupted
               /\ cut' = TRUE
               /\ UNCHANGED <<plan, stack, proc, wasUp, chosen, taken, container, interrupted,
                              interrupts, ready>>

\* docker port and the pg_isready loop; buildWeb; each fails or goes on.
ProbePostgres == /\ pc = "probe"
                 /\ pc' = "web" \/ Fail
                 /\ UNCHANGED <<plan, stack, chosen, ready, system>>

BuildWeb == /\ pc = "web"
            /\ pc' = "address" \/ ("web" \in plan /\ Fail)
            /\ UNCHANGED <<plan, stack, chosen, ready, system>>

\* freeAddr: the port is free again while the server is built.
PickAddress == /\ Goto("address", "build")
               /\ chosen' = chosen \union {"server"}
               /\ UNCHANGED <<plan, stack, ready, system>>

BuildServer == /\ pc = "build"
               /\ \/ stack' = Pushed("files") /\ (pc' = "server" \/ Fail)
                  \/ Fail /\ UNCHANGED stack
               /\ UNCHANGED <<plan, chosen, ready, system>>

StartServer == /\ pc = "server"
               /\ \/ pc' = "wait ready" /\ Start("server")
                  \/ Fail /\ UNCHANGED <<proc, stack>>
               /\ UNCHANGED <<plan, chosen, wasUp, taken, container, cut, interrupted,
                              interrupts, ready>>

WaitReady == /\ pc = "wait ready"
             /\ \/ Answers("server") /\ pc' = "serving" /\ ready' = TRUE
                \/ Fail /\ UNCHANGED ready
             /\ UNCHANGED <<plan, stack, chosen, system>>

Serve == /\ Goto("serving", "cleanup")
         /\ interrupted \/ proc["server"] = "exited"
         /\ UNCHANGED <<plan, stack, chosen, ready, system>>

\* cleanups.run: the newest that is left; process.stop asks and waits.
Newest == Last(stack)
Older == Front(stack)

Ask(p) == /\ pc = "cleanup" /\ stack # <<>> /\ Newest = p
          /\ proc[p] \in {"starting", "up"}
          /\ proc' = [proc EXCEPT ![p] = "asked"]
          /\ UNCHANGED <<plan, pc, stack, wasUp, chosen, taken, container, cut, interrupted,
                         interrupts, ready>>

\* 30 seconds later.
Killed(p) == proc[p] = "asked"
Kill(p) == /\ pc = "cleanup" /\ stack # <<>> /\ Newest = p
           /\ Killed(p)
           /\ proc' = [proc EXCEPT ![p] = "exited"]
           /\ UNCHANGED <<plan, pc, stack, wasUp, chosen, taken, container, cut, interrupted,
                          interrupts, ready>>

Stopped == /\ pc = "cleanup" /\ stack # <<>>
           /\ \/ Newest = "files"
              \/ Newest \in Processes /\ proc[Newest] = "exited"
           /\ stack' = Older
           /\ UNCHANGED <<plan, pc, chosen, ready, system>>

\* docker rm -f, which no context kills, but a second ^C does.
RemovePostgres == /\ Goto("cleanup", "docker rm")
                  /\ stack # <<>> /\ Newest = "postgres"
                  /\ UNCHANGED <<plan, stack, chosen, ready, system>>

RemovedPostgres == /\ Goto("docker rm", "cleanup")
                   /\ container' = "gone"
                   /\ stack' = Older
                   /\ UNCHANGED <<plan, proc, wasUp, chosen, taken, cut, interrupted,
                                  interrupts, ready>>

Exit == /\ Goto("cleanup", "exited")
        /\ stack = <<>>
        /\ UNCHANGED <<plan, stack, chosen, ready, system>>

Run == \/ StartTemporal \/ WaitDial \/ RequestPostgres \/ PostgresStarted \/ PostgresRefused
       \/ RunCutShort \/ ProbePostgres \/ BuildWeb \/ PickAddress \/ BuildServer
       \/ StartServer \/ WaitReady \/ Serve
       \/ \E p \in Processes : Ask(p) \/ Kill(p)
       \/ Stopped \/ RemovePostgres \/ RemovedPostgres \/ Exit
-----------------------------------------------------------------------------
\* A process listens, unless its port is taken; and it may exit at any time.
Listen(p) == /\ proc[p] = "starting" /\ p \notin taken
             /\ proc' = [proc EXCEPT ![p] = "up"]
             /\ wasUp' = wasUp \union {p}
             /\ UNCHANGED <<plan, pc, stack, chosen, taken, container, cut, interrupted,
                            interrupts, ready>>

Quit(p) == /\ Alive(p)
           /\ proc' = [proc EXCEPT ![p] = "exited"]
           /\ UNCHANGED <<plan, pc, stack, wasUp, chosen, taken, container, cut, interrupted,
                          interrupts, ready>>

\* Another program listens on a port that was picked and given back.
TakePort(p) == /\ p \in chosen \ taken
               /\ proc[p] \in {"none", "starting", "exited"}
               /\ taken' = taken \union {p}
               /\ UNCHANGED <<plan, pc, stack, proc, wasUp, chosen, container, cut,
                              interrupted, interrupts, ready>>

\* The daemon creates the container it was asked for, whoever still waits.
DaemonStarts == /\ container = "requested"
                /\ container' = "running"
                /\ UNCHANGED <<plan, pc, stack, proc, wasUp, chosen, taken, cut, interrupted,
                               interrupts, ready>>

\* An interrupt of the launcher alone.
Interrupt == /\ pc \notin {"off", "exited"} /\ interrupts < MaxInterrupts
             /\ interrupts' = interrupts + 1
             /\ interrupted' = TRUE
             /\ UNCHANGED <<plan, pc, stack, proc, wasUp, chosen, taken, container, cut, ready>>

\* And one typed at a terminal: the children get it too.
InterruptAll ==
    /\ pc \notin {"off", "exited"} /\ interrupts < MaxInterrupts
    /\ interrupts' = interrupts + 1
    /\ interrupted' = TRUE
    /\ proc' = [p \in Processes |-> IF Alive(p) THEN "exited" ELSE proc[p]]
    /\ IF pc = "docker rm"
       THEN /\ pc' = "cleanup" /\ stack' = Older /\ cut' = TRUE
            /\ container' \in {container, "gone"}
       ELSE UNCHANGED <<pc, stack, cut, container>>
    /\ UNCHANGED <<plan, wasUp, chosen, taken, ready>>

World == \/ \E p \in Processes : Listen(p) \/ Quit(p) \/ TakePort(p)
         \/ DaemonStarts
         \/ Interrupt \/ InterruptAll

-----------------------------------------------------------------------------
(* When the launcher has exited, whatever made it, nothing it started is   *)
(* left, except a container whose docker run or docker rm was killed under *)
(* way: a start that fails half way, an interrupt during any step and a    *)
(* second one during the cleanup included.                                 *)
LeftOnlyIfCutShort ==
    pc = "exited" => /\ \A p \in Processes : ~Alive(p)
                     /\ container \in {"requested", "running"} => cut

(* The ready line is printed only after the server itself and the Temporal *)
(* it needs have listened, unless another program took a port between its  *)
(* choice and its use, and answered instead.                               *)
ReadyMeansUp ==
    ready => \A p \in {"server"} \union (plan \intersect Processes) : p \in wasUp \union taken

(* An interrupt ends the launcher, at whatever point it comes.             *)
InterruptEnds == interrupted ~> pc = "exited"
=============================================================================
