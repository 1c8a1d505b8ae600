--------------------------- MODULE Delivery_proofs ---------------------------
(***************************************************************************)
(* What the generated launcher leaves behind, when it says that it is      *)
(* ready, and that what it starts is enough for the server, for every      *)
(* application, plan and number of interrupts.                             *)
(***************************************************************************)
EXTENDS Delivery, FiniteSetTheorems, TLAPS

\* A process that lives was pushed on the cleanup stack, and is still there.
ProcessesOwed == \A p \in Processes : Alive(p) => p \in ToSet(stack)

\* So is a container, or the launcher still waits for docker run; a command
\* that was killed under way is the only way to lose it.
ContainerOwed ==
    container \in {"requested", "running"} =>
        cut \/ pc = "docker run" \/ "postgres" \in ToSet(stack)

\* docker rm removes the newest of what is to be stopped.
RemovesNewest == pc = "docker rm" => stack # <<>> /\ Last(stack) = "postgres"

\* The launcher exits when nothing is left to be stopped.
StackEmptied == pc = "exited" => stack = <<>>

\* What was answered was answered by the process, or by who took its port.
AnsweredBy(p) == p \in wasUp \union taken
UpWasSeen == \A p \in Processes : /\ proc[p] = "up" => p \in wasUp
                                  /\ proc[p] = "asked" => pc \in {"cleanup", "docker rm", "exited"}
BeforeTemporal == {"off", "temporal", "dial"}
Dialed == pc \notin BeforeTemporal \union {"cleanup", "docker rm", "exited"} /\ "temporal" \in plan
             => AnsweredBy("temporal")
ReadyAnswered == ready => /\ pc \in {"serving", "cleanup", "docker rm", "exited"}
                          /\ AnsweredBy("server")
                          /\ "temporal" \in plan => AnsweredBy("temporal")

\* What the steps of the launcher read of its own variables.
Shape == /\ stack \in Seq(Items)
         /\ pc \in Steps
         /\ DOMAIN proc = Processes
         /\ pc = "off" => ~ready /\ stack = <<>>

IInv == Shape /\ ProcessesOwed /\ ContainerOwed /\ RemovesNewest /\ StackEmptied
        /\ UpWasSeen /\ Dialed /\ ReadyAnswered
-----------------------------------------------------------------------------
(* The cleanup stack *)

LEMMA PushKeeps ==
    ASSUME NEW s \in Seq(Items), NEW item \in Items
    PROVE  /\ Append(s, item) \in Seq(Items)
           /\ ToSet(Append(s, item)) = ToSet(s) \union {item}
<1> DEFINE t == Append(s, item)
<1>1. /\ t \in Seq(Items) /\ DOMAIN t = 1 .. Len(s) + 1
      /\ DOMAIN s = 1 .. Len(s) /\ Len(s) \in Nat
      /\ \A i \in 1 .. Len(s) : t[i] = s[i]
      /\ t[Len(s) + 1] = item
  OBVIOUS
<1>2. ToSet(t) = {t[i] : i \in 1 .. Len(s)} \union {t[Len(s) + 1]}
  <2>1. 1 .. Len(s) + 1 = (1 .. Len(s)) \union {Len(s) + 1}
    BY <1>1
  <2> HIDE DEF t
  <2> QED BY <1>1, <2>1 DEF ToSet
<1> HIDE DEF t
<1>3. {t[i] : i \in 1 .. Len(s)} = ToSet(s)
  BY <1>1 DEF ToSet
<1> QED BY <1>1, <1>2, <1>3 DEF t

\* Only the newest leaves.
LEMMA PopKeeps ==
    ASSUME NEW s \in Seq(Items), s # <<>>
    PROVE  /\ Front(s) \in Seq(Items)
           /\ Last(s) \in ToSet(s)
           /\ ToSet(s) \subseteq ToSet(Front(s)) \union {Last(s)}
<1> DEFINE t == Front(s)
<1>1. /\ Len(s) \in Nat \ {0} /\ DOMAIN s = 1 .. Len(s)
      /\ t \in Seq(Items) /\ DOMAIN t = 1 .. Len(s) - 1
      /\ \A i \in 1 .. Len(s) - 1 : t[i] = s[i]
  BY DEF Front
<1> HIDE DEF t
<1>2. \A i \in DOMAIN s : i \in DOMAIN t \/ i = Len(s)
  BY <1>1
<1>3. ASSUME NEW x \in ToSet(s) PROVE x \in ToSet(t) \union {Last(s)}
  <2>1. PICK i \in DOMAIN s : x = s[i]
    BY <1>3 DEF ToSet
  <2>2. CASE i \in DOMAIN t
    BY <1>1, <2>1, <2>2 DEF ToSet
  <2>3. CASE i = Len(s)
    BY <2>1, <2>3 DEF Last
  <2> QED BY <1>2, <2>1, <2>2, <2>3
<1>4. Last(s) \in ToSet(s)
  BY <1>1 DEF ToSet, Last
<1> QED BY <1>1, <1>3, <1>4 DEF t
-----------------------------------------------------------------------------
LEMMA InitInv == Init => IInv
  BY DEF Init, IInv, Shape, ProcessesOwed, ContainerOwed, RemovesNewest, StackEmptied,
     UpWasSeen, Dialed, ReadyAnswered, AnsweredBy, BeforeTemporal, Alive, Processes, Steps

LEMMA BeginInv ==
    ASSUME NEW needed, NEW supplied, IInv, Begin(needed, supplied) PROVE IInv'
  BY DEF Begin, system, IInv, Shape, ProcessesOwed, ContainerOwed, RemovesNewest, StackEmptied,
     UpWasSeen, Dialed, ReadyAnswered, AnsweredBy, BeforeTemporal, Alive, Processes, Steps

\* The steps of run(), of what it waits for and of the cleanups.
LEMMA RunInv == ASSUME IInv, Run PROVE IInv'
<1> USE DEF IInv, Shape, ProcessesOwed, ContainerOwed, RemovesNewest, StackEmptied, UpWasSeen, Dialed,
           ReadyAnswered, AnsweredBy, BeforeTemporal, Alive, Processes, Steps, system
<1>1. CASE StartTemporal
  <2>1. /\ Append(stack, "temporal") \in Seq(Items)
        /\ ToSet(Append(stack, "temporal")) = ToSet(stack) \union {"temporal"}
    BY PushKeeps DEF Items
  <2> QED BY <1>1, <2>1 DEF StartTemporal, Start, Fail, Pushed, Items
<1>2. CASE WaitDial
  BY <1>2 DEF WaitDial, Answers, Fail
<1>3. CASE RequestPostgres
  BY <1>3 DEF RequestPostgres
<1>4. CASE PostgresStarted
  <2>1. /\ Append(stack, "postgres") \in Seq(Items)
        /\ ToSet(Append(stack, "postgres")) = ToSet(stack) \union {"postgres"}
    BY PushKeeps DEF Items
  <2> QED BY <1>4, <2>1 DEF PostgresStarted, Pushed, Items
<1>5. CASE PostgresRefused
  BY <1>5 DEF PostgresRefused, Goto
<1>6. CASE RunCutShort
  BY <1>6 DEF RunCutShort, Goto
<1>7. CASE ProbePostgres
  BY <1>7 DEF ProbePostgres, Fail
<1>8. CASE BuildWeb
  BY <1>8 DEF BuildWeb, Fail
<1>9. CASE PickAddress
  BY <1>9 DEF PickAddress, Goto
<1>10. CASE BuildServer
  <2>1. /\ Append(stack, "files") \in Seq(Items)
        /\ ToSet(Append(stack, "files")) = ToSet(stack) \union {"files"}
    BY PushKeeps DEF Items
  <2> QED BY <1>10, <2>1 DEF BuildServer, Fail, Pushed, Items
<1>11. CASE StartServer
  <2>1. /\ Append(stack, "server") \in Seq(Items)
        /\ ToSet(Append(stack, "server")) = ToSet(stack) \union {"server"}
    BY PushKeeps DEF Items
  <2> QED BY <1>11, <2>1 DEF StartServer, Start, Fail, Pushed, Items
<1>12. CASE WaitReady
  <2>1. ReadyAnswered'
    <3>1. CASE Answers("server") /\ pc' = "serving" /\ ready' = TRUE
      <4>1. AnsweredBy("server") /\ ("temporal" \in plan => AnsweredBy("temporal"))
        BY <1>12, <3>1 DEF WaitReady, Answers
      <4> QED BY <1>12, <3>1, <4>1 DEF WaitReady
    <3>2. CASE Fail /\ UNCHANGED ready
      BY <1>12, <3>2 DEF WaitReady, Fail
    <3> QED BY <1>12, <3>1, <3>2 DEF WaitReady
  <2>2. (Shape /\ ProcessesOwed /\ ContainerOwed /\ RemovesNewest /\ StackEmptied)'
    BY <1>12 DEF WaitReady, Fail
  <2>3. UpWasSeen' /\ Dialed'
    BY <1>12 DEF WaitReady, Fail
  <2> QED BY <2>1, <2>2, <2>3
<1>13. CASE Serve
  BY <1>13 DEF Serve, Goto
<1>14. ASSUME NEW p \in Processes, Ask(p) PROVE IInv'
  BY <1>14 DEF Ask
<1>15. ASSUME NEW p \in Processes, Kill(p) PROVE IInv'
  BY <1>15 DEF Kill
<1>16. CASE Stopped
  <2>1. stack # <<>> => /\ Front(stack) \in Seq(Items)
                       /\ ToSet(stack) \subseteq ToSet(Front(stack)) \union {Last(stack)}
    BY PopKeeps
  <2> QED BY <1>16, <2>1 DEF Stopped, Newest, Older
<1>17. CASE RemovePostgres
  BY <1>17 DEF RemovePostgres, Goto, Newest
<1>18. CASE RemovedPostgres
  <2>1. stack # <<>> => /\ Front(stack) \in Seq(Items)
                       /\ ToSet(stack) \subseteq ToSet(Front(stack)) \union {Last(stack)}
    BY PopKeeps
  <2> QED BY <1>18, <2>1 DEF RemovedPostgres, Goto, Older
<1>19. CASE Exit
  BY <1>19 DEF Exit, Goto
<1> QED BY <1>1, <1>2, <1>3, <1>4, <1>5, <1>6, <1>7, <1>8, <1>9, <1>10, <1>11, <1>12, <1>13, <1>14, <1>15, <1>16, <1>17, <1>18, <1>19 DEF Run

\* The steps of everything else.
LEMMA WorldInv == ASSUME IInv, World PROVE IInv'
<1> USE DEF IInv, Shape, ProcessesOwed, ContainerOwed, RemovesNewest, StackEmptied, UpWasSeen, Dialed,
           ReadyAnswered, AnsweredBy, BeforeTemporal, Alive, Processes, Steps, system
<1>1. ASSUME NEW p \in Processes, Listen(p) PROVE IInv'
  BY <1>1 DEF Listen
<1>2. ASSUME NEW p \in Processes, Quit(p) PROVE IInv'
  BY <1>2 DEF Quit
<1>3. ASSUME NEW p \in Processes, TakePort(p) PROVE IInv'
  BY <1>3 DEF TakePort
<1>4. CASE DaemonStarts
  BY <1>4 DEF DaemonStarts
<1>5. CASE Interrupt
  BY <1>5 DEF Interrupt
<1>6. CASE InterruptAll
  <2>1. stack # <<>> => /\ Front(stack) \in Seq(Items)
                       /\ ToSet(stack) \subseteq ToSet(Front(stack)) \union {Last(stack)}
    BY PopKeeps
  <2> QED BY <1>6, <2>1 DEF InterruptAll, Older
<1> QED BY <1>1, <1>2, <1>3, <1>4, <1>5, <1>6 DEF World
-----------------------------------------------------------------------------
(* Whatever the construction and the launcher do, in any order, the        *)
(* launcher's cleanup stack lists what it must still stop, and what it has *)
(* waited for has answered.                                                *)
THEOREM InductiveInvariant == DeliverySpec => []IInv
<1>1. DeliveryInit => IInv
  BY InitInv DEF DeliveryInit
<1>2. IInv /\ [DeliveryNext]_allVars => IInv'
  <2> SUFFICES ASSUME IInv, [DeliveryNext]_allVars PROVE IInv'
    OBVIOUS
  <2>1. CASE UNCHANGED vars
    BY <2>1 DEF vars, IInv, Shape, ProcessesOwed, ContainerOwed, RemovesNewest, StackEmptied,
       UpWasSeen, Dialed, ReadyAnswered, AnsweredBy, Alive
  <2>2. CASE Launch
    <3> DEFINE needed == tree.plan.substrates \union Surface
               supplied == given' = tree.plan.required
    <3>1. Begin(needed, supplied)
      BY <2>2 DEF Launch
    <3> HIDE DEF needed, supplied
    <3> QED BY <3>1, BeginInv
  <2>3. CASE Run
    BY <2>3, RunInv
  <2>4. CASE World
    BY <2>4, WorldInv
  <2> QED
    BY <2>1, <2>2, <2>3, <2>4 DEF DeliveryNext, allVars, Construct, Launcher, Others
<1> QED BY <1>1, <1>2, PTL DEF DeliverySpec

(* Once the launcher has exited, whatever made it, nothing that it started *)
(* is left, except a container whose docker command was killed under way.  *)
THEOREM NothingLeft == DeliverySpec => []LeftOnlyIfCutShort
<1>1. IInv => LeftOnlyIfCutShort
  <2> SUFFICES ASSUME IInv, pc = "exited"
               PROVE  /\ \A p \in Processes : ~Alive(p)
                      /\ container \in {"requested", "running"} => cut
    BY DEF LeftOnlyIfCutShort
  <2>1. ToSet(stack) = {}
    BY DEF IInv, StackEmptied, ToSet
  <2> QED BY <2>1 DEF IInv, ProcessesOwed, ContainerOwed
<1> QED BY <1>1, InductiveInvariant, PTL

(* The ready line is printed only after the server, and the Temporal that  *)
(* the plan needs, have listened, or another program in their place.       *)
THEOREM ReadyIsHonest == DeliverySpec => []ReadyMeansUp
<1>1. IInv => ReadyMeansUp
  BY DEF IInv, ReadyAnswered, AnsweredBy, ReadyMeansUp, Processes
<1> QED BY <1>1, InductiveInvariant, PTL
-----------------------------------------------------------------------------
(* What the server reads, and what the plan starts and asks for *)

\* Whatever else is true of a declaration, the launcher starts it or asks for
\* what it insists on, when it is declared for the local profile.
LEMMA LocalIsCovered ==
    ASSUME NEW d, NEW decl \in Local(d), RequiredClass(decl)
    PROVE  FieldsOf(decl) \subseteq LauncherPlan(d).provisioned \union LauncherPlan(d).required
<1> DEFINE started == {other \in Local(d) : other.substrate \in Provisionable}
           asked == {other \in d.decls : Insisted(other) /\ "local" \in other.profiles}
<1>1. decl \in d.decls /\ "local" \in decl.profiles
  BY DEF Local
<1>2. /\ LauncherPlan(d).provisioned = UNION {FieldsOf(other) : other \in started}
      /\ LauncherPlan(d).required = (UNION {FieldsOf(other) : other \in asked})
                                    \ UNION {FieldsOf(other) : other \in started}
  BY DEF LauncherPlan, RequiredFor
<1>3. decl \in started \/ decl \in asked
  BY <1>1 DEF Insisted, HasDefault, Provisionable
<1> HIDE DEF started, asked
<1> QED BY <1>2, <1>3

LEMMA PlanCoversReads ==
    ASSUME NEW m, LocallyDeclared(m.d)
    PROVE  ReadLocally(m) \subseteq LauncherPlan(m.d).provisioned \union LauncherPlan(m.d).required
<1> DEFINE covered == LauncherPlan(m.d).provisioned \union LauncherPlan(m.d).required
<1>1. HardRequired(m.d) \subseteq covered
  <2>1. SUFFICES ASSUME NEW decl \in m.d.decls, Insisted(decl), m.d.profiles \subseteq decl.profiles
                 PROVE  FieldsOf(decl) \subseteq covered
    BY DEF HardRequired
  <2>2. decl \in Local(m.d) /\ RequiredClass(decl)
    BY <2>1 DEF LocallyDeclared, Local, Insisted
  <2> QED BY <2>2, LocalIsCovered
<1>2. ASSUME NEW decl \in OfSubstrate(m.d, "temporal") PROVE FieldsOf(decl) \subseteq covered
  <2> DEFINE started == {other \in Local(m.d) : other.substrate \in Provisionable}
  <2>1. decl \in started
    BY DEF LocallyDeclared, OfSubstrate, Provisionable
  <2>2. LauncherPlan(m.d).provisioned = UNION {FieldsOf(other) : other \in started}
    BY DEF LauncherPlan
  <2> HIDE DEF started
  <2> QED BY <2>1, <2>2
<1> DEFINE used == UNION {ToSet(b.per["local"].infra) : b \in LocalArms(m)}
<1>3. ASSUME NEW decl \in m.d.decls, decl.key \in used, RequiredClass(decl)
      PROVE  FieldsOf(decl) \subseteq covered
  <2>1. PICK b \in LocalArms(m) : decl.key \in ToSet(b.per["local"].infra)
    BY <1>3
  <2>2. b \in m.d.bindings /\ "local" \in DOMAIN b.per
    BY DEF LocalArms, Accesses, Bound, Arms
  <2>3. decl \in Local(m.d)
    BY <2>1, <2>2 DEF LocallyDeclared
  <2> QED BY <1>3, <2>3, LocalIsCovered
<1> DEFINE wired == {decl \in m.d.decls : decl.key \in used /\ RequiredClass(decl)}
<1>4. ReadLocally(m) = HardRequired(m.d)
                       \union (UNION {FieldsOf(decl) : decl \in OfSubstrate(m.d, "temporal")})
                       \union (UNION {FieldsOf(decl) : decl \in wired})
  BY DEF ReadLocally
<1>5. ASSUME NEW decl \in wired PROVE FieldsOf(decl) \subseteq covered
  BY <1>3
<1> HIDE DEF covered, used, wired
<1>6. ReadLocally(m) \subseteq covered
  BY <1>1, <1>2, <1>4, <1>5
<1> QED BY <1>6 DEF covered

\* The deployment that is derived declares everything for both profiles.
LEMMA DerivedLocally ==
    ASSUME NEW cs, NEW unit PROVE LocallyDeclared(DefaultDeployment(cs, unit))
<1> DEFINE d == DefaultDeployment(cs, unit)
<1>1. d.decls = DefaultDecls(cs) /\ d.profiles = DefaultProfiles
  BY DEF DefaultDeployment
<1>2. ASSUME NEW decl \in DefaultDecls(cs) PROVE decl.profiles = DefaultProfiles
  BY DEF DefaultDecls, Decl
<1>3. Local(d) = d.decls
  BY <1>1, <1>2 DEF Local, DefaultProfiles
<1> QED BY <1>1, <1>3 DEF LocallyDeclared, OfSubstrate, DefaultProfiles

LEMMA EffectiveLocally ==
    ASSUME NEW cs, NEW sys, NEW authored, NEW unit,
           authored.containers # {} => LocallyDeclared(authored)
    PROVE  LocallyDeclared(EffectiveDeployment(cs, sys, authored, unit))
<1> DEFINE d == DefaultDeployment(cs, unit)
           e == [d EXCEPT !.settings = @ \union {"webDistDir"}]
<1>1. LocallyDeclared(d)
  BY DerivedLocally
<1>2. e.decls = d.decls /\ e.profiles = d.profiles /\ e.bindings = d.bindings
  BY DEF DefaultDeployment
<1>3. LocallyDeclared(e)
  <2> HIDE DEF d, e
  <2>1. Local(e) = Local(d) /\ OfSubstrate(e, "temporal") = OfSubstrate(d, "temporal")
    BY <1>2 DEF Local, OfSubstrate
  <2> QED BY <1>1, <1>2, <2>1 DEF LocallyDeclared
<1> QED BY <1>1, <1>3 DEF EffectiveDeployment
-----------------------------------------------------------------------------
(* The plan that is launched is the one made of what was built *)

\* The plan, when the last command that made one was not refused.
PlanIsCurrent == "compose" \in done \ refused => tree.plan = LauncherPlan(Model(FALSE).d)

\* Nothing is launched before everything is built, and construction is over.
LaunchedComplete == pc # "off" => done = Commands /\ refused = {}

\* The server is not started before the launch, nor when it was refused.
SuppliedFirst == /\ pc = "off" => proc["server"] = "none"
                 /\ proc["server"] = "none" \/ given = tree.plan.required
                 /\ pc \in {"off", "exited"} \/ given = tree.plan.required

DInv == /\ project \in Projects
        /\ DOMAIN tree = {"config", "root", "plan", "clients", "workers"}
        /\ DOMAIN proc = Processes /\ refused \subseteq done
        /\ PlanIsCurrent /\ LaunchedComplete /\ SuppliedFirst

LEMMA DeliveryInitInv == DeliveryInit => DInv
  BY DEF DeliveryInit, GenInit, Init, DInv, PlanIsCurrent, LaunchedComplete, SuppliedFirst, Processes

\* A command leaves what the commands read as it was.
LEMMA SameModel ==
    ASSUME UNCHANGED <<project, contracts, landed>>
    PROVE  Model(FALSE)' = Model(FALSE)
  BY DEF Model, BuiltContracts

LEMMA GenerateKeeps ==
    ASSUME DInv, Generate, pc = "off", UNCHANGED <<vars, given>>
    PROVE  DInv'
<1>1. Model(FALSE)' = Model(FALSE)
  BY SameModel DEF Generate, GenTemporal, GenConfig, GenCompose, GenClients
<1>2. /\ project' = project
      /\ refused' \subseteq done'
      /\ UNCHANGED <<pc, proc, given>>
  BY DEF DInv, Generate, GenTemporal, GenConfig, GenCompose, GenClients, Turn, vars
<1>3. SuppliedFirst' /\ LaunchedComplete'
  BY <1>2 DEF DInv, SuppliedFirst, LaunchedComplete
<1>4. PlanIsCurrent' /\ DOMAIN tree' = DOMAIN tree
  <2>1. CASE GenTemporal
    <3>1. tree'.plan = tree.plan /\ DOMAIN tree' = DOMAIN tree
      BY <2>1 DEF GenTemporal, DInv
    <3>2. "compose" \in done' \ refused' => "compose" \in done \ refused
      BY <2>1 DEF GenTemporal, Turn
    <3> QED BY <1>1, <3>1, <3>2 DEF DInv, PlanIsCurrent
  <2>2. CASE GenConfig
    <3>1. tree'.plan = tree.plan /\ DOMAIN tree' = DOMAIN tree
      BY <2>2 DEF GenConfig, DInv
    <3>2. "compose" \in done' \ refused' => "compose" \in done \ refused
      BY <2>2 DEF GenConfig, Turn
    <3> QED BY <1>1, <3>1, <3>2 DEF DInv, PlanIsCurrent
  <2>3. CASE GenClients
    <3>1. tree'.plan = tree.plan /\ DOMAIN tree' = DOMAIN tree
      BY <2>3 DEF GenClients, DInv
    <3>2. "compose" \in done' \ refused' => "compose" \in done \ refused
      BY <2>3 DEF GenClients, Turn
    <3> QED BY <1>1, <3>1, <3>2 DEF DInv, PlanIsCurrent
  <2>4. CASE GenCompose
    <3>1. PICK ok \in BOOLEAN :
             /\ Turn("compose", ok)
             /\ tree' = IF ok THEN [tree EXCEPT !.root = Root(Model(FALSE), project.knobs),
                                               !.plan = LauncherPlan(Model(FALSE).d)] ELSE tree
      BY <2>4 DEF GenCompose
    <3>2. DOMAIN tree' = DOMAIN tree
      BY <3>1
    <3>3. CASE ok
      BY <1>1, <3>1, <3>2, <3>3 DEF DInv, PlanIsCurrent
    <3>4. CASE ~ok
      BY <3>1, <3>2, <3>4 DEF PlanIsCurrent, Turn
    <3> QED BY <3>3, <3>4
  <2> QED BY <2>1, <2>2, <2>3, <2>4 DEF Generate
<1> QED BY <1>2, <1>3, <1>4 DEF DInv

LEMMA BuildKeeps ==
    ASSUME DInv, Build, pc = "off", UNCHANGED <<vars, given>>
    PROVE  DInv'
<1>1. done' = {} /\ refused' = {} /\ UNCHANGED <<project, tree>>
  BY DEF Build, Contract, Land, FillHooks, Change
<1> QED BY <1>1 DEF DInv, PlanIsCurrent, LaunchedComplete, SuppliedFirst, vars

LEMMA LaunchKeeps == ASSUME DInv, Launch PROVE DInv'
<1>1. Model(FALSE)' = Model(FALSE)
  BY SameModel DEF Launch, genVars
<1>2. /\ UNCHANGED <<project, done, refused, tree, proc>>
      /\ pc = "off" /\ done = Commands /\ refused = {}
      /\ pc' = IF given' = tree.plan.required THEN "temporal" ELSE "exited"
  BY DEF Launch, genVars, Begin, system, Complete, Fresh
<1> QED BY <1>1, <1>2 DEF DInv, PlanIsCurrent, LaunchedComplete, SuppliedFirst

\* The server is started by a step of run() only.
LEMMA RunningKeeps ==
    ASSUME DInv, Run \/ World, UNCHANGED <<genVars, given>>
    PROVE  DInv'
<1>1. Model(FALSE)' = Model(FALSE)
  BY SameModel DEF genVars
<1>2. UNCHANGED <<project, tree, done, refused, given>>
  BY DEF genVars
<1>3. /\ DOMAIN proc' = Processes
      /\ pc = "off" => pc' = "off"
      /\ pc' = "off" => pc = "off"
      /\ pc = "exited" => pc' = "exited"
      /\ pc \in {"off", "exited"} /\ proc["server"] = "none" => proc'["server"] = "none"
  <2>1. CASE Run
    BY <2>1 DEF Run, StartTemporal, WaitDial, RequestPostgres, PostgresStarted, PostgresRefused,
       RunCutShort, ProbePostgres, BuildWeb, PickAddress, BuildServer, StartServer, WaitReady, Serve,
       Ask, Kill, Stopped, RemovePostgres, RemovedPostgres, Exit, Goto, Start, Fail, system, DInv,
       Processes
  <2>2. CASE World
    BY <2>2 DEF World, Listen, Quit, TakePort, DaemonStarts, Interrupt, InterruptAll, Alive, system,
       DInv, Processes
  <2> QED BY <2>1, <2>2
<1> QED BY <1>1, <1>2, <1>3 DEF DInv, PlanIsCurrent, LaunchedComplete, SuppliedFirst

(* What is launched was made of what was built, and the server is started  *)
(* only when the person has supplied what the plan asks for.               *)
THEOREM LaunchesWhatWasBuilt == DeliverySpec => []DInv
<1>1. DInv /\ [DeliveryNext]_allVars => DInv'
  <2> SUFFICES ASSUME DInv, [DeliveryNext]_allVars PROVE DInv'
    OBVIOUS
  <2>1. CASE UNCHANGED allVars
    <3>1. Model(FALSE)' = Model(FALSE)
      BY <2>1, SameModel DEF allVars, genVars
    <3> QED BY <2>1, <3>1 DEF allVars, genVars, vars, DInv, PlanIsCurrent, LaunchedComplete, SuppliedFirst
  <2>2. CASE Construct
    BY <2>2, GenerateKeeps, BuildKeeps DEF Construct, GenNext
  <2>3. CASE Launch
    BY <2>3, LaunchKeeps
  <2>4. CASE Launcher \/ Others
    BY <2>4, RunningKeeps DEF Launcher, Others
  <2> QED
    BY <2>1, <2>2, <2>3, <2>4 DEF DeliveryNext
<1> QED BY <1>1, DeliveryInitInv, PTL DEF DeliverySpec

(* The server never runs without an input it needs under the local         *)
(* profile, for every project whose authored deployment, if it has one,    *)
(* declares for that profile what its local bindings use.                  *)
THEOREM LauncherIsEnough == AuthoredLocally /\ DeliverySpec => []LauncherSuffices
<1> SUFFICES ASSUME AuthoredLocally PROVE DeliverySpec => []LauncherSuffices
  OBVIOUS
<1>1. DInv => LauncherSuffices
  <2> SUFFICES ASSUME DInv, proc["server"] # "none"
               PROVE  ReadLocally(Model(FALSE)) \subseteq tree.plan.provisioned \union given
    BY DEF LauncherSuffices
  <2>1. tree.plan = LauncherPlan(Model(FALSE).d) /\ given = tree.plan.required
    BY DEF DInv, SuppliedFirst, LaunchedComplete, PlanIsCurrent, Commands
  <2>2. LocallyDeclared(Model(FALSE).d)
    <3>1. project.authored.containers # {} => LocallyDeclared(project.authored)
      BY DEF AuthoredLocally, DInv
    <3>2. PICK cs : Model(FALSE).d = EffectiveDeployment(cs, project.sys, project.authored, "server")
      BY DEF Model
    <3> QED BY <3>1, <3>2, EffectiveLocally
  <2> QED BY <2>1, <2>2, PlanCoversReads
<1> QED BY <1>1, LaunchesWhatWasBuilt, PTL
-----------------------------------------------------------------------------
(* Lists *)

LEMMA Listed == ASSUME NEW X, NEW a \in Seq(X) PROVE ToSet(a) \subseteq X
  BY DEF ToSet

LEMMA Joining == ASSUME NEW X, NEW Y, NEW a \in Seq(X), NEW b \in Seq(Y) PROVE a \o b \in Seq(X \union Y)
<1>1. a \in Seq(X \union Y) /\ b \in Seq(X \union Y)
  OBVIOUS
<1> QED BY <1>1

\* The library's order of finite sets stands in for induction along a list.
LEMMA Least ==
  ASSUME NEW n \in Nat, NEW T \in SUBSET (1 .. n), T # {}
  PROVE  \E i \in T : \A j \in T : i <= j
<1> DEFINE S == 1 .. n
           Segments == {1 .. i : i \in T}
<1>1. IsFiniteSet(S)
  BY FS_Interval
<1>2. IsWellFoundedOn(StrictSubsetOrdering(S), SUBSET S)
  <2>1. FiniteSubsetsOf(S) = SUBSET S
    BY <1>1, FS_FiniteSubsetsOfFinite, Zenon
  <2> QED BY <2>1, FS_StrictSubsetOrderingWellFounded, Zenon
<1>3. Segments \subseteq SUBSET S /\ Segments # {}
  <2>1. \A i \in T : 1 .. i \subseteq S
    OBVIOUS
  <2> HIDE DEF S
  <2> QED BY <2>1
<1>4. PICK g \in Segments : \A r \in Segments : ~(<<r, g>> \in StrictSubsetOrdering(S))
  <2> HIDE DEF S, Segments
  <2> QED BY <1>2, <1>3, WFMin, Zenon
<1>5. PICK i \in T : g = 1 .. i
  OBVIOUS
<1>6. ASSUME NEW j \in T, j < i PROVE FALSE
  <2>1. 1 .. j \in Segments /\ 1 .. j \subseteq S /\ g \subseteq S
    BY <1>5
  <2>2. 1 .. j \subseteq g /\ i \in g /\ i \notin 1 .. j
    BY <1>5, <1>6
  <2>3. <<1 .. j, g>> \in StrictSubsetOrdering(S)
    BY <2>1, <2>2 DEF StrictSubsetOrdering
  <2> QED BY <1>4, <2>1, <2>3
<1> QED BY <1>6

\* The library flattens a list of lists by recursion on its length; of lists of
\* X it makes a list of X.
Flattens(q, n, f) == f = [i \in 1 .. n |-> IF i = 1 THEN q[i] ELSE f[i - 1] \o q[i]]

LEMMA FlatteningExists ==
    ASSUME NEW q, NEW n \in Nat \ {0}
    PROVE  \E f : Flattens(q, n, f)
<1> DEFINE Bad == {k \in 1 .. n : ~\E f : Flattens(q, k, f)}
<1>1. SUFFICES ASSUME Bad # {} PROVE FALSE
  <2>1. n \in 1 .. n
    OBVIOUS
  <2> QED BY <2>1
<1>2. PICK k \in Bad : \A j \in Bad : k <= j
  <2>1. Bad \in SUBSET (1 .. n)
    OBVIOUS
  <2> HIDE DEF Bad
  <2> QED BY <1>1, <2>1, Least
<1>3. CASE k = 1
  <2>1. Flattens(q, 1, [i \in 1 .. 1 |-> q[i]])
    BY DEF Flattens
  <2> QED BY <1>2, <1>3, <2>1
<1>4. CASE k # 1
  <2>1. k - 1 \in 1 .. n /\ k - 1 \notin Bad
    BY <1>2, <1>4
  <2>2. PICK f : Flattens(q, k - 1, f)
    BY <2>1
  <2> DEFINE g == [i \in 1 .. k |-> IF i = k THEN f[k - 1] \o q[k] ELSE f[i]]
  <2>3. \A i \in 1 .. k - 1 : f[i] = IF i = 1 THEN q[i] ELSE f[i - 1] \o q[i]
    BY <2>2, Zenon DEF Flattens
  <2>4. ASSUME NEW i \in 1 .. k PROVE g[i] = IF i = 1 THEN q[i] ELSE g[i - 1] \o q[i]
    <3>1. CASE i = k
      <4>1. k \in 1 .. n /\ k \in 1 .. k /\ k - 1 \in 1 .. k /\ k - 1 # k
        BY <1>2, <1>4
      <4>2. g[k] = f[k - 1] \o q[k] /\ g[k - 1] = f[k - 1]
        BY <4>1
      <4> HIDE DEF g
      <4> QED BY <1>4, <3>1, <4>2
    <3>2. CASE i # k /\ i = 1
      BY <1>2, <2>3, <3>2
    <3>3. CASE i # k /\ i # 1
      <4>1. i \in 1 .. k - 1 /\ i - 1 \in 1 .. k /\ i - 1 # k
        BY <1>2, <3>3
      <4> QED BY <2>3, <3>3, <4>1
    <3> QED BY <3>1, <3>2, <3>3
  <2>5. g = [i \in 1 .. k |-> IF i = 1 THEN q[i] ELSE g[i - 1] \o q[i]]
    <3>1. g = [i \in 1 .. k |-> g[i]]
      OBVIOUS
    <3> HIDE DEF g
    <3> QED BY <2>4, <3>1, Zenon
  <2>6. Flattens(q, k, g)
    BY <2>5, Zenon DEF Flattens
  <2> QED BY <1>2, <2>6
<1> QED BY <1>3, <1>4

LEMMA Flattened ==
    ASSUME NEW X, NEW q \in Seq(Seq(X))
    PROVE  FlattenSeq(q) \in Seq(X)
<1>1. CASE Len(q) = 0
  <2>1. FlattenSeq(q) = q
    BY <1>1 DEF FlattenSeq
  <2>2. q = <<>>
    BY <1>1
  <2> QED BY <2>1, <2>2
<1>2. CASE Len(q) # 0
  <2> DEFINE n == Len(q)
             h == CHOOSE f : f = [i \in 1 .. n |-> IF i = 1 THEN q[i] ELSE f[i - 1] \o q[i]]
  <2>1. n \in Nat \ {0}
    BY <1>2
  <2>2. FlattenSeq(q) = h[n]
    BY <1>2 DEF FlattenSeq
  <2>3. \E f : f = [i \in 1 .. n |-> IF i = 1 THEN q[i] ELSE f[i - 1] \o q[i]]
    <3> HIDE DEF n
    <3> QED BY <2>1, FlatteningExists DEF Flattens
  <2>4. h = [i \in 1 .. n |-> IF i = 1 THEN q[i] ELSE h[i - 1] \o q[i]]
    <3> HIDE DEF n
    <3> QED BY <2>3, Zenon
  <2> HIDE DEF h
  <2> DEFINE Bad == {k \in 1 .. n : h[k] \notin Seq(X)}
  <2>5. ASSUME NEW i \in 1 .. n PROVE h[i] = IF i = 1 THEN q[i] ELSE h[i - 1] \o q[i]
    <3> HIDE DEF n
    <3> QED BY <2>4, Zenon
  <2>6. Bad = {}
    <3> SUFFICES ASSUME Bad # {} PROVE FALSE
      OBVIOUS
    <3>1. PICK k \in Bad : \A j \in Bad : k <= j
      <4>1. Bad \in SUBSET (1 .. n) /\ n \in Nat
        BY <2>1
      <4> HIDE DEF Bad, n
      <4> QED BY <4>1, Least
    <3>2. q[k] \in Seq(X)
      BY <3>1
    <3>3. CASE k = 1
      BY <2>5, <3>1, <3>2, <3>3
    <3>4. CASE k # 1
      <4>1. k - 1 \in 1 .. n /\ k - 1 \notin Bad
        BY <3>1, <3>4
      <4>2. h[k - 1] \in Seq(X)
        BY <4>1
      <4>3. h[k] = h[k - 1] \o q[k]
        BY <2>5, <3>1, <3>4
      <4>4. h[k - 1] \o q[k] \in Seq(X)
        BY <3>2, <4>2
      <4> QED BY <3>1, <4>3, <4>4
    <3> QED BY <3>3, <3>4
  <2>7. n \in 1 .. n
    BY <2>1
  <2> QED BY <2>2, <2>6, <2>7
<1> QED BY <1>1, <1>2
-----------------------------------------------------------------------------
(* What the generator is given: what WellMade leaves of a project when only *)
(* some of its components have landed.                                     *)

NamesGood(m) ==
    /\ DOMAIN m.cs \intersect (OwnLocals \union OwnLeaves \union {""}) = {}
    /\ \A k \in DOMAIN m.cs :
         /\ m.cs[k].pkg # <<>> => /\ m.cs[k].pkg = <<m.cs[k].pkg[1], m.cs[k].pkg[2]>>
                                 /\ Leaf(m.cs[k].pkg) \notin OwnLocals \union OwnLeaves \union DOMAIN m.cs
         /\ Pure(m.cs[k]) => m.cs[k].deps = <<>>
         /\ m.cs[k].layer = "manager" => ~m.cs[k].stub /\ m.cs[k].pkg # <<>>
    /\ \A j, k \in DOMAIN m.cs :
         m.cs[j].layer = "manager" /\ m.cs[k].layer = "manager" /\ Leaf(m.cs[j].pkg) = Leaf(m.cs[k].pkg) => j = k

BindingsGood(m, knobs) ==
    /\ ConfigRefusals(m.d) = {}
    /\ Managers(m) # {} => HasTemporal(m)
    /\ {"listenAddr", "shutdownTimeout"} \subseteq m.d.settings
    /\ \A b, c \in Bound(m) : b.comp = c.comp => b = c
    /\ \A b \in Bound(m) :
         /\ m.cs[b.comp].layer \in {"resourceAccess", "utility"}
         /\ b.settings \subseteq m.d.settings /\ IsFiniteSet(b.settings)
         /\ \A p \in DOMAIN b.per : b.per[p].infra \in Seq(KeysOf(m.d.decls))
         /\ b \in Accesses(m) => ArmCalls(m, knobs, b) \subseteq Constructors(m.cs[b.comp])

KnobsPlain(knobs) ==
    \A x \in DOMAIN knobs.hooked : /\ ToSet(knobs.hooked[x]) \intersect {"ctx", "pool", "tc"} = {}
                                   /\ knobs.hooked[x] \in Seq(ToSet(knobs.hooked[x]))

Good(m, knobs) == NamesGood(m) /\ BindingsGood(m, knobs) /\ KnobsPlain(knobs)
-----------------------------------------------------------------------------
(* The accesses *)

LEMMA InputsCounted == ASSUME NEW x \in KnownSubstrates PROVE Cardinality(Inputs(x)) \in Nat
<1>1. IsFiniteSet({"HOSTPORT", "NAMESPACE"})
  <2>1. IsFiniteSet({"HOSTPORT"} \union {"NAMESPACE"})
    BY FS_Singleton, FS_Union
  <2>2. {"HOSTPORT"} \union {"NAMESPACE"} = {"HOSTPORT", "NAMESPACE"}
    OBVIOUS
  <2> QED BY <2>1, <2>2
<1>2. IsFiniteSet({"URL"}) /\ IsFiniteSet({})
  BY FS_EmptySet, FS_Singleton
<1>3. IsFiniteSet({"JWKS_URL", "ISSUER"})
  <2>1. IsFiniteSet({"JWKS_URL"} \union {"ISSUER"})
    BY FS_Singleton, FS_Union
  <2>2. {"JWKS_URL"} \union {"ISSUER"} = {"JWKS_URL", "ISSUER"}
    OBVIOUS
  <2> QED BY <2>1, <2>2
<1>4. IsFiniteSet({"APP_ID", "PRIVATE_KEY_PEM", "ACCOUNT", "APP_SLUG", "INSTALLATION_ID", "API_BASE_URL"})
  <2>1. IsFiniteSet({"APP_ID"} \union {"PRIVATE_KEY_PEM"} \union {"ACCOUNT"} \union {"APP_SLUG"}
                    \union {"INSTALLATION_ID"} \union {"API_BASE_URL"})
    BY FS_Singleton, FS_Union
  <2>2. {"APP_ID"} \union {"PRIVATE_KEY_PEM"} \union {"ACCOUNT"} \union {"APP_SLUG"}
                    \union {"INSTALLATION_ID"} \union {"API_BASE_URL"}
        = {"APP_ID", "PRIVATE_KEY_PEM", "ACCOUNT", "APP_SLUG", "INSTALLATION_ID", "API_BASE_URL"}
    OBVIOUS
  <2> QED BY <2>1, <2>2
<1>5. IsFiniteSet(Inputs(x))
  BY <1>1, <1>2, <1>3, <1>4 DEF KnownSubstrates, Inputs
<1> QED BY <1>5, FS_CardinalityType

\* What an arm is called with: the pool only when it uses a Postgres, the
\* Temporal client only when it uses a Temporal.
Using(m, b, p, substrate) == \E key \in ToSet(b.per[p].infra) : SubstrateOf(m, key) = substrate

LEMMA Substrates ==
    ASSUME NEW m, ConfigRefusals(m.d) = {}, NEW key \in KeysOf(m.d.decls)
    PROVE  DeclOf(m.d, key) \in m.d.decls /\ DeclOf(m.d, key).key = key /\ SubstrateOf(m, key) \in KnownSubstrates
<1>1. \E decl \in m.d.decls : decl.key = key
  BY DEF KeysOf
<1>2. DeclOf(m.d, key) \in m.d.decls /\ DeclOf(m.d, key).key = key
  BY <1>1 DEF DeclOf
<1>3. \A decl \in m.d.decls : decl.substrate \in KnownSubstrates
  BY Zenon DEF ConfigRefusals
<1> QED BY <1>2, <1>3 DEF SubstrateOf

LEMMA ArmReads ==
    ASSUME NEW m, NEW knobs, NEW b, NEW p, ConfigRefusals(m.d) = {}, KnobsPlain(knobs),
           IsFiniteSet(b.settings), b.per[p].infra \in Seq(KeysOf(m.d.decls))
    PROVE  /\ "pool" \in CallReads(ArmCall(m, knobs, b, p)) => Using(m, b, p, "postgres")
           /\ "tc" \in CallReads(ArmCall(m, knobs, b, p)) => Using(m, b, p, "temporal")
<1> DEFINE infra == b.per[p].infra
           P == IF Using(m, b, p, "postgres") THEN {"ctx", "pool"} ELSE {}
           T == IF Using(m, b, p, "temporal") THEN {"tc"} ELSE {}
           H == ToSet(HookTypes(knobs, b, p))
           settings == [i \in 1 .. Cardinality(b.settings) |-> "string"]
           extra == [i \in DOMAIN infra |-> ExtraArgs(m, infra[i])]
           args == [i \in DOMAIN infra |-> InfraArgs(m, infra[i])]
<1>1. HookTypes(knobs, b, p) \in Seq(H) /\ H \intersect {"ctx", "pool", "tc"} = {}
  <2>1. CASE <<b.comp, b.per[p].variant>> \in DOMAIN knobs.hooked
    BY <2>1 DEF HookTypes, KnobsPlain
  <2>2. CASE <<b.comp, b.per[p].variant>> \notin DOMAIN knobs.hooked
    BY <2>2 DEF HookTypes, ToSet
  <2> QED BY <2>1, <2>2
<1>2. ASSUME NEW i \in DOMAIN infra
      PROVE  /\ infra[i] \in KeysOf(m.d.decls) /\ infra[i] \in ToSet(infra)
             /\ SubstrateOf(m, infra[i]) \in KnownSubstrates
             /\ SubstrateOf(m, infra[i]) = "postgres" => Using(m, b, p, "postgres")
             /\ SubstrateOf(m, infra[i]) = "temporal" => Using(m, b, p, "temporal")
  BY Substrates DEF Using, ToSet
<1>3. ASSUME NEW i \in DOMAIN infra
      PROVE  ExtraArgs(m, infra[i]) \in Seq(T)
  <2>1. CASE SubstrateOf(m, infra[i]) = "temporal"
    <3>1. ExtraArgs(m, infra[i]) = <<"tc">> /\ "tc" \in T
      BY <1>2, <2>1 DEF ExtraArgs
    <3> HIDE DEF T
    <3> QED BY <3>1
  <2>2. CASE SubstrateOf(m, infra[i]) # "temporal"
    <3>1. ExtraArgs(m, infra[i]) = <<>>
      BY <2>2 DEF ExtraArgs
    <3> HIDE DEF T
    <3> QED BY <3>1
  <2> QED BY <2>1, <2>2
<1>4. ASSUME NEW i \in DOMAIN infra
      PROVE  InfraArgs(m, infra[i]) \in Seq(P \union T \union {"string"})
  <2> DEFINE x == SubstrateOf(m, infra[i])
             A == P \union T \union {"string"}
  <2> SUFFICES InfraArgs(m, infra[i]) \in Seq(A)
    OBVIOUS
  <2>1. CASE x = "temporal"
    <3>1. InfraArgs(m, infra[i]) = <<"tc">> /\ "tc" \in A
      BY <1>2, <2>1 DEF InfraArgs
    <3> HIDE DEF A
    <3> QED BY <3>1
  <2>2. CASE x = "postgres"
    <3>1. InfraArgs(m, infra[i]) = <<"ctx", "pool">>
      BY <2>2 DEF InfraArgs
    <3>2. "ctx" \in A /\ "pool" \in A
      BY <1>2, <2>2
    <3> HIDE DEF A
    <3> QED BY <3>1, <3>2
  <2>3. CASE x \notin {"temporal", "postgres"}
    <3>1. InfraArgs(m, infra[i]) = [j \in 1 .. Cardinality(Inputs(x)) |-> "string"]
      BY <2>3 DEF InfraArgs
    <3>2. Cardinality(Inputs(x)) \in Nat
      BY <1>2, InputsCounted
    <3>3. "string" \in A
      OBVIOUS
    <3> HIDE DEF A, x
    <3> QED BY <3>1, <3>2, <3>3
  <2> QED BY <2>1, <2>2, <2>3
<1>5. Len(infra) \in Nat /\ DOMAIN infra = 1 .. Len(infra)
  OBVIOUS
<1>6. extra \in Seq(Seq(T)) /\ args \in Seq(Seq(P \union T \union {"string"}))
  <2> HIDE DEF infra, P, T
  <2> QED BY <1>3, <1>4, <1>5
<1>7. settings \in Seq({"string"})
  BY FS_CardinalityType
<1>8. FlattenSeq(extra) \in Seq(T) /\ FlattenSeq(args) \in Seq(P \union T \union {"string"})
  <2> HIDE DEF extra, args, P, T
  <2> QED BY <1>6, Flattened
<1>9. ArmCall(m, knobs, b, p).args = IF Hooked(knobs, b, p) THEN FlattenSeq(extra) \o HookTypes(knobs, b, p)
                                     ELSE FlattenSeq(args) \o settings
  BY DEF ArmCall, Call, Each
<1> HIDE DEF extra, args, P, T, H, settings, infra
<1>10. ToSet(ArmCall(m, knobs, b, p).args) \subseteq P \union T \union {"string"} \union H
  <2>1. CASE Hooked(knobs, b, p)
    <3>1. FlattenSeq(extra) \o HookTypes(knobs, b, p) \in Seq(T \union H)
      BY <1>1, <1>8, Joining
    <3> QED BY <1>9, <2>1, <3>1, Listed
  <2>2. CASE ~Hooked(knobs, b, p)
    <3>1. FlattenSeq(args) \o settings \in Seq(P \union T \union {"string"} \union {"string"})
      BY <1>7, <1>8, Joining
    <3> QED BY <1>9, <2>2, <3>1, Listed
  <2> QED BY <2>1, <2>2
<1> QED BY <1>1, <1>10 DEF CallReads, P, T

LEMMA AccessReads ==
    ASSUME NEW m, NEW knobs, Good(m, knobs), NEW b \in Accesses(m), NEW call \in ArmCalls(m, knobs, b)
    PROVE  /\ "pool" \in CallReads(call) => UsesPostgres(m)
           /\ "tc" \in CallReads(call) => HasTemporal(m)
<1>1. CASE Arms(m, b) = {}
  <2>1. call = Call("", <<>>, FALSE)
    BY <1>1 DEF ArmCalls
  <2>2. call.args = <<>>
    BY <2>1 DEF Call
  <2>3. ToSet(call.args) = {}
    BY <2>2 DEF ToSet
  <2> QED BY <2>3 DEF CallReads
<1>2. CASE Arms(m, b) # {}
  <2>1. PICK p \in Arms(m, b) : call = ArmCall(m, knobs, b, p)
    BY <1>2 DEF ArmCalls
  <2>2. b \in Bound(m) /\ p \in DOMAIN b.per /\ p \in m.d.profiles
    BY <2>1 DEF Accesses, Arms
  <2>3. IsFiniteSet(b.settings) /\ b.per[p].infra \in Seq(KeysOf(m.d.decls))
    BY <2>2, Zenon DEF Good, BindingsGood
  <2>4. ConfigRefusals(m.d) = {} /\ KnobsPlain(knobs)
    BY Zenon DEF Good, BindingsGood
  <2>5. /\ "pool" \in CallReads(call) => Using(m, b, p, "postgres")
        /\ "tc" \in CallReads(call) => Using(m, b, p, "temporal")
    BY <2>1, <2>3, <2>4, ArmReads, Zenon
  <2>6. Using(m, b, p, "postgres") => UsesPostgres(m)
    <3> SUFFICES ASSUME NEW key \in ToSet(b.per[p].infra), SubstrateOf(m, key) = "postgres" PROVE UsesPostgres(m)
      BY Zenon DEF Using
    <3>1. p \in Arms(m, b) \intersect m.d.profiles
      BY <2>1, <2>2
    <3>2. key \in UNION {ToSet(b.per[q].infra) : q \in Arms(m, b) \intersect m.d.profiles}
      BY <3>1
    <3>3. key \in Consumed(m)
      BY <3>2 DEF Consumed
    <3> QED BY <3>3 DEF UsesPostgres
  <2>7. Using(m, b, p, "temporal") => HasTemporal(m)
    <3> SUFFICES ASSUME NEW key \in ToSet(b.per[p].infra), SubstrateOf(m, key) = "temporal" PROVE HasTemporal(m)
      BY Zenon DEF Using
    <3>1. key \in KeysOf(m.d.decls)
      BY <2>3, Listed
    <3>2. DeclOf(m.d, key) \in m.d.decls
      BY <2>4, <3>1, Substrates
    <3> QED BY <3>2 DEF HasTemporal, OfSubstrate, SubstrateOf
  <2> QED BY <2>5, <2>6, <2>7
<1> QED BY <1>1, <1>2
-----------------------------------------------------------------------------
\* The statements of a root, by stage.
Statements(m, knobs) ==
    {SatelliteStmt(m, name) : name \in Satellites(m, knobs)}
    \union AccessStmts(m, knobs) \union EngineStmts(m) \union ManagerStmts(m)

OwnLocal(m, s) ==
    /\ s.key = "" /\ s.of = {} /\ s.name \in OwnLocals \ Given /\ s.at = StageOf(s.name)
    /\ \/ s.name = "profile" /\ s.reads = {} /\ NeedProfile(m)
       \/ s.name = "pool" /\ s.reads = {"pool", "profile"} /\ NeedProfile(m)
       \/ s.reads = {s.name}

AccessLocal(m, knobs, s) ==
    /\ s.at = 4 /\ s.name = s.key
    /\ \E b \in Accesses(m) :
         /\ s.key = b.comp /\ s.of = {b} /\ s.call \in ArmCalls(m, knobs, b)
         /\ s.reads = {b.comp} \union CallReads(s.call) \union IF Switched(m, b) THEN {"profile"} ELSE {}

EngineLocal(m, s) ==
    /\ s.at = 5 /\ s.name = s.key /\ s.of = {} /\ s.key \in Engines(m)
    /\ s.call = Call("", <<>>, FALSE) /\ s.reads = {}

ManagerLocal(m, s) ==
    /\ s.at = 6 /\ s.name = s.key /\ s.of = {} /\ s.key \in Managers(m)
    /\ s.call = Call("", DepTypes(m.cs[s.key]), FALSE)
    /\ s.reads = (Takes(m.cs[s.key]) \ NilComps(m)) \union {s.key, "tc"}

LEMMA SatellitesOwn ==
    ASSUME NEW m, NEW knobs, NEW name \in Satellites(m, knobs)
    PROVE  name \in OwnLocals \ Given /\ (name = "profile" => NeedProfile(m))
  BY DEF Satellites, OwnLocals, Given

LEMMA StatementsOf ==
    ASSUME NEW m, NEW knobs, Good(m, knobs), NEW s \in Statements(m, knobs)
    PROVE  OwnLocal(m, s) \/ AccessLocal(m, knobs, s) \/ EngineLocal(m, s) \/ ManagerLocal(m, s)
<1>1. CASE s \in {SatelliteStmt(m, name) : name \in Satellites(m, knobs)}
  <2>1. PICK name \in Satellites(m, knobs) : s = SatelliteStmt(m, name)
    BY <1>1
  <2>2. /\ s.key = "" /\ s.of = {} /\ s.name = name /\ s.at = StageOf(name)
        /\ s.reads = CASE name = "profile" -> {}
                       [] name = "pool" /\ PoolGuarded(m) -> {"pool", "profile"}
                       [] OTHER -> {name}
    BY <2>1 DEF SatelliteStmt
  <2>3. \/ name = "profile" /\ s.reads = {}
        \/ name = "pool" /\ PoolGuarded(m) /\ s.reads = {"pool", "profile"}
        \/ s.reads = {name}
    BY <2>2
  <2> QED BY <2>2, <2>3, SatellitesOwn DEF OwnLocal, PoolGuarded
<1>2. CASE s \in AccessStmts(m, knobs)
  <2>1. PICK b \in Accesses(m) : \E call \in ArmCalls(m, knobs, b) :
          s = AccessStmt(m, b, call)
    BY <1>2, Zenon DEF AccessStmts
  <2>2. PICK call \in ArmCalls(m, knobs, b) :
          s = AccessStmt(m, b, call)
    BY <2>1, Zenon
  <2>3. /\ s.at = 4 /\ s.name = b.comp /\ s.key = b.comp /\ s.of = {b} /\ s.call = call
        /\ s.reads = {b.comp} \union CallReads(call) \union IF Switched(m, b) THEN {"profile"} ELSE {}
    BY <2>2 DEF AccessStmt
  <2> QED BY <2>3, Zenon DEF AccessLocal
<1>3. CASE s \in EngineStmts(m)
  <2>1. PICK k \in Engines(m) :
          s = [at |-> 5, name |-> k, key |-> k, of |-> {}, call |-> Call("", <<>>, FALSE), reads |-> {}]
    BY <1>3, Zenon DEF EngineStmts
  <2>2. s.at = 5 /\ s.key = k /\ s.name = k /\ s.of = {} /\ s.call = Call("", <<>>, FALSE) /\ s.reads = {}
    BY <2>1
  <2> QED BY <2>2 DEF EngineLocal
<1>4. CASE s \in ManagerStmts(m)
  <2>1. PICK k \in Managers(m) :
          s = [at |-> 6, name |-> k, key |-> k, of |-> {}, call |-> Call("", DepTypes(m.cs[k]), FALSE),
               reads |-> (Takes(m.cs[k]) \ NilComps(m)) \union {k, "tc"}]
    BY <1>4, Zenon DEF ManagerStmts
  <2>2. /\ s.at = 6 /\ s.key = k /\ s.name = k /\ s.of = {} /\ s.call = Call("", DepTypes(m.cs[k]), FALSE)
        /\ s.reads = (Takes(m.cs[k]) \ NilComps(m)) \union {k, "tc"}
    BY <2>1
  <2> QED BY <2>2 DEF ManagerLocal
<1> QED BY <1>1, <1>2, <1>3, <1>4 DEF Statements

LEMMA AccessThere ==
    ASSUME NEW m, NEW knobs, NEW b \in Accesses(m)
    PROVE  \E s \in Statements(m, knobs) : /\ s.at = 4 /\ s.name = b.comp /\ b.comp \in s.reads
                                           /\ Switched(m, b) => "profile" \in s.reads
<1>1. PICK call \in ArmCalls(m, knobs, b) : TRUE
  BY DEF ArmCalls
<1> DEFINE s == AccessStmt(m, b, call)
<1>2. s \in AccessStmts(m, knobs)
  <2>1. s \in {AccessStmt(m, b, c) : c \in ArmCalls(m, knobs, b)}
    BY <1>1
  <2> HIDE DEF s
  <2> QED BY <2>1, Zenon DEF AccessStmts
<1>3. s.at = 4 /\ s.name = b.comp /\ b.comp \in s.reads /\ (Switched(m, b) => "profile" \in s.reads)
  BY DEF AccessStmt
<1> HIDE DEF s
<1> QED BY <1>2, <1>3 DEF Statements

LEMMA EngineThere ==
    ASSUME NEW m, NEW knobs, NEW k \in Engines(m)
    PROVE  \E s \in Statements(m, knobs) : s.at = 5 /\ s.name = k
<1> DEFINE s == [at |-> 5, name |-> k, key |-> k, of |-> {}, call |-> Call("", <<>>, FALSE), reads |-> {}]
<1>1. s \in EngineStmts(m)
  BY Zenon DEF EngineStmts
<1>2. s.at = 5 /\ s.name = k
  OBVIOUS
<1> HIDE DEF s
<1> QED BY <1>1, <1>2 DEF Statements

LEMMA ManagerThere ==
    ASSUME NEW m, NEW knobs, NEW k \in Managers(m)
    PROVE  \E s \in Statements(m, knobs) : s.at = 6 /\ s.name = k /\ s.key = k /\ s.reads = (Takes(m.cs[k]) \ NilComps(m)) \union {k, "tc"}
<1> DEFINE s == [at |-> 6, name |-> k, key |-> k, of |-> {}, call |-> Call("", DepTypes(m.cs[k]), FALSE),
                 reads |-> (Takes(m.cs[k]) \ NilComps(m)) \union {k, "tc"}]
<1>1. s \in ManagerStmts(m)
  BY Zenon DEF ManagerStmts
<1>2. s.at = 6 /\ s.name = k /\ s.key = k /\ s.reads = (Takes(m.cs[k]) \ NilComps(m)) \union {k, "tc"}
  OBVIOUS
<1> HIDE DEF s
<1> QED BY <1>1, <1>2 DEF Statements

LEMMA OwnThere ==
    ASSUME NEW m, NEW knobs
    PROVE  /\ NeedProfile(m) => \E s \in Statements(m, knobs) : s.at = 1 /\ s.name = "profile"
           /\ HasTemporal(m) => \E s \in Statements(m, knobs) : s.at = 2 /\ s.name = "tc"
           /\ UsesPostgres(m) => \E s \in Statements(m, knobs) : s.at = 3 /\ s.name = "pool"
<1>1. ASSUME NEW name \in Satellites(m, knobs)
      PROVE  \E s \in Statements(m, knobs) : s.at = StageOf(name) /\ s.name = name
  <2>1. SatelliteStmt(m, name) \in Statements(m, knobs)
    BY Zenon DEF Statements
  <2>2. SatelliteStmt(m, name).at = StageOf(name) /\ SatelliteStmt(m, name).name = name
    BY DEF SatelliteStmt
  <2> QED BY <2>1, <2>2
<1>2. /\ NeedProfile(m) => "profile" \in Satellites(m, knobs)
      /\ HasTemporal(m) => "tc" \in Satellites(m, knobs)
      /\ UsesPostgres(m) => "pool" \in Satellites(m, knobs)
  BY DEF Satellites, HasTemporal
<1>3. StageOf("profile") = 1 /\ StageOf("tc") = 2 /\ StageOf("pool") = 3
  BY DEF StageOf
<1> QED BY <1>1, <1>2, <1>3

LEMMA KindsApart ==
    ASSUME NEW m, NEW knobs, Good(m, knobs)
    PROVE  /\ \A b \in Accesses(m) : b.comp \in DOMAIN m.cs /\ m.cs[b.comp].layer \in {"resourceAccess", "utility"}
                                     /\ b.comp \notin Engines(m)
           /\ \A k \in Engines(m) \union Managers(m) : k \in DOMAIN m.cs
           /\ \A k \in Engines(m) : m.cs[k].layer # "manager" /\ k \notin NilComps(m)
           /\ \A k \in Managers(m) : m.cs[k].layer = "manager"
           /\ \A k \in DOMAIN m.cs : k \notin OwnLocals \union OwnLeaves /\ k # ""
<1>1. ASSUME NEW b \in Accesses(m)
      PROVE  b \in Bound(m) /\ b.comp \in DOMAIN m.cs /\ b.comp \notin Engines(m)
  BY DEF Accesses, Bound, Constructible, Engines
<1>2. \A b \in Bound(m) : m.cs[b.comp].layer \in {"resourceAccess", "utility"}
  BY Zenon DEF Good, BindingsGood
<1>3. \A k \in Engines(m) : k \in DOMAIN m.cs /\ m.cs[k].layer # "manager" /\ k \notin NilComps(m)
  BY DEF Engines, Pure, NilComps
<1>4. \A k \in Managers(m) : k \in DOMAIN m.cs /\ m.cs[k].layer = "manager"
  BY DEF Managers, BuiltManagers
<1>5. DOMAIN m.cs \intersect (OwnLocals \union OwnLeaves \union {""}) = {}
  BY Zenon DEF Good, NamesGood
<1> QED BY <1>1, <1>2, <1>3, <1>4, <1>5

LEMMA DependenciesValued ==
    ASSUME NEW m, NEW knobs, RootRefusals(m, knobs) = {}, NEW k \in Managers(m)
    PROVE  Takes(m.cs[k]) \subseteq Valued(m)
<1>1. SUFFICES ASSUME NEW dep \in Takes(m.cs[k]), dep \notin Valued(m) PROVE FALSE
  OBVIOUS
<1>2. <<"no value", k, dep>> \in {<<"no value", k, x>> : x \in Takes(m.cs[k]) \ Valued(m)}
  BY <1>1
<1>3. <<"no value", k, dep>> \in UNION {{<<"no value", j, x>> : x \in Takes(m.cs[j]) \ Valued(m)} : j \in Managers(m)}
  BY <1>2
<1>4. <<"no value", k, dep>> \in RootRefusals(m, knobs)
  BY <1>3, Zenon DEF RootRefusals
<1> QED BY <1>4

LEMMA ManagersServed ==
    ASSUME NEW m, NEW knobs, Good(m, knobs), RootRefusals(m, knobs) = {}, NEW k \in Managers(m)
    PROVE  HasTemporal(m) /\ Takes(m.cs[k]) \subseteq Valued(m)
<1>1. HasTemporal(m)
  BY Zenon DEF Good, BindingsGood
<1> QED BY <1>1, DependenciesValued

\* Every local is there before it is read.
LEMMA ReadsDefined ==
    ASSUME NEW m, NEW knobs, Good(m, knobs), RootRefusals(m, knobs) = {},
           NEW s \in Statements(m, knobs), NEW name \in s.reads \ {s.name}, name \notin Given
    PROVE  \E t \in Statements(m, knobs) : t.name = name /\ t.at < s.at
<1>1. CASE OwnLocal(m, s)
  <2>1. s.name = "pool" /\ name = "profile" /\ NeedProfile(m) /\ s.at = StageOf("pool")
    BY <1>1 DEF OwnLocal
  <2>2. s.at = 3
    BY <2>1 DEF StageOf
  <2> QED BY <2>1, <2>2, OwnThere
<1>2. CASE AccessLocal(m, knobs, s)
  <2> DEFINE call == s.call
  <2>0. PICK b \in Accesses(m) :
          /\ s.at = 4 /\ s.name = b.comp /\ call \in ArmCalls(m, knobs, b)
          /\ s.reads = {b.comp} \union CallReads(call) \union IF Switched(m, b) THEN {"profile"} ELSE {}
    BY <1>2, Zenon DEF AccessLocal
  <2> HIDE DEF call
  <2>1. CASE name = "profile" /\ Switched(m, b)
    <3>1. NeedProfile(m)
      BY <2>1 DEF NeedProfile
    <3> QED BY <2>0, <2>1, <3>1, OwnThere
  <2>2. CASE name = "pool" /\ name \in CallReads(call)
    <3>1. UsesPostgres(m)
      BY <2>0, <2>2, AccessReads
    <3> QED BY <2>0, <2>2, <3>1, OwnThere
  <2>3. CASE name = "tc" /\ name \in CallReads(call)
    <3>1. HasTemporal(m)
      BY <2>0, <2>3, AccessReads
    <3> QED BY <2>0, <2>3, <3>1, OwnThere
  <2>4. CallReads(call) \subseteq {"ctx", "pool", "tc"}
    BY DEF CallReads
  <2> QED BY <2>0, <2>1, <2>2, <2>3, <2>4 DEF Given
<1>3. CASE EngineLocal(m, s)
  BY <1>3 DEF EngineLocal
<1>4. CASE ManagerLocal(m, s)
  <2>0. s.at = 6 /\ s.name = s.key /\ s.key \in Managers(m) /\ s.reads = (Takes(m.cs[s.key]) \ NilComps(m)) \union {s.key, "tc"}
    BY <1>4 DEF ManagerLocal
  <2>1. HasTemporal(m) /\ Takes(m.cs[s.key]) \subseteq Valued(m)
    BY <2>0, ManagersServed
  <2>2. CASE name = "tc"
    <3>1. PICK t \in Statements(m, knobs) : t.at = 2 /\ t.name = "tc"
      BY <2>1, OwnThere
    <3> QED BY <2>0, <2>2, <3>1
  <2>3. CASE name \in Valued(m) \ NilComps(m)
    <3>1. name \in {b.comp : b \in Accesses(m)} \union Engines(m)
      BY <2>3 DEF Valued, NilComps
    <3>2. CASE name \in {b.comp : b \in Accesses(m)}
      <4>1. PICK b \in Accesses(m) : name = b.comp
        BY <3>2
      <4>2. PICK t \in Statements(m, knobs) : t.at = 4 /\ t.name = b.comp
        BY AccessThere
      <4> QED BY <2>0, <4>1, <4>2
    <3>3. CASE name \in Engines(m)
      <4>1. PICK t \in Statements(m, knobs) : t.at = 5 /\ t.name = name
        BY <3>3, EngineThere
      <4> QED BY <2>0, <4>1
    <3> QED BY <3>1, <3>2, <3>3
  <2> QED BY <2>0, <2>1, <2>2, <2>3
<1> QED BY <1>1, <1>2, <1>3, <1>4, StatementsOf

\* A name is that of one local, and every local is read.
LEMMA NamesTold ==
    ASSUME NEW m, NEW knobs, Good(m, knobs),
           NEW s \in Statements(m, knobs), NEW t \in Statements(m, knobs), s.name = t.name
    PROVE  s.at = t.at /\ s.key = t.key /\ s.of = t.of
<1>1. ASSUME NEW x \in Statements(m, knobs)
      PROVE  OwnLocal(m, x) \/ AccessLocal(m, knobs, x) \/ EngineLocal(m, x) \/ ManagerLocal(m, x)
  BY StatementsOf
<1>2. \A x : OwnLocal(m, x) => x.name \in OwnLocals
  BY DEF OwnLocal
<1>3. \A x : AccessLocal(m, knobs, x) =>
        x.at = 4 /\ x.name = x.key /\ x.name \in DOMAIN m.cs
        /\ x.name \notin Engines(m) /\ m.cs[x.name].layer \in {"resourceAccess", "utility"}
  <2> TAKE x
  <2> HAVE AccessLocal(m, knobs, x)
  <2>1. PICK b \in Accesses(m) : x.at = 4 /\ x.name = x.key /\ x.key = b.comp
    BY DEF AccessLocal
  <2> QED BY <2>1, KindsApart
<1>4. \A x : EngineLocal(m, x) =>
        x.at = 5 /\ x.name = x.key /\ x.of = {}
        /\ x.name \in DOMAIN m.cs /\ x.name \in Engines(m) /\ m.cs[x.name].layer # "manager"
  BY KindsApart, Zenon DEF EngineLocal
<1>5. \A x : ManagerLocal(m, x) =>
        x.at = 6 /\ x.name = x.key /\ x.of = {} /\ x.name \in DOMAIN m.cs /\ m.cs[x.name].layer = "manager"
  BY KindsApart, Zenon DEF ManagerLocal
<1>6. \A k \in DOMAIN m.cs : k \notin OwnLocals
  BY KindsApart
<1>7. CASE OwnLocal(m, s) /\ OwnLocal(m, t)
  BY <1>7 DEF OwnLocal
<1>8. CASE AccessLocal(m, knobs, s) /\ AccessLocal(m, knobs, t)
  <2>1. PICK b \in Accesses(m) : s.key = b.comp /\ s.of = {b}
    BY <1>8, Zenon DEF AccessLocal
  <2>2. PICK c \in Accesses(m) : t.key = c.comp /\ t.of = {c}
    BY <1>8, Zenon DEF AccessLocal
  <2>3. b.comp = c.comp
    BY <1>3, <1>8, <2>1, <2>2
  <2>4. b \in Bound(m) /\ c \in Bound(m)
    BY DEF Accesses
  <2>5. b = c
    BY <2>3, <2>4, Zenon DEF Good, BindingsGood
  <2> QED BY <1>3, <1>8, <2>1, <2>2, <2>5
<1>9. CASE ~OwnLocal(m, s) /\ ~OwnLocal(m, t) /\ ~(AccessLocal(m, knobs, s) /\ AccessLocal(m, knobs, t))
  <2>1. s.key = t.key
    BY <1>1, <1>3, <1>4, <1>5, <1>9
  <2>2. s.at = t.at /\ s.of = t.of
    BY <1>1, <1>3, <1>4, <1>5, <1>9
  <2> QED BY <2>1, <2>2
<1> QED BY <1>1, <1>2, <1>3, <1>4, <1>5, <1>6, <1>7, <1>8, <1>9

LEMMA LocalsRead ==
    ASSUME NEW m, NEW knobs, Good(m, knobs), NEW s \in Statements(m, knobs)
    PROVE  \E t \in Statements(m, knobs) : s.name \in t.reads
<1>1. CASE s.name = "profile" /\ NeedProfile(m)
  <2>1. PICK b \in Accesses(m) : Switched(m, b)
    BY <1>1 DEF NeedProfile
  <2> QED BY <1>1, <2>1, AccessThere
<1>2. CASE s.name \in s.reads
  BY <1>2
<1>3. CASE AccessLocal(m, knobs, s)
  <2>1. s.name \in s.reads
    BY <1>3 DEF AccessLocal
  <2> QED BY <2>1
<1>4. CASE EngineLocal(m, s)
  <2>1. PICK k \in BuiltManagers(m) : s.key \in Takes(m.cs[k])
    BY <1>4 DEF EngineLocal, Engines, ComponentsWanted
  <2>2. m.cs[k].deps # <<>>
    <3> SUFFICES ASSUME m.cs[k].deps = <<>> PROVE FALSE
      OBVIOUS
    <3>1. ToSet(m.cs[k].deps) = {}
      BY DEF ToSet
    <3> QED BY <2>1, <3>1 DEF Takes
  <2>3. k \in Managers(m)
    BY <2>1, <2>2 DEF Managers
  <2>4. PICK t \in Statements(m, knobs) : t.reads = (Takes(m.cs[k]) \ NilComps(m)) \union {k, "tc"}
    BY <2>3, ManagerThere
  <2>5. s.key \notin NilComps(m) /\ s.name = s.key
    BY <1>4, KindsApart, Zenon DEF EngineLocal
  <2> QED BY <2>1, <2>4, <2>5
<1>5. CASE ManagerLocal(m, s)
  BY <1>5 DEF ManagerLocal
<1>6. CASE OwnLocal(m, s)
  BY <1>1, <1>2, <1>6 DEF OwnLocal
<1> QED BY <1>3, <1>4, <1>5, <1>6, StatementsOf

LEMMA LocalNames ==
    ASSUME NEW m, NEW knobs, Good(m, knobs), NEW s \in Statements(m, knobs)
    PROVE  s.name \in (OwnLocals \ Given) \union DOMAIN m.cs
<1>1. CASE OwnLocal(m, s)
  BY <1>1 DEF OwnLocal
<1>2. CASE AccessLocal(m, knobs, s)
  <2>1. PICK b \in Accesses(m) : s.name = b.comp
    BY <1>2 DEF AccessLocal
  <2> QED BY <2>1, KindsApart
<1>3. CASE EngineLocal(m, s)
  BY <1>3, KindsApart DEF EngineLocal
<1>4. CASE ManagerLocal(m, s)
  BY <1>4, KindsApart DEF ManagerLocal
<1> QED BY <1>1, <1>2, <1>3, <1>4, StatementsOf

\* What the hooks' types name is told apart from what has landed.
HooksGood(m, knobs) == \A pkg \in HookPackages(m, knobs) : WellNamed(m.cs, DOMAIN m.cs, pkg)

LEMMA HookNames ==
    ASSUME NEW m, NEW knobs, Good(m, knobs), HooksGood(m, knobs), NEW pkg \in HookPackages(m, knobs)
    PROVE  /\ pkg[2] \notin OwnLocals \union Renamed \union DOMAIN m.cs
           /\ pkg[2] \in OwnLeaves => pkg = Outside(pkg[2])
           /\ \A k \in DOMAIN m.cs : m.cs[k].pkg # <<>> /\ Leaf(m.cs[k].pkg) = pkg[2] => m.cs[k].pkg = pkg
           /\ pkg = Outside(pkg[2]) \/ \E k \in DOMAIN m.cs : m.cs[k].pkg = pkg /\ pkg # <<>>
<1>1. CASE NamedApart(m.cs, pkg)
  BY <1>1, Zenon DEF NamedApart
<1>2. CASE NamedByLeaf(m.cs, DOMAIN m.cs, pkg)
  <2>1. PICK k \in DOMAIN m.cs : m.cs[k].pkg = pkg /\ pkg # <<>>
    BY <1>2, Zenon DEF NamedByLeaf
  <2>2. pkg[2] \notin OwnLocals \union OwnLeaves \union DOMAIN m.cs
    BY <2>1, Zenon DEF Good, NamesGood, Leaf
  <2>3. Renamed \subseteq OwnLeaves
    BY DEF Renamed, OwnLeaves
  <2>4. \A j \in DOMAIN m.cs : m.cs[j].pkg # <<>> /\ Leaf(m.cs[j].pkg) = pkg[2] => m.cs[j].pkg = pkg
    BY <1>2, Zenon DEF NamedByLeaf, Leaf
  <2> QED BY <2>1, <2>2, <2>3, <2>4
<1> QED BY <1>1, <1>2, Zenon DEF HooksGood, WellNamed

OfFramework(i) ==
    \E name \in OwnLeaves \ {"web"} : i.path = Outside(name) /\ i.as = <<name>>
OfComponent(m, i) ==
    \E k \in ConstructedKeys(m) : i.path = m.cs[k].pkg /\ i.as = AliasOf(m, m.cs[k].pkg)
OfHook(m, knobs, i) ==
    /\ i.path \in HookPackages(m, knobs) \ {m.cs[k].pkg : k \in ConstructedKeys(m)}
    /\ i.as = <<Leaf(i.path)>>
OfWeb(m, knobs, i) ==
    WebManagers(m, knobs) # {} /\ i.path = <<"client", "web">> /\ i.as = <<"web">>
OfHandler(m, knobs, i) ==
    \E k \in WebManagers(m, knobs) : i.path = <<"web", Leaf(m.cs[k].pkg)>> /\ i.as = <<Leaf(m.cs[k].pkg), "web">>
OfTools(m, knobs, i) ==
    \E mount \in Mounts(m, knobs) : /\ i.path = <<mount[1], Leaf(m.cs[mount[2]].pkg)>>
                                    /\ i.as = <<Leaf(m.cs[mount[2]].pkg), "mcp">>

LEMMA ImportsOf ==
    ASSUME NEW m, NEW knobs, NEW i \in Imports(m, knobs)
    PROVE  /\ i = Import(i.path, i.as)
           /\ \/ OfFramework(i) \/ OfComponent(m, i) \/ OfHook(m, knobs, i)
              \/ OfWeb(m, knobs, i) \/ OfHandler(m, knobs, i) \/ OfTools(m, knobs, i)
<1>0. \A path, as : Import(path, as).path = path /\ Import(path, as).as = as
  BY DEF Import
<1>1. CASE i \in {Import(Outside(name), <<name>>) : name \in Framework(m, knobs)}
  <2>1. PICK name \in Framework(m, knobs) : i = Import(Outside(name), <<name>>)
    BY <1>1
  <2>2. name \in OwnLeaves \ {"web"}
    BY DEF Framework, OwnLeaves
  <2> QED BY <1>0, <2>1, <2>2 DEF OfFramework
<1>2. CASE i \in {Import(m.cs[k].pkg, AliasOf(m, m.cs[k].pkg)) : k \in ConstructedKeys(m)}
  BY <1>0, <1>2 DEF OfComponent
<1>3. CASE WebManagers(m, knobs) # {} /\ i = Import(<<"client", "web">>, <<"web">>)
  BY <1>0, <1>3 DEF OfWeb
<1>4. CASE i \in {Import(<<"web", Leaf(m.cs[k].pkg)>>, <<Leaf(m.cs[k].pkg), "web">>) : k \in WebManagers(m, knobs)}
  <2>1. PICK k \in WebManagers(m, knobs) : i = Import(<<"web", Leaf(m.cs[k].pkg)>>, <<Leaf(m.cs[k].pkg), "web">>)
    BY <1>4, Zenon
  <2>2. i.path = <<"web", Leaf(m.cs[k].pkg)>> /\ i.as = <<Leaf(m.cs[k].pkg), "web">>
    BY <2>1 DEF Import
  <2> QED BY <1>0, <2>1, <2>2, Zenon DEF OfHandler
<1>5. CASE i \in {Import(<<mount[1], Leaf(m.cs[mount[2]].pkg)>>, <<Leaf(m.cs[mount[2]].pkg), "mcp">>) :
                    mount \in Mounts(m, knobs)}
  <2>1. PICK mount \in Mounts(m, knobs) :
          i = Import(<<mount[1], Leaf(m.cs[mount[2]].pkg)>>, <<Leaf(m.cs[mount[2]].pkg), "mcp">>)
    BY <1>5, Zenon
  <2>2. i.path = <<mount[1], Leaf(m.cs[mount[2]].pkg)>> /\ i.as = <<Leaf(m.cs[mount[2]].pkg), "mcp">>
    BY <2>1 DEF Import
  <2> QED BY <1>0, <2>1, <2>2, Zenon DEF OfTools
<1>6. CASE i \in {Import(pkg, <<Leaf(pkg)>>) :
                    pkg \in HookPackages(m, knobs) \ {m.cs[k].pkg : k \in ConstructedKeys(m)}}
  <2>1. PICK pkg \in HookPackages(m, knobs) \ {m.cs[k].pkg : k \in ConstructedKeys(m)} :
          i = Import(pkg, <<Leaf(pkg)>>)
    BY <1>6, Zenon
  <2>2. i.path = pkg /\ i.as = <<Leaf(pkg)>>
    BY <1>0, <2>1, Zenon
  <2> QED BY <1>0, <2>1, <2>2, Zenon DEF OfHook
<1> QED BY <1>1, <1>2, <1>3, <1>4, <1>5, <1>6 DEF Imports

TheMount(m, knobs, k) == <<CHOOSE id \in MCPClients(m.sys) : Fronts(m, knobs, id, k), k>>

LEMMA MountOf ==
    ASSUME NEW m, NEW knobs, NEW mount \in Mounts(m, knobs)
    PROVE  /\ mount[2] \in Managers(m) /\ mount[1] \in MCPClients(m.sys) /\ Fronts(m, knobs, mount[1], mount[2])
           /\ mount = TheMount(m, knobs, mount[2])
<1>1. PICK k \in {k \in Managers(m) : \E id \in MCPClients(m.sys) : Fronts(m, knobs, id, k)} :
        mount = TheMount(m, knobs, k)
  BY Zenon DEF Mounts, TheMount
<1>2. mount[2] = k /\ mount[1] = CHOOSE id \in MCPClients(m.sys) : Fronts(m, knobs, id, k)
  BY <1>1 DEF TheMount
<1>3. PICK id \in MCPClients(m.sys) : Fronts(m, knobs, id, k)
  BY <1>1
<1>4. mount[1] \in MCPClients(m.sys) /\ Fronts(m, knobs, mount[1], k)
  BY <1>2, <1>3, Zenon
<1> QED BY <1>1, <1>2, <1>4

\* The package of what the root constructs has an alias of its own.
LEMMA KeysPackaged ==
    ASSUME NEW m, NEW knobs, Good(m, knobs), NEW k \in ConstructedKeys(m)
    PROVE  /\ k \in DOMAIN m.cs /\ m.cs[k].pkg # <<>> /\ m.cs[k].pkg \in AliasPackages(m)
           /\ m.cs[k].pkg = <<m.cs[k].pkg[1], m.cs[k].pkg[2]>>
           /\ Leaf(m.cs[k].pkg) \notin OwnLocals \union OwnLeaves \union DOMAIN m.cs
<1>1. Constructible(m, k) /\ (IsBound(m, k) \/ ImportsAsComponent(m.cs[k]))
  <2>1. CASE \E b \in Accesses(m) : k = b.comp
    <3>1. PICK b \in m.d.bindings : k = b.comp /\ Constructible(m, b.comp)
      BY <2>1 DEF Accesses, Bound
    <3> QED BY <3>1 DEF IsBound
  <2>2. CASE k \in Engines(m)
    BY <2>2 DEF Engines, ImportsAsComponent
  <2>3. CASE k \in Managers(m)
    BY <2>3 DEF Managers, BuiltManagers, ImportsAsComponent, WithDeps
  <2> QED BY <2>1, <2>2, <2>3 DEF ConstructedKeys
<1>2. k \in DOMAIN m.cs /\ m.cs[k].pkg # <<>>
  BY <1>1 DEF Constructible
<1>3. m.cs[k].pkg \in AliasPackages(m)
  BY <1>1, <1>2 DEF AliasPackages
<1> QED BY <1>2, <1>3, Zenon DEF Good, NamesGood

LEMMA ComponentAliases ==
    ASSUME NEW m, NEW knobs, Good(m, knobs), NEW j \in ConstructedKeys(m), NEW k \in ConstructedKeys(m),
           AliasOf(m, m.cs[j].pkg) = AliasOf(m, m.cs[k].pkg)
    PROVE  m.cs[j].pkg = m.cs[k].pkg
<1> DEFINE a == m.cs[j].pkg
           b == m.cs[k].pkg
<1>1. a = <<a[1], a[2]>> /\ b = <<b[1], b[2]>> /\ a \in AliasPackages(m) /\ b \in AliasPackages(m)
  BY KeysPackaged
<1> HIDE DEF a, b
<1>2. AliasOf(m, a) = AliasOf(m, b)
  BY DEF a, b
<1>3. AliasOf(m, a) \in {a, <<a[2]>>} /\ AliasOf(m, b) \in {b, <<b[2]>>}
  BY DEF AliasOf, Leaf
<1>4. CASE AliasOf(m, a) = a /\ AliasOf(m, b) = b
  BY <1>2, <1>4 DEF a, b
<1>5. CASE AliasOf(m, a) = <<a[2]>> /\ AliasOf(m, b) = <<b[2]>>
  <2>1. a[2] = b[2]
    <3>1. <<a[2]>>[1] = a[2] /\ <<b[2]>>[1] = b[2]
      OBVIOUS
    <3> QED BY <1>2, <1>5, <3>1
  <2>2. a # <<a[2]>>
    <3>1. Len(a) = 2
      BY <1>1
    <3>2. Len(<<a[2]>>) = 1
      OBVIOUS
    <3> QED BY <3>1, <3>2
  <2>3. ~\E other \in AliasPackages(m) \ {a} : Leaf(other) = Leaf(a)
    BY <1>5, <2>2 DEF AliasOf
  <2>4. a = b
    BY <1>1, <2>1, <2>3 DEF Leaf
  <2> QED BY <2>4 DEF a, b
<1>6. \A x : <<x>> # a /\ <<x>> # b
  <2>1. Len(a) = 2 /\ Len(b) = 2
    BY <1>1
  <2>2. \A x : Len(<<x>>) = 1
    OBVIOUS
  <2> QED BY <2>1, <2>2
<1> QED BY <1>2, <1>3, <1>4, <1>5, <1>6

LEMMA ComponentNames ==
    ASSUME NEW m, NEW knobs, Good(m, knobs), NEW k \in ConstructedKeys(m), NEW as, as = AliasOf(m, m.cs[k].pkg)
    PROVE  \/ Len(as) = 1 /\ as[1] = Leaf(m.cs[k].pkg) /\ as[1] \notin OwnLocals \union OwnLeaves \union DOMAIN m.cs
           \/ Len(as) = 2 /\ as[2] \notin OwnLeaves
<1> DEFINE p == m.cs[k].pkg
<1>1. p = <<p[1], p[2]>> /\ p[2] \notin OwnLocals \union OwnLeaves \union DOMAIN m.cs
  BY KeysPackaged DEF Leaf
<1> HIDE DEF p
<1>2. as \in {p, <<p[2]>>}
  BY DEF AliasOf, Leaf, p
<1> QED BY <1>1, <1>2 DEF Leaf, p

\* A package that a hook names goes by its leaf, and nothing else does.
LEMMA HookAliases ==
    ASSUME NEW m, NEW knobs, Good(m, knobs), HooksGood(m, knobs),
           NEW i \in Imports(m, knobs), NEW j \in Imports(m, knobs), i.as = j.as, OfHook(m, knobs, i)
    PROVE  i.path = j.path
<1> DEFINE p == i.path
<1>1. /\ p \in HookPackages(m, knobs) /\ i.as = <<p[2]>>
      /\ \A k \in ConstructedKeys(m) : p # m.cs[k].pkg
  BY DEF OfHook, Leaf
<1> HIDE DEF p
<1>2. /\ p[2] \notin OwnLocals \union Renamed \union DOMAIN m.cs
      /\ p[2] \in OwnLeaves => p = Outside(p[2])
      /\ \A k \in DOMAIN m.cs : m.cs[k].pkg # <<>> /\ Leaf(m.cs[k].pkg) = p[2] => m.cs[k].pkg = p
      /\ p = Outside(p[2]) \/ \E k \in DOMAIN m.cs : m.cs[k].pkg = p /\ p # <<>>
  BY <1>1, HookNames
<1>3. Len(j.as) = 1 /\ j.as[1] = p[2]
  BY <1>1
<1>4. CASE OfFramework(j)
  <2>1. PICK x \in OwnLeaves : j.path = Outside(x) /\ j.as = <<x>>
    BY <1>4 DEF OfFramework
  <2>2. x = p[2]
    BY <1>3, <2>1
  <2> QED BY <1>2, <2>1, <2>2 DEF p
<1>5. CASE OfComponent(m, j)
  <2>1. PICK k \in ConstructedKeys(m) : j.as = AliasOf(m, m.cs[k].pkg)
    BY <1>5 DEF OfComponent
  <2>2. Leaf(m.cs[k].pkg) = p[2]
    BY <1>3, <2>1, ComponentNames
  <2>3. k \in DOMAIN m.cs /\ m.cs[k].pkg # <<>>
    BY KeysPackaged
  <2> QED BY <1>1, <1>2, <2>2, <2>3
<1>6. CASE OfHook(m, knobs, j)
  <2> DEFINE q == j.path
  <2>1. q \in HookPackages(m, knobs) /\ j.as = <<q[2]>>
    BY <1>6 DEF OfHook, Leaf
  <2> HIDE DEF q
  <2>2. /\ \A k \in DOMAIN m.cs : m.cs[k].pkg # <<>> /\ Leaf(m.cs[k].pkg) = q[2] => m.cs[k].pkg = q
        /\ q = Outside(q[2]) \/ \E k \in DOMAIN m.cs : m.cs[k].pkg = q /\ q # <<>>
    BY <2>1, HookNames
  <2>3. p[2] = q[2]
    BY <1>3, <2>1
  <2>4. p = q
    BY <1>2, <2>2, <2>3 DEF Leaf
  <2> QED BY <2>4 DEF p, q
<1>7. CASE OfWeb(m, knobs, j)
  <2>1. p[2] = "web"
    BY <1>3, <1>7 DEF OfWeb
  <2> QED BY <1>2, <2>1 DEF Renamed
<1>8. CASE OfHandler(m, knobs, j) \/ OfTools(m, knobs, j)
  <2>1. Len(j.as) = 2
    BY <1>8 DEF OfHandler, OfTools
  <2> QED BY <1>3, <2>1
<1> QED BY <1>4, <1>5, <1>6, <1>7, <1>8, ImportsOf

LEMMA ImportNames ==
    ASSUME NEW m, NEW knobs, Good(m, knobs), HooksGood(m, knobs),
           NEW i \in Imports(m, knobs), NEW j \in Imports(m, knobs), i.as = j.as
    PROVE  i = j
<1>1. \A x : OfFramework(x) => Len(x.as) = 1 /\ x.as[1] \in OwnLeaves \ {"web"}
  BY DEF OfFramework
<1>2. \A x : OfComponent(m, x) => \/ Len(x.as) = 1 /\ x.as[1] \notin OwnLeaves
                                  \/ Len(x.as) = 2 /\ x.as[2] \notin OwnLeaves
  BY ComponentNames DEF OfComponent
<1>3. \A x : OfWeb(m, knobs, x) => Len(x.as) = 1 /\ x.as[1] = "web"
  BY DEF OfWeb
<1>4. \A x : OfHandler(m, knobs, x) => Len(x.as) = 2 /\ x.as[2] = "web"
  BY DEF OfHandler
<1>5. \A x : OfTools(m, knobs, x) => Len(x.as) = 2 /\ x.as[2] = "mcp"
  BY DEF OfTools
<1>6. "web" \in OwnLeaves /\ "mcp" \in OwnLeaves
  BY DEF OwnLeaves
<1>7. \A k, l \in Managers(m) : Leaf(m.cs[k].pkg) = Leaf(m.cs[l].pkg) => k = l
  BY Zenon DEF Good, NamesGood, Managers, BuiltManagers
<1>8. SUFFICES i.path = j.path
  BY ImportsOf
<1>9. CASE OfFramework(i) /\ OfFramework(j)
  <2>1. PICK x : i.path = Outside(x) /\ i.as = <<x>>
    BY <1>9 DEF OfFramework
  <2>2. PICK y : j.path = Outside(y) /\ j.as = <<y>>
    BY <1>9 DEF OfFramework
  <2>3. x = y
    <3>1. i.as[1] = x
      BY <2>1
    <3>2. j.as[1] = y
      BY <2>2
    <3> QED BY <3>1, <3>2
  <2> QED BY <2>1, <2>2, <2>3
<1>10. CASE OfComponent(m, i) /\ OfComponent(m, j)
  BY <1>10, ComponentAliases DEF OfComponent
<1>11. CASE OfWeb(m, knobs, i) /\ OfWeb(m, knobs, j)
  BY <1>11 DEF OfWeb
<1>12. CASE OfHandler(m, knobs, i) /\ OfHandler(m, knobs, j)
  <2>1. PICK k \in WebManagers(m, knobs) : i.path = <<"web", Leaf(m.cs[k].pkg)>> /\ i.as = <<Leaf(m.cs[k].pkg), "web">>
    BY <1>12 DEF OfHandler
  <2>2. PICK l \in WebManagers(m, knobs) : j.path = <<"web", Leaf(m.cs[l].pkg)>> /\ j.as = <<Leaf(m.cs[l].pkg), "web">>
    BY <1>12 DEF OfHandler
  <2>3. Leaf(m.cs[k].pkg) = Leaf(m.cs[l].pkg)
    <3>1. i.as[1] = Leaf(m.cs[k].pkg)
      BY <2>1
    <3>2. j.as[1] = Leaf(m.cs[l].pkg)
      BY <2>2
    <3> QED BY <3>1, <3>2
  <2> QED BY <2>1, <2>2, <2>3
<1>13. CASE OfTools(m, knobs, i) /\ OfTools(m, knobs, j)
  <2>1. PICK x \in Mounts(m, knobs) : i.path = <<x[1], Leaf(m.cs[x[2]].pkg)>> /\ i.as = <<Leaf(m.cs[x[2]].pkg), "mcp">>
    BY <1>13 DEF OfTools
  <2>2. PICK y \in Mounts(m, knobs) : j.path = <<y[1], Leaf(m.cs[y[2]].pkg)>> /\ j.as = <<Leaf(m.cs[y[2]].pkg), "mcp">>
    BY <1>13 DEF OfTools
  <2>3. Leaf(m.cs[x[2]].pkg) = Leaf(m.cs[y[2]].pkg)
    <3>1. i.as[1] = Leaf(m.cs[x[2]].pkg)
      BY <2>1
    <3>2. j.as[1] = Leaf(m.cs[y[2]].pkg)
      BY <2>2
    <3> QED BY <3>1, <3>2
  <2>4. x[2] = y[2]
    BY <1>7, <2>3, MountOf
  <2>5. x = y
    <3>1. x = TheMount(m, knobs, x[2]) /\ y = TheMount(m, knobs, y[2])
      BY MountOf
    <3> QED BY <2>4, <3>1
  <2> QED BY <2>1, <2>2, <2>5
<1>14. CASE OfHook(m, knobs, i) \/ OfHook(m, knobs, j)
  BY <1>14, HookAliases
<1> QED BY <1>1, <1>2, <1>3, <1>4, <1>5, <1>6, <1>9, <1>10, <1>11, <1>12, <1>13, <1>14, ImportsOf

\* No import takes the name of a parameter or a local.
LEMMA AliasesApart ==
    ASSUME NEW m, NEW knobs, Good(m, knobs), HooksGood(m, knobs),
           NEW i \in Imports(m, knobs), NEW name \in OwnLocals \union DOMAIN m.cs
    PROVE  i.as # <<name>>
<1> SUFFICES ASSUME Len(i.as) = 1, i.as[1] = name PROVE FALSE
  OBVIOUS
<1>1. \A k \in DOMAIN m.cs : k \notin OwnLeaves
  BY KindsApart
<1>2. \A x \in OwnLocals : x \notin OwnLeaves
  BY DEF OwnLocals, OwnLeaves, Given
<1>3. CASE OfFramework(i)
  <2>1. i.as[1] \in OwnLeaves
    BY <1>3 DEF OfFramework
  <2> QED BY <1>1, <1>2, <2>1
<1>4. CASE OfComponent(m, i)
  <2>1. i.as[1] \notin OwnLocals \union OwnLeaves \union DOMAIN m.cs
    BY <1>4, ComponentNames DEF OfComponent
  <2> QED BY <2>1
<1>5. CASE OfHook(m, knobs, i)
  <2>1. i.path \in HookPackages(m, knobs) /\ i.as[1] = i.path[2]
    BY <1>5 DEF OfHook, Leaf
  <2> QED BY <2>1, HookNames
<1>6. CASE OfWeb(m, knobs, i)
  <2>1. i.as[1] \in OwnLeaves
    BY <1>6 DEF OfWeb, OwnLeaves
  <2> QED BY <1>1, <1>2, <2>1
<1>7. CASE OfHandler(m, knobs, i) \/ OfTools(m, knobs, i)
  <2>1. Len(i.as) = 2
    BY <1>7 DEF OfHandler, OfTools
  <2> QED BY <2>1
<1> QED BY <1>3, <1>4, <1>5, <1>6, <1>7, ImportsOf

\* A package that the hooks' types name is imported under its leaf.
LEMMA HooksImported ==
    ASSUME NEW m, NEW knobs, Good(m, knobs), HooksGood(m, knobs), NEW pkg \in HookPackages(m, knobs)
    PROVE  Import(pkg, <<Leaf(pkg)>>) \in Imports(m, knobs)
<1>1. CASE pkg \notin {m.cs[k].pkg : k \in ConstructedKeys(m)}
  <2>1. Import(pkg, <<Leaf(pkg)>>) \in {Import(x, <<Leaf(x)>>) :
          x \in HookPackages(m, knobs) \ {m.cs[k].pkg : k \in ConstructedKeys(m)}}
    BY <1>1
  <2> QED BY <2>1, Zenon DEF Imports
<1>2. ASSUME NEW k \in ConstructedKeys(m), pkg = m.cs[k].pkg
      PROVE  Import(pkg, <<Leaf(pkg)>>) \in Imports(m, knobs)
  <2>1. \A j \in DOMAIN m.cs : m.cs[j].pkg # <<>> /\ Leaf(m.cs[j].pkg) = Leaf(pkg) => m.cs[j].pkg = pkg
    BY HookNames DEF Leaf
  <2>2. \A other \in AliasPackages(m) : \E j \in DOMAIN m.cs : other = m.cs[j].pkg /\ other # <<>>
    BY DEF AliasPackages, Constructible
  <2>3. AliasOf(m, pkg) = <<Leaf(pkg)>>
    BY <2>1, <2>2 DEF AliasOf
  <2>4. Import(m.cs[k].pkg, AliasOf(m, m.cs[k].pkg)) \in Imports(m, knobs)
    BY Zenon DEF Imports
  <2> QED BY <1>2, <2>3, <2>4
<1> QED BY <1>1, <1>2

LEMMA RootResolves ==
    ASSUME NEW m, NEW knobs, Good(m, knobs), HooksGood(m, knobs), RootRefusals(m, knobs) = {}
    PROVE  NamesResolve(Root(m, knobs))
<1> DEFINE stmts == Statements(m, knobs)
<1>1. Root(m, knobs).stmts = stmts /\ Root(m, knobs).imports = Imports(m, knobs)
  BY DEF Root, Statements
<1>2. ASSUME NEW s \in stmts, NEW name \in s.reads \ {s.name}
      PROVE  name \in Given \/ \E t \in stmts : t.name = name /\ t.at < s.at
  BY ReadsDefined
<1>3. \A s, t \in stmts : s.name = t.name => s.at = t.at /\ s.key = t.key /\ s.of = t.of
  BY NamesTold
<1>4. Defined(stmts) \subseteq UNION {s.reads : s \in stmts}
  <2> SUFFICES ASSUME NEW s \in stmts PROVE s.name \in UNION {t.reads : t \in stmts}
    BY DEF Defined
  <2> QED BY LocalsRead
<1>5. \A s \in stmts : s.name \in (OwnLocals \ Given) \union DOMAIN m.cs
  BY LocalNames
<1>6. Given \subseteq OwnLocals
  BY DEF OwnLocals
<1>7. \A k \in DOMAIN m.cs : k \notin OwnLocals
  BY KindsApart
<1> HIDE DEF stmts
<1>8. Given \intersect Defined(stmts) = {}
  BY <1>5, <1>6, <1>7 DEF Defined
<1>9. \A i \in Imports(m, knobs) : \A name \in Given \union Defined(stmts) : i.as # <<name>>
  BY <1>5, <1>6, AliasesApart DEF Defined
<1> QED BY <1>1, <1>2, <1>3, <1>4, <1>8, <1>9 DEF NamesResolve

\* A constructor without arguments is that of a component without dependencies.
LEMMA PlainConstructor ==
    ASSUME NEW c, Pure(c), c.deps = <<>>
    PROVE  Call("", <<>>, FALSE) \in Constructors(c)
<1>1. CASE c.stub
  BY <1>1 DEF Constructors
<1>2. CASE ~c.stub
  <2>1. DepTypes(c) = <<>>
    BY DEF DepTypes
  <2>2. ~(c.layer \in {"resourceAccess", "utility"} /\ c.infra # {}) /\ c.layer \notin {"resourceAccess", "client"}
    BY DEF Pure
  <2> QED BY <1>2, <2>1, <2>2, Zenon DEF Constructors
<1> QED BY <1>1, <1>2

LEMMA RootCalls ==
    ASSUME NEW m, NEW knobs, Good(m, knobs), NEW s \in Statements(m, knobs), s.key # ""
    PROVE  s.key \in DOMAIN m.cs /\ s.call \in Constructors(m.cs[s.key])
<1>1. CASE OwnLocal(m, s)
  BY <1>1 DEF OwnLocal
<1>2. CASE AccessLocal(m, knobs, s)
  <2>1. PICK b \in Accesses(m) : s.key = b.comp /\ s.call \in ArmCalls(m, knobs, b)
    BY <1>2 DEF AccessLocal
  <2>2. b \in Bound(m)
    BY DEF Accesses
  <2>3. ArmCalls(m, knobs, b) \subseteq Constructors(m.cs[b.comp])
    BY <2>2, Zenon DEF Good, BindingsGood
  <2> QED BY <2>1, <2>3, KindsApart
<1>3. CASE EngineLocal(m, s)
  <2>1. s.key \in DOMAIN m.cs /\ Pure(m.cs[s.key]) /\ s.call = Call("", <<>>, FALSE)
    BY <1>3 DEF EngineLocal, Engines
  <2>2. m.cs[s.key].deps = <<>>
    BY <2>1, Zenon DEF Good, NamesGood
  <2> QED BY <2>1, <2>2, PlainConstructor
<1>4. CASE ManagerLocal(m, s)
  <2>1. s.key \in Managers(m) /\ s.call = Call("", DepTypes(m.cs[s.key]), FALSE)
    BY <1>4 DEF ManagerLocal
  <2>2. s.key \in DOMAIN m.cs /\ m.cs[s.key].layer = "manager"
    BY <2>1, KindsApart
  <2>3. ~m.cs[s.key].stub
    BY <2>2, Zenon DEF Good, NamesGood
  <2> QED BY <2>1, <2>2, <2>3 DEF Constructors
<1> QED BY <1>1, <1>2, <1>3, <1>4, StatementsOf

LEMMA RootFields ==
    ASSUME NEW m, NEW knobs, Good(m, knobs)
    PROVE  CfgFields(m, knobs) \subseteq ConfigFields(m.d)
<1>1. ASSUME NEW decl \in m.d.decls PROVE FieldsOf(decl) \subseteq ConfigFields(m.d)
  BY DEF ConfigFields
<1>2. ASSUME NEW s \in m.d.settings PROVE Setting(s) \in ConfigFields(m.d)
  BY DEF ConfigFields
<1>3. ASSUME NEW b \in Accesses(m), NEW p \in Arms(m, b)
      PROVE  ArmFields(m, knobs, b, p) \subseteq ConfigFields(m.d)
  <2>1. b \in Bound(m) /\ p \in DOMAIN b.per
    BY DEF Accesses, Arms
  <2>2. b.settings \subseteq m.d.settings /\ b.per[p].infra \in Seq(KeysOf(m.d.decls))
    BY <2>1, Zenon DEF Good, BindingsGood
  <2>3. ConfigRefusals(m.d) = {}
    BY Zenon DEF Good, BindingsGood
  <2>4. \A key \in ToSet(b.per[p].infra) : FieldsOf(DeclOf(m.d, key)) \subseteq ConfigFields(m.d)
    <3> TAKE key \in ToSet(b.per[p].infra)
    <3>1. key \in KeysOf(m.d.decls)
      BY <2>2, Listed
    <3> QED BY <1>1, <2>3, <3>1, Substrates
  <2>5. {Setting(s) : s \in b.settings} \subseteq ConfigFields(m.d)
    BY <1>2, <2>2
  <2> QED BY <2>4, <2>5 DEF ArmFields
<1>4. UNION {UNION {ArmFields(m, knobs, b, p) : p \in Arms(m, b)} : b \in Accesses(m)} \subseteq ConfigFields(m.d)
  BY <1>3
<1>5. UNION {{Setting(dep.name) : dep \in {dep \in ToSet(m.cs[k].deps) : FromSetting(m, dep)}} : k \in Managers(m)}
        \subseteq ConfigFields(m.d)
  <2>1. ASSUME NEW k, NEW dep, FromSetting(m, dep) PROVE Setting(dep.name) \in ConfigFields(m.d)
    BY <1>2, <2>1 DEF FromSetting
  <2> QED BY <2>1
<1>6. ASSUME NEW x PROVE UNION {FieldsOf(decl) : decl \in OfSubstrate(m.d, x)} \subseteq ConfigFields(m.d)
  BY <1>1 DEF OfSubstrate
<1>7. Setting("listenAddr") \in ConfigFields(m.d) /\ Setting("shutdownTimeout") \in ConfigFields(m.d)
  <2>1. {"listenAddr", "shutdownTimeout"} \subseteq m.d.settings
    BY Zenon DEF Good, BindingsGood
  <2> QED BY <1>2, <2>1
<1>8. ServesWeb(m, knobs) => Setting("webDistDir") \in ConfigFields(m.d)
  BY <1>2 DEF ServesWeb
<1> QED BY <1>4, <1>5, <1>6, <1>7, <1>8 DEF CfgFields
-----------------------------------------------------------------------------
(* What some of the components make of a project *)

At(p, L) == Restrict(p.cs, {k \in DOMAIN p.cs : p.cs[k].pkg = <<>> \/ p.cs[k].pkg \in L})
ModelAt(p, L) == [cs |-> At(p, L), sys |-> p.sys,
                  d |-> EffectiveDeployment(At(p, L), p.sys, p.authored, "server")]

LEMMA ModelIs ==
    /\ Model(FALSE) = ModelAt(project, landed)
    /\ Model(TRUE) = ModelAt(project, landed \union contracts)
<1>1. BuiltContracts(FALSE) = {k \in DOMAIN project.cs : project.cs[k].pkg = <<>> \/ project.cs[k].pkg \in landed}
  BY DEF BuiltContracts
<1>2. BuiltContracts(TRUE) = {k \in DOMAIN project.cs :
                                project.cs[k].pkg = <<>> \/ project.cs[k].pkg \in landed \union contracts}
  BY DEF BuiltContracts
<1> QED BY <1>1, <1>2, Zenon DEF Model, ModelAt, At

LEMMA AtIs ==
    ASSUME NEW p, NEW L
    PROVE  /\ DOMAIN At(p, L) = {k \in DOMAIN p.cs : p.cs[k].pkg = <<>> \/ p.cs[k].pkg \in L}
           /\ \A k \in DOMAIN At(p, L) : k \in DOMAIN p.cs /\ At(p, L)[k] = p.cs[k]
           /\ ModelAt(p, L).cs = At(p, L) /\ ModelAt(p, L).sys = p.sys
           /\ ModelAt(p, L).d = EffectiveDeployment(At(p, L), p.sys, p.authored, "server")
  BY DEF At, ModelAt, Restrict

LEMMA AtGrows ==
    ASSUME NEW p, NEW L, NEW K \in SUBSET L
    PROVE  DOMAIN At(p, K) \subseteq DOMAIN At(p, L) /\ \A k \in DOMAIN At(p, K) : At(p, L)[k] = At(p, K)[k]
<1>1. /\ DOMAIN At(p, K) = {k \in DOMAIN p.cs : p.cs[k].pkg = <<>> \/ p.cs[k].pkg \in K}
      /\ DOMAIN At(p, L) = {k \in DOMAIN p.cs : p.cs[k].pkg = <<>> \/ p.cs[k].pkg \in L}
  BY AtIs, Zenon
<1>2. DOMAIN At(p, K) \subseteq DOMAIN At(p, L)
  BY <1>1
<1>3. /\ \A k \in DOMAIN At(p, K) : At(p, K)[k] = p.cs[k]
      /\ \A k \in DOMAIN At(p, L) : At(p, L)[k] = p.cs[k]
  BY AtIs, Zenon
<1> QED BY <1>2, <1>3

DefaultSettings(sys) == {"listenAddr", "shutdownTimeout"} \union (IF BuiltSurfaces(sys) = {} THEN {} ELSE {"webDistDir"})

LEMMA EffectiveDerived ==
    ASSUME NEW cs, NEW sys, NEW authored, authored.containers = {}
    PROVE  LET d == EffectiveDeployment(cs, sys, authored, "server")
           IN  /\ d.decls = DefaultDecls(cs) /\ d.bindings = DefaultBindings(cs)
               /\ d.profiles = DefaultProfiles /\ d.settings = DefaultSettings(sys)
<1> DEFINE derived == DefaultDeployment(cs, "server")
           served == [derived EXCEPT !.settings = @ \union {"webDistDir"}]
<1>1. EffectiveDeployment(cs, sys, authored, "server") = IF BuiltSurfaces(sys) = {} THEN derived ELSE served
  BY Zenon DEF EffectiveDeployment
<1>2. /\ derived.decls = DefaultDecls(cs) /\ derived.bindings = DefaultBindings(cs)
      /\ derived.profiles = DefaultProfiles /\ derived.settings = {"listenAddr", "shutdownTimeout"}
  BY DEF DefaultDeployment
<1>3. /\ served.decls = derived.decls /\ served.bindings = derived.bindings
      /\ served.profiles = derived.profiles /\ served.settings = derived.settings \union {"webDistDir"}
  BY DEF DefaultDeployment
<1> HIDE DEF derived, served
<1> QED BY <1>1, <1>2, <1>3 DEF DefaultSettings

LEMMA DerivedIs ==
    ASSUME NEW p, NEW L, p.authored.containers = {}
    PROVE  /\ ModelAt(p, L).d.decls = DefaultDecls(At(p, L))
           /\ ModelAt(p, L).d.bindings = DefaultBindings(At(p, L))
           /\ ModelAt(p, L).d.profiles = DefaultProfiles
           /\ ModelAt(p, L).d.settings = DefaultSettings(p.sys)
<1>1. ModelAt(p, L).d = EffectiveDeployment(At(p, L), p.sys, p.authored, "server")
  BY AtIs
<1> QED BY <1>1, EffectiveDerived

LEMMA FieldsGrow ==
    ASSUME NEW p, NEW L, NEW K \in SUBSET L
    PROVE  ConfigFields(ModelAt(p, K).d) \subseteq ConfigFields(ModelAt(p, L).d)
<1>1. CASE p.authored.containers # {}
  <2>1. ModelAt(p, K).d = p.authored /\ ModelAt(p, L).d = p.authored
    BY <1>1, AtIs DEF EffectiveDeployment
  <2> QED BY <2>1
<1>2. CASE p.authored.containers = {}
  <2>1. Served(At(p, K)) \subseteq Served(At(p, L)) /\ \A k \in Served(At(p, K)) : At(p, L)[k] = At(p, K)[k]
    BY AtGrows DEF Served
  <2>2. DefaultDecls(At(p, K)) \subseteq DefaultDecls(At(p, L))
    BY <2>1 DEF DefaultDecls
  <2> QED BY <1>2, <2>2, DerivedIs DEF ConfigFields
<1> QED BY <1>1, <1>2

LEMMA ExposedAt ==
    ASSUME NEW p, NEW L
    PROVE  /\ ExposedManagers(ModelAt(p, L), p.knobs) = ExposedManagers(Whole(p), p.knobs) \intersect DOMAIN At(p, L)
           /\ \A k \in DOMAIN At(p, L) : MachineClients(ModelAt(p, L), p.knobs, k) = MachineClients(Whole(p), p.knobs, k)
<1> DEFINE whole == Whole(p)
           m == ModelAt(p, L)
<1>1. m.cs = At(p, L) /\ m.sys = p.sys /\ whole.cs = p.cs /\ whole.sys = p.sys /\ DOMAIN At(p, L) \subseteq DOMAIN p.cs
  BY AtIs DEF Whole
<1> HIDE DEF whole, m
<1>2. ASSUME NEW id PROVE ManagersBehind(m, id) = ManagersBehind(whole, id) \intersect DOMAIN At(p, L)
  BY <1>1 DEF ManagersBehind
<1>3. ExposedManagers(m, p.knobs) = ExposedManagers(whole, p.knobs) \intersect DOMAIN At(p, L)
  <2>1. CASE p.knobs.exposed.given
    BY <1>1, <2>1 DEF ExposedManagers
  <2>2. CASE ~p.knobs.exposed.given
    BY <1>1, <1>2, <2>2 DEF ExposedManagers
  <2> QED BY <2>1, <2>2
<1>4. \A k \in DOMAIN At(p, L) : MachineClients(m, p.knobs, k) = MachineClients(whole, p.knobs, k)
  BY <1>1, <1>2 DEF MachineClients
<1> QED BY <1>3, <1>4 DEF whole, m

LEMMA FlattenOne == ASSUME NEW x PROVE FlattenSeq(<<x>>) = x
<1> DEFINE q == <<x>>
           h == CHOOSE f : f = [i \in 1 .. Len(q) |-> IF i = 1 THEN q[i] ELSE f[i - 1] \o q[i]]
<1>1. Len(q) = 1 /\ Len(q) # 0 /\ q[1] = x
  OBVIOUS
<1>2. FlattenSeq(q) = h[Len(q)]
  BY <1>1 DEF FlattenSeq
<1>3. \E f : f = [i \in 1 .. Len(q) |-> IF i = 1 THEN q[i] ELSE f[i - 1] \o q[i]]
  <2>1. Len(q) \in Nat \ {0}
    BY <1>1
  <2> HIDE DEF q
  <2> QED BY <2>1, FlatteningExists DEF Flattens
<1>4. h = [i \in 1 .. Len(q) |-> IF i = 1 THEN q[i] ELSE h[i - 1] \o q[i]]
  <2> HIDE DEF q
  <2> QED BY <1>3, Zenon
<1> HIDE DEF h, q
<1>5. 1 \in 1 .. Len(q)
  BY <1>1
<1>6. h[1] = q[1]
  BY <1>4, <1>5, Zenon
<1> QED BY <1>1, <1>2, <1>6 DEF q

\* A derived deployment binds to the constructor that modelgen emits.
LEMMA DerivedBindings ==
    ASSUME NEW p, NEW L, WellMade(p), p.authored.containers = {}, NEW b \in ModelAt(p, L).d.bindings
    PROVE  LET m == ModelAt(p, L)
               k == b.comp
               name == b.per["cloud"].variant
           IN  /\ k \in Served(m.cs) /\ name \in m.cs[k].infra \intersect {"Postgres", "ExternalHTTP"}
               /\ b = DefaultBinding(k, name) /\ b.settings = {}
               /\ DOMAIN b.per = DefaultProfiles
               /\ \A q \in DefaultProfiles : b.per[q].variant = name /\ b.per[q].infra = InfraKeys(k, name)
<1> DEFINE cs == At(p, L)
<1>1. ModelAt(p, L).cs = cs /\ ModelAt(p, L).d.bindings = DefaultBindings(cs)
  BY AtIs, DerivedIs
<1>2. PICK k \in Served(cs) : \E n \in cs[k].infra \intersect {"Postgres", "ExternalHTTP"} : b = DefaultBinding(k, n)
  BY <1>1 DEF DefaultBindings
<1>3. PICK n \in cs[k].infra \intersect {"Postgres", "ExternalHTTP"} : b = DefaultBinding(k, n)
  BY <1>2
<1>4. b.comp = k /\ b.settings = {} /\ b.per = [q \in DefaultProfiles |-> [variant |-> n, infra |-> InfraKeys(k, n)]]
  BY <1>3 DEF DefaultBinding
<1>5. "cloud" \in DefaultProfiles
  BY DEF DefaultProfiles
<1>6. DOMAIN b.per = DefaultProfiles /\ \A q \in DefaultProfiles : b.per[q].variant = n /\ b.per[q].infra = InfraKeys(k, n)
  BY <1>4
<1>7. b.per["cloud"].variant = n
  BY <1>5, <1>6
<1>8. b = DefaultBinding(b.comp, b.per["cloud"].variant)
  BY <1>3, <1>4, <1>7
<1> HIDE DEF cs
<1> QED BY <1>1, <1>2, <1>3, <1>4, <1>6, <1>7, <1>8

LEMMA DerivedSubstrates ==
    ASSUME NEW p, NEW L, WellMade(p), p.authored.containers = {}, NEW k \in Served(At(p, L))
    PROVE  LET m == ModelAt(p, L)
           IN  /\ "Postgres" \in m.cs[k].infra => "postgres" \in KeysOf(m.d.decls) /\ SubstrateOf(m, "postgres") = "postgres"
               /\ "ExternalHTTP" \in m.cs[k].infra => k \in KeysOf(m.d.decls) /\ SubstrateOf(m, k) = "external-http"
<1> DEFINE cs == At(p, L)
           m == ModelAt(p, L)
<1>1. m.cs = cs /\ m.d.decls = DefaultDecls(cs)
  BY AtIs, DerivedIs
<1>2. \A j \in Served(cs) : j \in DOMAIN p.cs
  BY AtIs DEF Served
<1>3. \A j \in DOMAIN p.cs : j \notin {"temporal", "postgres", "otel"}
  BY DEF WellMade, WellContracted
<1> HIDE DEF cs, m
<1>4. ASSUME NEW decl \in DefaultDecls(cs)
      PROVE  \/ decl.key \in {"otel", "temporal"}
             \/ decl.key = "postgres" /\ decl.substrate = "postgres"
             \/ decl.key \in Served(cs) /\ decl.substrate = "external-http"
  BY DEF DefaultDecls, Decl
<1>5. ASSUME NEW decl \in m.d.decls PROVE DeclOf(m.d, decl.key) \in m.d.decls /\ DeclOf(m.d, decl.key).key = decl.key
  BY DEF DeclOf
<1>6. ASSUME "Postgres" \in cs[k].infra PROVE "postgres" \in KeysOf(m.d.decls) /\ SubstrateOf(m, "postgres") = "postgres"
  <2>1. Decl("postgres", "postgres", "required") \in DefaultDecls(cs)
    BY <1>6 DEF DefaultDecls, cs
  <2>2. Decl("postgres", "postgres", "required").key = "postgres"
    BY DEF Decl
  <2>3. "postgres" \in KeysOf(m.d.decls)
    BY <1>1, <2>1, <2>2 DEF KeysOf
  <2>4. DeclOf(m.d, "postgres") \in m.d.decls /\ DeclOf(m.d, "postgres").key = "postgres"
    BY <1>1, <1>5, <2>1, <2>2
  <2>5. SubstrateOf(m, "postgres") = "postgres"
    BY <1>1, <1>2, <1>3, <1>4, <2>4 DEF SubstrateOf
  <2> QED BY <2>3, <2>5
<1>7. ASSUME "ExternalHTTP" \in cs[k].infra PROVE k \in KeysOf(m.d.decls) /\ SubstrateOf(m, k) = "external-http"
  <2>1. Decl(k, "external-http", "required") \in DefaultDecls(cs)
    BY <1>7 DEF DefaultDecls, cs
  <2>2. Decl(k, "external-http", "required").key = k
    BY DEF Decl
  <2>3. k \in KeysOf(m.d.decls)
    BY <1>1, <2>1, <2>2 DEF KeysOf
  <2>4. DeclOf(m.d, k) \in m.d.decls /\ DeclOf(m.d, k).key = k
    BY <1>1, <1>5, <2>1, <2>2
  <2>5. k \notin {"otel", "temporal", "postgres"}
    BY <1>2, <1>3 DEF cs
  <2>6. SubstrateOf(m, k) = "external-http"
    BY <1>1, <1>4, <2>4, <2>5 DEF SubstrateOf
  <2> QED BY <2>3, <2>6
<1> QED BY <1>1, <1>6, <1>7 DEF m

LEMMA NoSettings == [i \in 1 .. Cardinality({}) |-> "string"] = <<>>
<1>1. Cardinality({}) = 0
  BY FS_EmptySet
<1>2. 1 .. Cardinality({}) = {}
  BY <1>1
<1> QED BY <1>2

LEMMA DerivedCalls ==
    ASSUME NEW p, NEW L, WellMade(p), p.authored.containers = {},
           NEW b \in ModelAt(p, L).d.bindings, NEW q \in DefaultProfiles
    PROVE  ArmCall(ModelAt(p, L), p.knobs, b, q) \in Constructors(ModelAt(p, L).cs[b.comp])
<1> DEFINE m == ModelAt(p, L)
           k == b.comp
           name == b.per["cloud"].variant
           c == m.cs[k]
<1>1. /\ k \in Served(m.cs) /\ name \in c.infra \intersect {"Postgres", "ExternalHTTP"} /\ b.settings = {}
      /\ b.per[q].variant = name /\ b.per[q].infra = InfraKeys(k, name)
  BY DerivedBindings
<1>2. m.cs = At(p, L) /\ k \in DOMAIN m.cs /\ m.cs[k] = p.cs[k] /\ k \in DOMAIN p.cs
  <2>1. m.cs = At(p, L)
    BY AtIs
  <2>2. k \in DOMAIN m.cs
    BY <1>1 DEF Served
  <2>3. \A j \in DOMAIN At(p, L) : j \in DOMAIN p.cs /\ At(p, L)[j] = p.cs[j]
    BY AtIs
  <2> HIDE DEF m, k
  <2> QED BY <2>1, <2>2, <2>3
<1>3. c.layer \in {"resourceAccess", "utility"} /\ c.infra # {} /\ ~c.stub
  <2>1. p.cs[k].infra # {}
    BY <1>1, <1>2
  <2>2. p.cs[k].layer \in {"resourceAccess", "utility"}
    BY <1>2, <2>1, Zenon DEF WellMade, WellContracted
  <2>3. ~c.stub
    BY <1>1 DEF Served
  <2> QED BY <1>2, <2>1, <2>2, <2>3
<1>4. \A n \in c.infra : Call(n, InfraParams[n].args, InfraParams[n].err) \in Constructors(c)
  <2> HIDE DEF c
  <2> QED BY <1>3 DEF Constructors
<1>5. DOMAIN p.knobs.hooked = {} /\ p.knobs.noError = {}
  BY Zenon DEF WellMade
<1>6. /\ "Postgres" \in c.infra => SubstrateOf(m, "postgres") = "postgres"
      /\ "ExternalHTTP" \in c.infra => SubstrateOf(m, k) = "external-http"
  BY <1>1, <1>2, DerivedSubstrates
<1> HIDE DEF m, k, name, c
<1>7. CASE name = "Postgres"
  <2>1. b.per[q].infra = <<"postgres">> /\ b.per[q].variant = "Postgres"
    BY <1>1, <1>7 DEF InfraKeys
  <2>2. ~Hooked(p.knobs, b, q)
    BY <1>5, <2>1 DEF Hooked, External
  <2>3. ReturnsError(p.knobs, b, q) = TRUE
    <3>1. b.per[q].infra # <<>>
      BY <2>1
    <3> QED BY <1>5, <3>1 DEF ReturnsError
  <2>4. InfraArgs(m, "postgres") = <<"ctx", "pool">>
    BY <1>1, <1>6, <1>7 DEF InfraArgs
  <2>5. Each(b.per[q].infra, LAMBDA key : InfraArgs(m, key)) = <<"ctx", "pool">>
    <3>1. [i \in DOMAIN <<"postgres">> |-> InfraArgs(m, <<"postgres">>[i])] = << <<"ctx", "pool">> >>
      BY <2>4
    <3> QED BY <2>1, <3>1, FlattenOne DEF Each
  <2>6. ArmCall(m, p.knobs, b, q) = Call("Postgres", <<"ctx", "pool">> \o <<>>, TRUE)
    BY <1>1, <2>1, <2>2, <2>3, <2>5, NoSettings DEF ArmCall
  <2>7. <<"ctx", "pool">> \o <<>> = <<"ctx", "pool">>
    OBVIOUS
  <2>8. InfraParams["Postgres"].args = <<"ctx", "pool">> /\ InfraParams["Postgres"].err = TRUE
    BY DEF InfraParams
  <2> QED BY <1>1, <1>4, <1>7, <2>6, <2>7, <2>8 DEF m, c, k
<1>8. CASE name = "ExternalHTTP"
  <2>1. b.per[q].infra = <<k>> /\ b.per[q].variant = "ExternalHTTP"
    BY <1>1, <1>8 DEF InfraKeys
  <2>2. Hooked(p.knobs, b, q) /\ ReturnsError(p.knobs, b, q) = TRUE
    BY <2>1 DEF Hooked, External, ReturnsError
  <2>3. ExtraArgs(m, k) = <<>>
    BY <1>1, <1>6, <1>8 DEF ExtraArgs
  <2>4. Each(b.per[q].infra, LAMBDA key : ExtraArgs(m, key)) = <<>>
    <3>1. [i \in DOMAIN <<k>> |-> ExtraArgs(m, <<k>>[i])] = << <<>> >>
      BY <2>3
    <3> QED BY <2>1, <3>1, FlattenOne DEF Each
  <2>5. HookTypes(p.knobs, b, q) = <<"string", "*http.Client">>
    BY <1>5 DEF HookTypes
  <2>6. ArmCall(m, p.knobs, b, q) = Call("ExternalHTTP", <<>> \o <<"string", "*http.Client">>, TRUE)
    BY <2>1, <2>2, <2>4, <2>5 DEF ArmCall
  <2>7. <<>> \o <<"string", "*http.Client">> = <<"string", "*http.Client">>
    OBVIOUS
  <2>8. InfraParams["ExternalHTTP"].args = <<"string", "*http.Client">> /\ InfraParams["ExternalHTTP"].err = TRUE
    BY DEF InfraParams
  <2> QED BY <1>1, <1>4, <1>8, <2>6, <2>7, <2>8 DEF m, c, k
<1> QED BY <1>1, <1>7, <1>8

LEMMA NamesAt == ASSUME NEW p, NEW L, WellMade(p) PROVE NamesGood(ModelAt(p, L))
<1> DEFINE cs == At(p, L)
<1>1. ModelAt(p, L).cs = cs
  BY AtIs
<1>2. \A k \in DOMAIN cs : k \in DOMAIN p.cs /\ cs[k] = p.cs[k]
  BY AtIs
<1> HIDE DEF cs
<1>3. WellContracted(p.cs)
  BY DEF WellMade
<1>4. DOMAIN cs \intersect (OwnLocals \union OwnLeaves \union {""}) = {}
  BY <1>2, <1>3 DEF WellContracted
<1>5. \A k \in DOMAIN p.cs :
         /\ p.cs[k].pkg # <<>> => /\ p.cs[k].pkg = <<p.cs[k].pkg[1], p.cs[k].pkg[2]>>
                                 /\ Leaf(p.cs[k].pkg) \notin OwnLocals \union OwnLeaves \union DOMAIN p.cs
         /\ Pure(p.cs[k]) => p.cs[k].deps = <<>>
         /\ p.cs[k].layer = "manager" => ~p.cs[k].stub /\ p.cs[k].pkg # <<>>
  BY <1>3, Zenon DEF WellContracted
<1>6. \A j, k \in DOMAIN p.cs :
         p.cs[j].layer = "manager" /\ p.cs[k].layer = "manager" /\ Leaf(p.cs[j].pkg) = Leaf(p.cs[k].pkg) => j = k
  BY <1>3, Zenon DEF WellContracted
<1>7. DOMAIN cs \subseteq DOMAIN p.cs
  BY <1>2
<1>8. \A k \in DOMAIN cs :
         /\ cs[k].pkg # <<>> => /\ cs[k].pkg = <<cs[k].pkg[1], cs[k].pkg[2]>>
                               /\ Leaf(cs[k].pkg) \notin OwnLocals \union OwnLeaves \union DOMAIN cs
         /\ Pure(cs[k]) => cs[k].deps = <<>>
         /\ cs[k].layer = "manager" => ~cs[k].stub /\ cs[k].pkg # <<>>
  BY <1>2, <1>5, <1>7
<1>9. \A j, k \in DOMAIN cs :
         cs[j].layer = "manager" /\ cs[k].layer = "manager" /\ Leaf(cs[j].pkg) = Leaf(cs[k].pkg) => j = k
  BY <1>2, <1>6
<1> QED BY <1>1, <1>4, <1>8, <1>9 DEF NamesGood

LEMMA AuthoredBindings ==
    ASSUME NEW p, NEW L, WellMade(p), p.authored.containers # {}
    PROVE  BindingsGood(ModelAt(p, L), p.knobs)
<1> DEFINE m == ModelAt(p, L)
           w == Whole(p)
<1>1. m.d = p.authored /\ w.d = p.authored /\ m.cs = At(p, L) /\ w.cs = p.cs
  BY AtIs DEF Whole, EffectiveDeployment
<1>2. \A k \in DOMAIN At(p, L) : k \in DOMAIN p.cs /\ m.cs[k] = p.cs[k]
  <2>1. \A k \in DOMAIN At(p, L) : k \in DOMAIN p.cs /\ At(p, L)[k] = p.cs[k]
    BY AtIs, Zenon
  <2> HIDE DEF m, w
  <2> QED BY <1>1, <2>1
<1>3. WellDeployed(w, p.knobs)
  BY Zenon DEF WellMade
<1> HIDE DEF m, w
<1>4. ConfigRefusals(m.d) = {} /\ {"listenAddr", "shutdownTimeout"} \subseteq m.d.settings
  BY <1>1, <1>3, Zenon DEF WellDeployed
<1>5. Managers(m) # {} => HasTemporal(m)
  <2>1. SUFFICES ASSUME NEW k \in Managers(m) PROVE HasTemporal(m)
    OBVIOUS
  <2>2. k \in DOMAIN w.cs /\ w.cs[k].layer = "manager"
    BY <1>1, <1>2 DEF Managers, BuiltManagers
  <2>3. HasTemporal(w)
    BY <1>3, <2>2, Zenon DEF WellDeployed
  <2> QED BY <1>1, <2>3 DEF HasTemporal
<1>6. ASSUME NEW b \in Bound(m)
      PROVE  /\ m.cs[b.comp].layer \in {"resourceAccess", "utility"}
             /\ b.settings \subseteq m.d.settings /\ IsFiniteSet(b.settings)
             /\ \A q \in DOMAIN b.per : b.per[q].infra \in Seq(KeysOf(m.d.decls))
             /\ b \in Accesses(m) => ArmCalls(m, p.knobs, b) \subseteq Constructors(m.cs[b.comp])
  <2>1. b \in m.d.bindings /\ Constructible(m, b.comp) /\ b.comp \in DOMAIN m.cs
    BY DEF Bound, Constructible
  <2>2. b.comp \in DOMAIN p.cs /\ m.cs[b.comp] = p.cs[b.comp]
    BY <1>1, <1>2, <2>1
  <2>3. b \in w.d.bindings
    BY <1>1, <2>1
  <2>4. /\ w.cs[b.comp].layer \in {"resourceAccess", "utility"}
        /\ b.settings \subseteq w.d.settings /\ IsFiniteSet(b.settings)
        /\ \A q \in DOMAIN b.per : b.per[q].infra \in Seq(KeysOf(w.d.decls))
        /\ b \in Accesses(w) => ArmCalls(w, p.knobs, b) \subseteq Constructors(w.cs[b.comp])
    BY <1>3, <2>3, Zenon DEF WellDeployed
  <2>5. b \in Accesses(m) => b \in Accesses(w)
    BY <1>1, <2>1, <2>2 DEF Accesses, Bound, Constructible, LeftNil, Arms
  <2>6. ArmCalls(m, p.knobs, b) = ArmCalls(w, p.knobs, b)
    <3>1. Arms(m, b) = Arms(w, b)
      BY <1>1 DEF Arms
    <3>2. \A key : SubstrateOf(m, key) = SubstrateOf(w, key)
      BY <1>1 DEF SubstrateOf
    <3>3. ASSUME NEW q PROVE ArmCall(m, p.knobs, b, q) = ArmCall(w, p.knobs, b, q)
      <4> DEFINE infra == b.per[q].infra
      <4>1. \A key : InfraArgs(m, key) = InfraArgs(w, key) /\ ExtraArgs(m, key) = ExtraArgs(w, key)
        BY <3>2 DEF InfraArgs, ExtraArgs
      <4>2. /\ [i \in DOMAIN infra |-> InfraArgs(m, infra[i])] = [i \in DOMAIN infra |-> InfraArgs(w, infra[i])]
            /\ [i \in DOMAIN infra |-> ExtraArgs(m, infra[i])] = [i \in DOMAIN infra |-> ExtraArgs(w, infra[i])]
        BY <4>1
      <4> HIDE DEF infra
      <4> QED BY <4>2, Zenon DEF ArmCall, Each, infra
    <3> QED BY <3>1, <3>3 DEF ArmCalls
  <2> QED BY <1>1, <2>2, <2>4, <2>5, <2>6
<1>7. \A b, c \in Bound(m) : b.comp = c.comp => b = c
  <2>1. \A b, c \in w.d.bindings : b.comp = c.comp => b = c
    BY <1>3, Zenon DEF WellDeployed
  <2> QED BY <1>1, <2>1 DEF Bound
<1> QED BY <1>4, <1>5, <1>6, <1>7 DEF BindingsGood, m

LEMMA DerivedGood ==
    ASSUME NEW p, NEW L, WellMade(p), p.authored.containers = {}
    PROVE  BindingsGood(ModelAt(p, L), p.knobs)
<1> DEFINE m == ModelAt(p, L)
<1>1. /\ m.cs = At(p, L) /\ m.d.decls = DefaultDecls(m.cs) /\ m.d.profiles = DefaultProfiles
      /\ m.d.settings = DefaultSettings(p.sys)
  <2>1. m.cs = At(p, L)
    BY AtIs
  <2>2. /\ m.d.decls = DefaultDecls(At(p, L)) /\ m.d.profiles = DefaultProfiles
        /\ m.d.settings = DefaultSettings(p.sys)
    BY DerivedIs
  <2> HIDE DEF m
  <2> QED BY <2>1, <2>2
<1>2. \A k \in DOMAIN m.cs : k \in DOMAIN p.cs /\ m.cs[k] = p.cs[k]
  <2>1. \A k \in DOMAIN At(p, L) : k \in DOMAIN p.cs /\ At(p, L)[k] = p.cs[k]
    BY AtIs
  <2> HIDE DEF m
  <2> QED BY <1>1, <2>1
<1>3. \A b \in m.d.bindings, q \in DefaultProfiles : ArmCall(m, p.knobs, b, q) \in Constructors(m.cs[b.comp])
  BY DerivedCalls
<1>4. \A b \in m.d.bindings :
        /\ b.comp \in Served(m.cs) /\ b.per["cloud"].variant \in m.cs[b.comp].infra \intersect {"Postgres", "ExternalHTTP"}
        /\ b = DefaultBinding(b.comp, b.per["cloud"].variant)
        /\ b.settings = {} /\ DOMAIN b.per = DefaultProfiles
        /\ \A q \in DefaultProfiles : b.per[q].infra = InfraKeys(b.comp, b.per["cloud"].variant)
  BY DerivedBindings
<1>5. \A k \in Served(m.cs) : /\ "Postgres" \in m.cs[k].infra => "postgres" \in KeysOf(m.d.decls)
                              /\ "ExternalHTTP" \in m.cs[k].infra => k \in KeysOf(m.d.decls)
  BY <1>1, DerivedSubstrates
<1> HIDE DEF m
<1>6. ConfigRefusals(m.d) = {}
  <2>1. \A decl \in m.d.decls : decl.substrate \in KnownSubstrates
    BY <1>1 DEF DefaultDecls, Decl, KnownSubstrates
  <2>2. m.d.settings \intersect {"devPrincipal"} = {}
    BY <1>1 DEF DefaultSettings
  <2> QED BY <2>1, <2>2 DEF ConfigRefusals
<1>7. {"listenAddr", "shutdownTimeout"} \subseteq m.d.settings
  BY <1>1 DEF DefaultSettings
<1>8. Managers(m) # {} => HasTemporal(m)
  <2>1. SUFFICES ASSUME NEW k \in Managers(m) PROVE HasTemporal(m)
    OBVIOUS
  <2>2. k \in DOMAIN m.cs /\ m.cs[k].layer = "manager" /\ m.cs[k].pkg # <<>>
    BY DEF Managers, BuiltManagers, Constructible
  <2>3. ~m.cs[k].stub
    BY <1>2, <2>2, Zenon DEF WellMade, WellContracted
  <2>4. k \in Served(m.cs)
    BY <2>2, <2>3 DEF Served
  <2>5. Decl("temporal", "temporal", "required") \in m.d.decls
    BY <1>1, <2>2, <2>4 DEF DefaultDecls
  <2>6. Decl("temporal", "temporal", "required").substrate = "temporal"
    BY DEF Decl
  <2> QED BY <2>5, <2>6 DEF HasTemporal, OfSubstrate
<1>9. ASSUME NEW b \in Bound(m)
      PROVE  /\ m.cs[b.comp].layer \in {"resourceAccess", "utility"}
             /\ b.settings \subseteq m.d.settings /\ IsFiniteSet(b.settings)
             /\ \A q \in DOMAIN b.per : b.per[q].infra \in Seq(KeysOf(m.d.decls))
             /\ b \in Accesses(m) => ArmCalls(m, p.knobs, b) \subseteq Constructors(m.cs[b.comp])
  <2>1. b \in m.d.bindings
    BY DEF Bound
  <2>2. b.comp \in DOMAIN m.cs /\ m.cs[b.comp].infra # {} /\ b.comp \in Served(m.cs)
    BY <1>4, <2>1 DEF Served
  <2>3. m.cs[b.comp].layer \in {"resourceAccess", "utility"}
    BY <1>2, <2>2, Zenon DEF WellMade, WellContracted
  <2>4. b.settings \subseteq m.d.settings /\ IsFiniteSet(b.settings)
    BY <1>4, <2>1, FS_EmptySet
  <2>5. ASSUME NEW q \in DOMAIN b.per PROVE b.per[q].infra \in Seq(KeysOf(m.d.decls))
    <3>1. b.per[q].infra = InfraKeys(b.comp, b.per["cloud"].variant)
      BY <1>4, <2>1
    <3>2. CASE b.per["cloud"].variant = "Postgres"
      <4>1. "postgres" \in KeysOf(m.d.decls)
        BY <1>4, <1>5, <2>1, <2>2, <3>2
      <4> QED BY <3>1, <3>2, <4>1 DEF InfraKeys
    <3>3. CASE b.per["cloud"].variant = "ExternalHTTP"
      <4>1. b.comp \in KeysOf(m.d.decls)
        BY <1>4, <1>5, <2>1, <2>2, <3>3
      <4> QED BY <3>1, <3>3, <4>1 DEF InfraKeys
    <3> QED BY <1>4, <2>1, <3>2, <3>3
  <2>6. ArmCalls(m, p.knobs, b) \subseteq Constructors(m.cs[b.comp])
    <3>1. Arms(m, b) = DefaultProfiles /\ Arms(m, b) # {}
      BY <1>1, <1>4, <2>1 DEF Arms, DefaultProfiles
    <3> QED BY <1>3, <2>1, <3>1 DEF ArmCalls
  <2> QED BY <2>3, <2>4, <2>5, <2>6
<1>10. ASSUME NEW b \in Bound(m), NEW c \in Bound(m), b.comp = c.comp PROVE b = c
  <2> DEFINE k == b.comp
             x == b.per["cloud"].variant
             y == c.per["cloud"].variant
  <2>1. b \in m.d.bindings /\ c \in m.d.bindings
    BY DEF Bound
  <2>2. /\ k \in Served(m.cs) /\ x \in m.cs[k].infra \intersect {"Postgres", "ExternalHTTP"}
        /\ y \in m.cs[k].infra \intersect {"Postgres", "ExternalHTTP"}
        /\ b = DefaultBinding(k, x) /\ c = DefaultBinding(k, y)
    BY <1>4, <1>10, <2>1, Zenon
  <2> HIDE DEF k, x, y
  <2>3. k \in Served(p.cs) /\ m.cs[k] = p.cs[k]
    BY <1>2, <2>2 DEF Served
  <2>4. ~({"Postgres", "ExternalHTTP"} \subseteq m.cs[k].infra)
    BY <2>3, Zenon DEF WellMade, BoundOnce
  <2>5. x = y
    BY <2>2, <2>4
  <2> QED BY <2>2, <2>5
<1> QED BY <1>6, <1>7, <1>8, <1>9, <1>10 DEF BindingsGood, m

LEMMA GoodAt == ASSUME NEW p, NEW L, WellMade(p) PROVE Good(ModelAt(p, L), p.knobs)
<1>1. KnobsPlain(p.knobs)
  BY Zenon DEF WellMade, WellHooked, KnobsPlain
<1>2. BindingsGood(ModelAt(p, L), p.knobs)
  BY AuthoredBindings, DerivedGood
<1> QED BY <1>1, <1>2, NamesAt DEF Good

LEMMA WellNamedAt ==
    ASSUME NEW p, NEW L, NEW keys \in SUBSET DOMAIN ModelAt(p, L).cs, NEW pkg, WellNamed(p.cs, keys, pkg)
    PROVE  WellNamed(ModelAt(p, L).cs, DOMAIN ModelAt(p, L).cs, pkg)
<1> DEFINE cs == ModelAt(p, L).cs
<1>1. \A k \in DOMAIN cs : k \in DOMAIN p.cs /\ cs[k] = p.cs[k]
  <2>1. cs = At(p, L) /\ \A k \in DOMAIN At(p, L) : k \in DOMAIN p.cs /\ At(p, L)[k] = p.cs[k]
    BY AtIs
  <2> HIDE DEF cs
  <2> QED BY <2>1
<1>2. keys \subseteq DOMAIN cs
  OBVIOUS
<1> HIDE DEF cs
<1>3. CASE NamedApart(p.cs, pkg)
  BY <1>1, <1>3 DEF NamedApart, WellNamed, cs
<1>4. CASE NamedByLeaf(p.cs, keys, pkg)
  <2>1. NamedByLeaf(cs, DOMAIN cs, pkg)
    BY <1>1, <1>2, <1>4 DEF NamedByLeaf
  <2> QED BY <2>1 DEF WellNamed, cs
<1> QED BY <1>3, <1>4 DEF WellNamed

\* What the types of the hooks name of the components has landed with them.
LEMMA HooksAt ==
    ASSUME NEW p, NEW L, WellMade(p), RootRefusals(ModelAt(p, L), p.knobs) = {}
    PROVE  HooksGood(ModelAt(p, L), p.knobs)
<1> DEFINE m == ModelAt(p, L)
           Told(pkg) == WellNamed(m.cs, DOMAIN m.cs, pkg)
<1>1. Good(m, p.knobs) /\ WellHooked(p.cs, p.knobs)
  BY GoodAt, Zenon DEF WellMade
<1>2. ASSUME NEW b \in Accesses(m), NEW q \in Arms(m, b), NEW pkg \in HookImports(p.knobs, b, q) PROVE Told(pkg)
  <2> DEFINE x == <<b.comp, b.per[q].variant>>
  <2>1. CASE x \in DOMAIN p.knobs.hooked
    <3>1. pkg \in p.knobs.imports[x]
      BY <1>2, <2>1 DEF HookImports
    <3>2. WellNamed(p.cs, {x[1]}, pkg)
      <4> HIDE DEF x
      <4> QED BY <1>1, <2>1, <3>1, Zenon DEF WellHooked
    <3>3. {x[1]} \in SUBSET DOMAIN m.cs
      BY <1>1, KindsApart
    <3> HIDE DEF x
    <3> QED BY <3>2, <3>3, WellNamedAt
  <2>2. CASE x \notin DOMAIN p.knobs.hooked
    <3>1. pkg = Outside("http")
      BY <1>2, <2>2 DEF HookImports
    <3>2. pkg[2] = "http"
      BY <3>1 DEF Outside
    <3>3. "http" \in OwnLeaves /\ "http" \notin OwnLocals \union Renamed
      BY DEF OwnLeaves, OwnLocals, Given, Renamed
    <3>4. "http" \notin DOMAIN m.cs
      BY <1>1, <3>3, KindsApart
    <3>5. \A k \in DOMAIN m.cs : m.cs[k].pkg # <<>> => Leaf(m.cs[k].pkg) # "http"
      BY <1>1, <3>3, Zenon DEF Good, NamesGood
    <3> HIDE DEF m
    <3> QED BY <3>1, <3>2, <3>3, <3>4, <3>5 DEF WellNamed, NamedApart
  <2> QED BY <2>1, <2>2
<1>3. ASSUME NEW k \in Managers(m), NEW dep \in ToSet(m.cs[k].deps), FromHook(m, dep), dep.import # <<>>
      PROVE  Told(dep.import)
  <2>1. Takes(m.cs[k]) \subseteq Valued(m)
    BY <1>1, ManagersServed
  <2>2. Valued(m) \subseteq DOMAIN m.cs
    BY DEF Valued, Bound, Constructible, Engines
  <2>3. k \in DOMAIN m.cs /\ m.cs[k].layer = "manager"
    BY <1>1, KindsApart
  <2>4. k \in DOMAIN p.cs /\ m.cs[k] = p.cs[k]
    <3>1. m.cs = At(p, L) /\ \A x \in DOMAIN At(p, L) : x \in DOMAIN p.cs /\ At(p, L)[x] = p.cs[x]
      BY AtIs
    <3> HIDE DEF m
    <3> QED BY <2>3, <3>1
  <2>5. dep.comp = ""
    BY <1>3 DEF FromHook
  <2> HIDE DEF m
  <2>6. WellNamed(p.cs, Takes(p.cs[k]), dep.import)
    BY <1>1, <1>3, <2>3, <2>4, <2>5, Zenon DEF WellHooked
  <2>7. Takes(p.cs[k]) \in SUBSET DOMAIN m.cs
    BY <2>1, <2>2, <2>4
  <2> QED BY <2>6, <2>7, WellNamedAt DEF m
<1> HIDE DEF m
<1>4. ASSUME NEW pkg \in HookPackages(m, p.knobs) PROVE Told(pkg)
  <2>1. CASE \E b \in Accesses(m) : \E q \in Arms(m, b) : pkg \in HookImports(p.knobs, b, q)
    BY <1>2, <2>1
  <2>2. CASE \E k \in Managers(m) : \E dep \in ToSet(m.cs[k].deps) :
               FromHook(m, dep) /\ dep.import # <<>> /\ pkg = dep.import
    BY <1>3, <2>2
  <2> DEFINE Named(b) == UNION {HookImports(p.knobs, b, q) : q \in {q \in Arms(m, b) : Hooked(p.knobs, b, q)}}
             Asked(k) == {dep.import : dep \in {dep \in ToSet(m.cs[k].deps) : FromHook(m, dep)}}
  <2>3. HookPackages(m, p.knobs)
          = (UNION {Named(b) : b \in Accesses(m)}) \union ((UNION {Asked(k) : k \in Managers(m)}) \ {<<>>})
    BY DEF HookPackages
  <2>4. CASE \E b \in Accesses(m) : pkg \in Named(b)
    BY <2>1, <2>4
  <2>5. CASE \E k \in Managers(m) : pkg \in Asked(k) /\ pkg # <<>>
    BY <2>2, <2>5
  <2> HIDE DEF Named, Asked
  <2> QED BY <2>3, <2>4, <2>5
<1> QED BY <1>4 DEF HooksGood, m

-----------------------------------------------------------------------------
TreeShape == DOMAIN tree = {"config", "root", "plan", "clients", "workers"}

(* What the commands wrote last, and the root that was composed before      *)

\* What each command wrote serves what had landed in L.
ConfigServes(p, t, L) == ConfigFields(ModelAt(p, L).d) \subseteq t.config
ClientsServe(p, t, L) == ClientPackages(ModelAt(p, L), p.knobs) \subseteq t.clients
WorkersServe(p, t, L) ==
    \A k \in Managers(ModelAt(p, L)) :
      /\ k \in DOMAIN t.workers
      /\ \A dep \in Takes(p.cs[k]) :
           Constructible(ModelAt(p, L), dep) /\ p.cs[dep].layer \in {"resourceAccess", "utility"}
             => dep \in t.workers[k]

\* A command has caught up with L, or will before the four are done.
Pending(command) == command \notin done /\ "compose" \in done
CaughtUp(L) == /\ ConfigServes(project, tree, L) \/ Pending("config")
               /\ ClientsServe(project, tree, L) \/ Pending("clients")
               /\ WorkersServe(project, tree, L) \/ Pending("temporal")

RootFrom(L) == /\ RootRefusals(ModelAt(project, L), project.knobs) = {}
               /\ tree.root = Root(ModelAt(project, L), project.knobs)
               /\ CaughtUp(L)

RootInv ==
    /\ tree.clients \subseteq ClientPackages(ModelAt(project, landed), project.knobs)
    /\ "config" \in done => ConfigServes(project, tree, landed)
    /\ "clients" \in done => ClientsServe(project, tree, landed)
    /\ "temporal" \in done => WorkersServe(project, tree, landed)
    /\ tree.root # NoRoot => \E L \in SUBSET landed : RootFrom(L)

LEMMA ModelGrows ==
    ASSUME NEW p, NEW L, NEW K \in SUBSET L
    PROVE  /\ DOMAIN ModelAt(p, K).cs \subseteq DOMAIN ModelAt(p, L).cs
           /\ \A x \in DOMAIN ModelAt(p, K).cs : /\ ModelAt(p, L).cs[x] = ModelAt(p, K).cs[x]
                                                /\ ModelAt(p, K).cs[x] = p.cs[x] /\ x \in DOMAIN p.cs
<1>1. ModelAt(p, K).cs = At(p, K) /\ ModelAt(p, L).cs = At(p, L)
  BY AtIs
<1>2. \A x \in DOMAIN At(p, K) : x \in DOMAIN p.cs /\ At(p, K)[x] = p.cs[x]
  BY AtIs
<1>3. DOMAIN At(p, K) \subseteq DOMAIN At(p, L) /\ \A k \in DOMAIN At(p, K) : At(p, L)[k] = At(p, K)[k]
  BY AtGrows
<1> QED BY <1>1, <1>2, <1>3

LEMMA ClientsGrow ==
    ASSUME NEW p, NEW L, NEW K \in SUBSET L
    PROVE  /\ ClientPackages(ModelAt(p, K), p.knobs) \subseteq ClientPackages(ModelAt(p, L), p.knobs)
           /\ ClientPackages(ModelAt(p, L), p.knobs) \subseteq ClientPackages(Whole(p), p.knobs)
<1> DEFINE k == ModelAt(p, K)
           l == ModelAt(p, L)
           w == Whole(p)
           E(m) == ExposedManagers(m, p.knobs)
<1>1. E(k) \subseteq E(l) /\ E(l) \subseteq E(w)
  BY ExposedAt, AtGrows
<1>2. \A x \in E(k) : k.cs[x] = l.cs[x] /\ MachineClients(k, p.knobs, x) = MachineClients(l, p.knobs, x)
  <2>1. /\ k.cs = At(p, K) /\ DOMAIN k.cs \subseteq DOMAIN l.cs /\ l.cs = At(p, L)
        /\ \A x \in DOMAIN k.cs : l.cs[x] = k.cs[x]
    <3>1. k.cs = At(p, K) /\ l.cs = At(p, L)
      BY AtIs
    <3>2. DOMAIN k.cs \subseteq DOMAIN l.cs /\ \A x \in DOMAIN k.cs : l.cs[x] = k.cs[x]
      BY ModelGrows
    <3> QED BY <3>1, <3>2
  <2>2. /\ E(k) = E(w) \intersect DOMAIN At(p, K)
        /\ \A x \in DOMAIN At(p, K) : MachineClients(k, p.knobs, x) = MachineClients(w, p.knobs, x)
    BY ExposedAt
  <2>3. \A x \in DOMAIN At(p, L) : MachineClients(l, p.knobs, x) = MachineClients(w, p.knobs, x)
    BY ExposedAt
  <2> HIDE DEF k, l, w
  <2> QED BY <2>1, <2>2, <2>3
<1>3. \A x \in E(l) : l.cs[x] = w.cs[x] /\ MachineClients(l, p.knobs, x) = MachineClients(w, p.knobs, x)
  <2>1. l.cs = At(p, L) /\ w.cs = p.cs /\ \A x \in DOMAIN At(p, L) : At(p, L)[x] = p.cs[x]
    BY AtIs DEF Whole
  <2>2. /\ E(l) = E(w) \intersect DOMAIN At(p, L)
        /\ \A x \in DOMAIN At(p, L) : MachineClients(l, p.knobs, x) = MachineClients(w, p.knobs, x)
    BY ExposedAt
  <2> HIDE DEF l, w
  <2> QED BY <2>1, <2>2
<1> HIDE DEF k, l, w
<1>4. ASSUME NEW a, NEW b, E(a) \subseteq E(b),
             \A x \in E(a) : a.cs[x] = b.cs[x] /\ MachineClients(a, p.knobs, x) = MachineClients(b, p.knobs, x)
      PROVE  ClientPackages(a, p.knobs) \subseteq ClientPackages(b, p.knobs)
  <2>1. SUFFICES ASSUME NEW g \in ClientPackages(a, p.knobs) PROVE g \in ClientPackages(b, p.knobs)
    OBVIOUS
  <2>2. CASE g \in {Generated(<<"web", Leaf(a.cs[x].pkg)>>, x) : x \in E(a)}
    <3>1. PICK x \in E(a) : g = Generated(<<"web", Leaf(a.cs[x].pkg)>>, x)
      BY <2>2
    <3>2. x \in E(b) /\ g = Generated(<<"web", Leaf(b.cs[x].pkg)>>, x)
      BY <1>4, <3>1
    <3> QED BY <3>2 DEF ClientPackages
  <2>3. ASSUME NEW x \in E(a), NEW id \in MachineClients(a, p.knobs, x), g = Generated(<<id, Leaf(a.cs[x].pkg)>>, x)
        PROVE  g \in ClientPackages(b, p.knobs)
    <3>1. x \in E(b) /\ id \in MachineClients(b, p.knobs, x) /\ g = Generated(<<id, Leaf(b.cs[x].pkg)>>, x)
      BY <1>4, <2>3
    <3>2. g \in {Generated(<<i, Leaf(b.cs[x].pkg)>>, x) : i \in MachineClients(b, p.knobs, x)}
      BY <3>1
    <3>3. g \in UNION {{Generated(<<i, Leaf(b.cs[y].pkg)>>, y) : i \in MachineClients(b, p.knobs, y)} : y \in E(b)}
      BY <3>1, <3>2
    <3> QED BY <3>3, Zenon DEF ClientPackages
  <2>4. CASE E(a) # {} /\ g = Generated(<<"client", "web">>, "")
    BY <1>4, <2>4 DEF ClientPackages
  <2>5. \/ g \in {Generated(<<"web", Leaf(a.cs[x].pkg)>>, x) : x \in E(a)}
        \/ g \in UNION {{Generated(<<id, Leaf(a.cs[x].pkg)>>, x) : id \in MachineClients(a, p.knobs, x)} : x \in E(a)}
        \/ E(a) # {} /\ g = Generated(<<"client", "web">>, "")
    BY <2>1 DEF ClientPackages
  <2> QED BY <2>2, <2>3, <2>4, <2>5
<1> QED BY <1>1, <1>2, <1>3, <1>4 DEF k, l, w

LEMMA ServeLess ==
    ASSUME NEW p, NEW t, NEW L, NEW K \in SUBSET L
    PROVE  /\ ConfigServes(p, t, L) => ConfigServes(p, t, K)
           /\ ClientsServe(p, t, L) => ClientsServe(p, t, K)
           /\ WorkersServe(p, t, L) => WorkersServe(p, t, K)
<1>1. ConfigServes(p, t, L) => ConfigServes(p, t, K)
  BY FieldsGrow DEF ConfigServes
<1>2. ClientsServe(p, t, L) => ClientsServe(p, t, K)
  BY ClientsGrow DEF ClientsServe
<1>3. WorkersServe(p, t, L) => WorkersServe(p, t, K)
  <2> DEFINE k == ModelAt(p, K)
             l == ModelAt(p, L)
  <2>1. DOMAIN k.cs \subseteq DOMAIN l.cs /\ \A x \in DOMAIN k.cs : l.cs[x] = k.cs[x]
    BY ModelGrows
  <2> HIDE DEF k, l
  <2>2. Managers(k) \subseteq Managers(l) /\ \A x : Constructible(k, x) => Constructible(l, x)
    BY <2>1 DEF Managers, BuiltManagers, Constructible
  <2> QED BY <2>2 DEF WorkersServe, k, l
<1> QED BY <1>1, <1>2, <1>3

LEMMA WorkersMade ==
    ASSUME WellMade(project), TreeShape, tree' = [tree EXCEPT !.workers = Regenerated(Workers(Model(TRUE), project.knobs), @)],
           UNCHANGED <<project, landed>>
    PROVE  WorkersServe(project', tree', landed')
<1> DEFINE m == ModelAt(project, landed)
           l == Model(TRUE)
           made == Workers(l, project.knobs)
<1>1. l = ModelAt(project, landed \union contracts)
  BY ModelIs
<1>2. tree'.workers = Regenerated(made, tree.workers)
  BY DEF TreeShape
<1>3. DOMAIN m.cs \subseteq DOMAIN l.cs /\ \A x \in DOMAIN m.cs : l.cs[x] = m.cs[x] /\ l.cs[x] = project.cs[x] /\ x \in DOMAIN project.cs
  <2>1. landed \in SUBSET (landed \union contracts)
    OBVIOUS
  <2>2. /\ DOMAIN m.cs \subseteq DOMAIN ModelAt(project, landed \union contracts).cs
        /\ \A x \in DOMAIN m.cs : /\ ModelAt(project, landed \union contracts).cs[x] = m.cs[x]
                                 /\ m.cs[x] = project.cs[x] /\ x \in DOMAIN project.cs
    BY <2>1, ModelGrows
  <2> HIDE DEF m, l
  <2> QED BY <1>1, <2>2
<1> HIDE DEF m, l
<1>4. Managers(m) \subseteq Managers(l) /\ \A x : Constructible(m, x) => Constructible(l, x)
  BY <1>3 DEF Managers, BuiltManagers, Constructible
<1>5. ASSUME NEW k \in Managers(m)
      PROVE  /\ k \in DOMAIN tree'.workers
             /\ \A dep \in Takes(project.cs[k]) :
                  Constructible(m, dep) /\ project.cs[dep].layer \in {"resourceAccess", "utility"}
                    => dep \in tree'.workers[k]
  <2>1. k \in DOMAIN m.cs /\ k \in DOMAIN project.cs /\ k \in DOMAIN l.cs /\ l.cs[k] = project.cs[k]
    BY <1>3 DEF Managers, BuiltManagers
  <2>2. l.cs[k].layer = "manager" /\ l.cs[k].pkg # <<>>
    BY <1>4 DEF Managers, BuiltManagers, Constructible
  <2>3. project.knobs.managers.given => k \in project.knobs.managers.keys
    <3>1. SurfacesAgree(Whole(project), project.knobs) /\ Whole(project).cs = project.cs
      BY Zenon DEF WellMade, Whole
    <3> QED BY <2>1, <2>2, <3>1 DEF SurfacesAgree
  <2>4. k \in TemporalManagers(l, project.knobs)
    BY <2>1, <2>2, <2>3 DEF TemporalManagers
  <2>5. k \in DOMAIN made /\ made[k] = ActivityDeps(l, k)
    BY <2>4 DEF Workers
  <2> HIDE DEF made
  <2>6. k \in DOMAIN tree'.workers /\ tree'.workers[k] = ActivityDeps(l, k)
    BY <1>2, <2>5 DEF Regenerated
  <2>7. ASSUME NEW dep \in Takes(project.cs[k]), Constructible(m, dep), project.cs[dep].layer \in {"resourceAccess", "utility"}
        PROVE  dep \in ActivityDeps(l, k)
    <3>1. dep \in DOMAIN m.cs /\ Constructible(l, dep)
      BY <1>4, <2>7 DEF Constructible
    <3>2. l.cs[dep] = project.cs[dep]
      BY <1>3, <3>1
    <3> QED BY <2>1, <2>7, <3>1, <3>2 DEF ActivityDeps
  <2> QED BY <2>6, <2>7
<1> QED BY <1>5 DEF WorkersServe, m

\* Nothing but compose writes the root; the others catch up.
LEMMA RootStays ==
    ASSUME RootInv, tree'.root = tree.root, UNCHANGED <<project, landed>>, done \subseteq done',
           \A L \in SUBSET landed : /\ ConfigServes(project, tree, L) => ConfigServes(project', tree', L)
                                    /\ ClientsServe(project, tree, L) => ClientsServe(project', tree', L)
                                    /\ WorkersServe(project, tree, L) => WorkersServe(project', tree', L),
           "config" \in done' \ done => ConfigServes(project', tree', landed'),
           "clients" \in done' \ done => ClientsServe(project', tree', landed'),
           "temporal" \in done' \ done => WorkersServe(project', tree', landed'),
           "compose" \in done' => "compose" \in done,
           tree'.clients \subseteq ClientPackages(ModelAt(project, landed), project.knobs)
    PROVE  RootInv'
<1>1. /\ "config" \in done' => ConfigServes(project', tree', landed')
      /\ "clients" \in done' => ClientsServe(project', tree', landed')
      /\ "temporal" \in done' => WorkersServe(project', tree', landed')
  BY DEF RootInv
<1>2. ASSUME NEW L \in SUBSET landed, RootFrom(L) PROVE RootFrom(L)'
  <2>1. /\ ConfigServes(project', tree', landed') => ConfigServes(project', tree', L)
        /\ ClientsServe(project', tree', landed') => ClientsServe(project', tree', L)
        /\ WorkersServe(project', tree', landed') => WorkersServe(project', tree', L)
    <3>1. L \in SUBSET landed'
      OBVIOUS
    <3> QED BY <3>1, ServeLess
  <2>2. /\ ConfigServes(project', tree', L) \/ Pending("config")'
        /\ ClientsServe(project', tree', L) \/ Pending("clients")'
        /\ WorkersServe(project', tree', L) \/ Pending("temporal")'
    BY <1>1, <1>2, <2>1 DEF RootFrom, CaughtUp, Pending
  <2> QED BY <1>2, <2>2 DEF RootFrom, CaughtUp
<1>3. tree'.root # NoRoot => \E L \in SUBSET landed' : RootFrom(L)'
  BY <1>2 DEF RootInv
<1> QED BY <1>1, <1>3 DEF RootInv

LEMMA ConfigKeeps == ASSUME RootInv, TreeShape, WellMade(project), GenConfig PROVE RootInv'
<1> DEFINE m == Model(FALSE)
<1>1. m = ModelAt(project, landed)
  BY ModelIs
<1>2. ConfigRefusals(m.d) = {}
  BY <1>1, GoodAt, Zenon DEF Good, BindingsGood
<1> HIDE DEF m
<1>3. /\ tree' = [tree EXCEPT !.config = ConfigFields(m.d)]
      /\ UNCHANGED <<project, landed>> /\ done' = done \union {"config"}
  BY <1>2 DEF GenConfig, Turn, m
<1>4. /\ tree'.config = ConfigFields(m.d) /\ tree'.root = tree.root
      /\ tree'.clients = tree.clients /\ tree'.workers = tree.workers
  BY <1>3 DEF TreeShape
<1>5. ConfigServes(project', tree', landed')
  BY <1>1, <1>3, <1>4 DEF ConfigServes
<1>6. ASSUME NEW L \in SUBSET landed
      PROVE  /\ ConfigServes(project', tree', L)
             /\ ClientsServe(project, tree, L) => ClientsServe(project', tree', L)
             /\ WorkersServe(project, tree, L) => WorkersServe(project', tree', L)
  <2>1. ConfigServes(project', tree', L)
    BY <1>3, <1>5, ServeLess
  <2> QED BY <1>3, <1>4, <2>1 DEF ClientsServe, WorkersServe
<1> QED BY <1>3, <1>4, <1>5, <1>6, RootStays DEF RootInv

LEMMA ClientsKeep == ASSUME RootInv, TreeShape, WellMade(project), GenClients PROVE RootInv'
<1> DEFINE m == Model(FALSE)
<1>1. m = ModelAt(project, landed)
  BY ModelIs
<1>2. ClientRefusals(m, project.knobs) = {}
  <2>1. \A k \in ExposedManagers(m, project.knobs) :
          k \in DOMAIN project.cs /\ m.cs[k] = project.cs[k] /\ project.cs[k].layer = "manager"
    <3>1. ExposedManagers(ModelAt(project, landed), project.knobs)
            = ExposedManagers(Whole(project), project.knobs) \intersect DOMAIN At(project, landed)
      BY ExposedAt
    <3>2. \A k \in ExposedManagers(Whole(project), project.knobs) : project.cs[k].layer = "manager"
      <4>1. SurfacesAgree(Whole(project), project.knobs) /\ Whole(project).cs = project.cs
        BY Zenon DEF WellMade, Whole
      <4> QED BY <4>1 DEF SurfacesAgree
    <3>3. \A k \in DOMAIN At(project, landed) : k \in DOMAIN project.cs /\ At(project, landed)[k] = project.cs[k]
      BY AtIs
    <3>4. m.cs = At(project, landed)
      BY <1>1, AtIs
    <3> HIDE DEF m
    <3> QED BY <1>1, <3>1, <3>2, <3>3, <3>4
  <2>2. \A k \in DOMAIN project.cs : project.cs[k].layer = "manager" => project.cs[k].pkg # <<>>
    BY Zenon DEF WellMade, WellContracted
  <2> HIDE DEF m
  <2> QED BY <2>1, <2>2 DEF ClientRefusals
<1> HIDE DEF m
<1>3. /\ tree' = [tree EXCEPT !.clients = @ \union ClientPackages(m, project.knobs)]
      /\ UNCHANGED <<project, landed>> /\ done' = done \union {"clients"}
  BY <1>2 DEF GenClients, Turn, m
<1>4. /\ tree'.clients = tree.clients \union ClientPackages(m, project.knobs) /\ tree'.root = tree.root
      /\ tree'.config = tree.config /\ tree'.workers = tree.workers
  BY <1>3 DEF TreeShape
<1>5. ClientsServe(project', tree', landed')
  BY <1>1, <1>3, <1>4 DEF ClientsServe
<1>6. ASSUME NEW L \in SUBSET landed
      PROVE  /\ ConfigServes(project, tree, L) => ConfigServes(project', tree', L)
             /\ ClientsServe(project', tree', L)
             /\ WorkersServe(project, tree, L) => WorkersServe(project', tree', L)
  <2>1. ClientsServe(project', tree', L)
    BY <1>3, <1>5, ServeLess
  <2> QED BY <1>3, <1>4, <2>1 DEF ConfigServes, WorkersServe
<1>7. tree'.clients \subseteq ClientPackages(ModelAt(project, landed), project.knobs)
  BY <1>1, <1>4 DEF RootInv
<1> QED BY <1>3, <1>4, <1>5, <1>6, <1>7, RootStays

LEMMA TemporalKeeps == ASSUME RootInv, TreeShape, WellMade(project), GenTemporal PROVE RootInv'
<1>1. /\ tree' = [tree EXCEPT !.workers = Regenerated(Workers(Model(TRUE), project.knobs), @)]
      /\ UNCHANGED <<project, landed>> /\ done' = done \union {"temporal"}
  BY DEF GenTemporal, Turn
<1>2. tree'.clients = tree.clients /\ tree'.root = tree.root /\ tree'.config = tree.config
  BY <1>1 DEF TreeShape
<1>3. WorkersServe(project', tree', landed')
  BY <1>1, WorkersMade
<1>4. ASSUME NEW L \in SUBSET landed
      PROVE  /\ ConfigServes(project, tree, L) => ConfigServes(project', tree', L)
             /\ ClientsServe(project, tree, L) => ClientsServe(project', tree', L)
             /\ WorkersServe(project', tree', L)
  <2>1. WorkersServe(project', tree', L)
    BY <1>1, <1>3, ServeLess
  <2> QED BY <1>1, <1>2, <2>1 DEF ConfigServes, ClientsServe
<1> QED BY <1>1, <1>2, <1>3, <1>4, RootStays DEF RootInv

LEMMA ComposeKeeps == ASSUME RootInv, TreeShape, GenCompose PROVE RootInv'
<1> DEFINE m == ModelAt(project, landed)
           root == Root(m, project.knobs)
<1>1. UNCHANGED <<project, landed>> /\ done' = done \union {"compose"}
  BY DEF GenCompose, Turn
<1>2. \/ tree' = tree
      \/ /\ RootRefusals(m, project.knobs) = {}
         /\ tree' = [tree EXCEPT !.root = root, !.plan = LauncherPlan(m.d)]
  BY ModelIs DEF GenCompose
<1> HIDE DEF m, root
<1>3. tree'.clients = tree.clients /\ tree'.config = tree.config /\ tree'.workers = tree.workers
  BY <1>2 DEF TreeShape
<1>4. \A L : /\ ConfigServes(project, tree, L) => ConfigServes(project', tree', L)
             /\ ClientsServe(project, tree, L) => ClientsServe(project', tree', L)
             /\ WorkersServe(project, tree, L) => WorkersServe(project', tree', L)
  BY <1>1, <1>3 DEF ConfigServes, ClientsServe, WorkersServe
<1>5. tree'.root # NoRoot => \E L \in SUBSET landed' : RootFrom(L)'
  <2>1. CASE tree' = tree
    <3>1. ASSUME NEW L \in SUBSET landed, RootFrom(L) PROVE RootFrom(L)'
      BY <1>1, <1>4, <2>1, <3>1 DEF RootFrom, CaughtUp, Pending
    <3> QED BY <1>1, <2>1, <3>1 DEF RootInv
  <2>2. CASE /\ RootRefusals(m, project.knobs) = {}
             /\ tree' = [tree EXCEPT !.root = root, !.plan = LauncherPlan(m.d)]
    <3>1. tree'.root = root
      BY <2>2 DEF TreeShape
    <3>2. /\ ConfigServes(project', tree', landed) \/ Pending("config")'
          /\ ClientsServe(project', tree', landed) \/ Pending("clients")'
          /\ WorkersServe(project', tree', landed) \/ Pending("temporal")'
      BY <1>1, <1>4 DEF RootInv, Pending
    <3>3. RootFrom(landed)'
      BY <1>1, <2>2, <3>1, <3>2 DEF RootFrom, CaughtUp, root, m
    <3> QED BY <1>1, <3>3
  <2> QED BY <1>2, <2>1, <2>2
<1> QED BY <1>1, <1>3, <1>4, <1>5 DEF RootInv

\* Nothing changes before the four have been run.
LEMMA ChangeKeeps ==
    ASSUME RootInv, Change, UNCHANGED <<project, tree>>, landed \subseteq landed'
    PROVE  RootInv'
<1>1. done' = {} /\ \A c \in Commands : ~Pending(c)
  BY DEF Change, Fresh, Pending, Commands
<1>2. ASSUME NEW L \in SUBSET landed, RootFrom(L) PROVE RootFrom(L)'
  <2>1. ConfigServes(project, tree, L) /\ ClientsServe(project, tree, L) /\ WorkersServe(project, tree, L)
    BY <1>1, <1>2 DEF RootFrom, CaughtUp, Commands
  <2>2. ConfigServes(project', tree', L) /\ ClientsServe(project', tree', L) /\ WorkersServe(project', tree', L)
    BY <2>1
  <2> QED BY <1>2, <2>2 DEF RootFrom, CaughtUp
<1>3. ClientPackages(ModelAt(project, landed), project.knobs)
        \subseteq ClientPackages(ModelAt(project, landed'), project.knobs)
  BY ClientsGrow
<1>4. tree'.clients \subseteq ClientPackages(ModelAt(project', landed'), project'.knobs)
  BY <1>3 DEF RootInv
<1> QED BY <1>1, <1>2, <1>4 DEF RootInv

\* What the root imports of the surfaces is what clientgen generates.
LEMMA HandlersThere ==
    ASSUME NEW p, NEW L, WellMade(p), NEW k \in WebManagers(ModelAt(p, L), p.knobs)
    PROVE  k \in ExposedManagers(ModelAt(p, L), p.knobs)
<1> DEFINE m == ModelAt(p, L)
<1>1. k \in Managers(m) /\ WebExposed(m, p.knobs, k)
  BY DEF WebManagers
<1>2. k \in DOMAIN At(p, L) /\ k \in DOMAIN p.cs /\ p.cs[k].layer = "manager"
  <2>1. m.cs = At(p, L) /\ \A x \in DOMAIN At(p, L) : x \in DOMAIN p.cs /\ At(p, L)[x] = p.cs[x]
    BY AtIs
  <2> HIDE DEF m
  <2> QED BY <1>1, <2>1 DEF Managers, BuiltManagers
<1>3. WebExposed(Whole(p), p.knobs, k)
  <2>1. m.sys = p.sys /\ Whole(p).sys = p.sys
    BY AtIs DEF Whole
  <2> HIDE DEF m
  <2> QED BY <1>1, <2>1 DEF WebExposed
<1>4. k \in ExposedManagers(Whole(p), p.knobs)
  <2>1. SurfacesAgree(Whole(p), p.knobs) /\ Whole(p).cs = p.cs
    BY Zenon DEF WellMade, Whole
  <2> QED BY <1>2, <1>3, <2>1 DEF SurfacesAgree
<1> QED BY <1>2, <1>4, ExposedAt

LEMMA ToolsThere ==
    ASSUME NEW p, NEW L, WellMade(p), NEW mount \in Mounts(ModelAt(p, L), p.knobs)
    PROVE  /\ mount[2] \in ExposedManagers(ModelAt(p, L), p.knobs)
           /\ mount[1] \in MachineClients(ModelAt(p, L), p.knobs, mount[2])
<1> DEFINE m == ModelAt(p, L)
           id == mount[1]
           k == mount[2]
<1>1. k \in Managers(m) /\ id \in MCPClients(m.sys) /\ Fronts(m, p.knobs, id, k)
  BY MountOf
<1>2. k \in DOMAIN At(p, L) /\ k \in DOMAIN p.cs /\ p.cs[k].layer = "manager"
  <2>1. m.cs = At(p, L) /\ \A x \in DOMAIN At(p, L) : x \in DOMAIN p.cs /\ At(p, L)[x] = p.cs[x]
    BY AtIs
  <2> HIDE DEF m
  <2> QED BY <1>1, <2>1 DEF Managers, BuiltManagers
<1>3. m.sys = p.sys /\ Whole(p).sys = p.sys
  BY AtIs DEF Whole
<1>4. SurfacesAgree(Whole(p), p.knobs) /\ Whole(p).cs = p.cs
  BY Zenon DEF WellMade, Whole
<1> HIDE DEF m, id, k
<1>5. id \in MCPClients(Whole(p).sys) /\ Fronts(Whole(p), p.knobs, id, k)
  BY <1>1, <1>3 DEF Fronts
<1>6. k \in ExposedManagers(Whole(p), p.knobs) /\ id \in MachineClients(Whole(p), p.knobs, k)
  BY <1>2, <1>4, <1>5 DEF SurfacesAgree
<1>7. /\ ExposedManagers(ModelAt(p, L), p.knobs) = ExposedManagers(Whole(p), p.knobs) \intersect DOMAIN At(p, L)
      /\ \A x \in DOMAIN At(p, L) : MachineClients(ModelAt(p, L), p.knobs, x) = MachineClients(Whole(p), p.knobs, x)
  BY ExposedAt
<1>8. k \in ExposedManagers(ModelAt(p, L), p.knobs) /\ id \in MachineClients(ModelAt(p, L), p.knobs, k)
  BY <1>2, <1>6, <1>7
<1> QED BY <1>8 DEF id, k

LEMMA PathsThere ==
    ASSUME NEW p, NEW L, WellMade(p), HooksGood(ModelAt(p, L), p.knobs), NEW i \in Imports(ModelAt(p, L), p.knobs)
    PROVE  \/ i.path = Outside(i.path[2])
           \/ i.path \in L
           \/ \E x \in ClientPackages(ModelAt(p, L), p.knobs) : i.path = x.path
<1> DEFINE m == ModelAt(p, L)
           clients == ClientPackages(m, p.knobs)
<1>1. CASE OfFramework(i)
  BY <1>1 DEF OfFramework, Outside
<1>0. \A k \in DOMAIN m.cs : m.cs[k].pkg # <<>> => m.cs[k].pkg \in L
  <2>1. m.cs = At(p, L)
    BY AtIs
  <2>2. DOMAIN At(p, L) = {x \in DOMAIN p.cs : p.cs[x].pkg = <<>> \/ p.cs[x].pkg \in L}
    BY AtIs
  <2>3. \A x \in DOMAIN At(p, L) : At(p, L)[x] = p.cs[x]
    BY AtIs
  <2> HIDE DEF m
  <2> QED BY <2>1, <2>2, <2>3
<1>2. CASE OfComponent(m, i)
  <2>1. PICK k \in ConstructedKeys(m) : i.path = m.cs[k].pkg
    BY <1>2 DEF OfComponent
  <2>2. k \in DOMAIN m.cs /\ m.cs[k].pkg # <<>>
    BY GoodAt, KeysPackaged
  <2> QED BY <1>0, <2>1, <2>2
<1>6. CASE OfHook(m, p.knobs, i)
  <2> DEFINE pkg == i.path
  <2>1. pkg \in HookPackages(m, p.knobs)
    BY <1>6 DEF OfHook
  <2>2. pkg = Outside(pkg[2]) \/ \E k \in DOMAIN m.cs : m.cs[k].pkg = pkg /\ pkg # <<>>
    BY <2>1, GoodAt, HookNames
  <2> QED BY <1>0, <2>2
<1>3. CASE OfWeb(m, p.knobs, i)
  <2>1. PICK k \in WebManagers(m, p.knobs) : TRUE
    BY <1>3 DEF OfWeb
  <2>2. ExposedManagers(m, p.knobs) # {}
    BY <2>1, HandlersThere
  <2>3. Generated(<<"client", "web">>, "") \in clients
    BY <2>2 DEF ClientPackages
  <2>4. Generated(<<"client", "web">>, "").path = i.path
    BY <1>3 DEF Generated, OfWeb
  <2> QED BY <2>3, <2>4
<1>4. CASE OfHandler(m, p.knobs, i)
  <2>1. PICK k \in WebManagers(m, p.knobs) : i.path = <<"web", Leaf(m.cs[k].pkg)>>
    BY <1>4 DEF OfHandler
  <2>2. k \in ExposedManagers(m, p.knobs)
    BY <2>1, HandlersThere
  <2>3. Generated(<<"web", Leaf(m.cs[k].pkg)>>, k) \in clients
    BY <2>2 DEF ClientPackages
  <2>4. Generated(<<"web", Leaf(m.cs[k].pkg)>>, k).path = i.path
    BY <2>1 DEF Generated
  <2> QED BY <2>3, <2>4
<1>5. CASE OfTools(m, p.knobs, i)
  <2>1. PICK mount \in Mounts(m, p.knobs) : i.path = <<mount[1], Leaf(m.cs[mount[2]].pkg)>>
    BY <1>5 DEF OfTools
  <2> DEFINE id == mount[1]
             k == mount[2]
             g == Generated(<<id, Leaf(m.cs[k].pkg)>>, k)
  <2>2. k \in ExposedManagers(m, p.knobs) /\ id \in MachineClients(m, p.knobs, k)
    BY <2>1, ToolsThere
  <2>3. g.path = i.path
    BY <2>1 DEF Generated
  <2>4. g \in {Generated(<<x, Leaf(m.cs[k].pkg)>>, k) : x \in MachineClients(m, p.knobs, k)}
    BY <2>2
  <2> HIDE DEF g, k, id, m
  <2>5. g \in UNION {{Generated(<<x, Leaf(m.cs[y].pkg)>>, y) : x \in MachineClients(m, p.knobs, y)} :
                       y \in ExposedManagers(m, p.knobs)}
    BY <2>2, <2>4
  <2>6. g \in clients
    BY <2>5, Zenon DEF ClientPackages
  <2> QED BY <2>3, <2>6 DEF m
<1> QED BY <1>1, <1>2, <1>3, <1>4, <1>5, <1>6, ImportsOf

LEMMA PackagesTold ==
    ASSUME NEW p, WellMade(p), NEW x \in ClientPackages(Whole(p), p.knobs), NEW y \in ClientPackages(Whole(p), p.knobs),
           x.path = y.path
    PROVE  x = y
<1> DEFINE w == Whole(p)
           E == ExposedManagers(w, p.knobs)
           Own(g) == g = Generated(<<"client", "web">>, "")
           OfManager(g) == \E k \in E : \E id : g = Generated(<<id, Leaf(p.cs[k].pkg)>>, k)
<1>1. \A k \in E : k \in DOMAIN p.cs /\ p.cs[k].layer = "manager"
  <2>1. SurfacesAgree(w, p.knobs) /\ w.cs = p.cs
    BY Zenon DEF WellMade, Whole
  <2>2. \A k \in E : k \in DOMAIN w.cs
    BY DEF ExposedManagers, ManagersBehind
  <2> QED BY <2>1, <2>2 DEF SurfacesAgree
<1>2. \A k \in E : Leaf(p.cs[k].pkg) \notin OwnLeaves
  BY <1>1, Zenon DEF WellMade, WellContracted
<1>3. \A j, k \in E : Leaf(p.cs[j].pkg) = Leaf(p.cs[k].pkg) => j = k
  BY <1>1, Zenon DEF WellMade, WellContracted
<1>4. ASSUME NEW g \in ClientPackages(w, p.knobs) PROVE Own(g) \/ OfManager(g)
  <2>1. w.cs = p.cs
    BY DEF Whole
  <2> HIDE DEF w
  <2> QED BY <2>1 DEF ClientPackages
<1>5. \A path, k : Generated(path, k).path = path
  BY DEF Generated
<1> HIDE DEF w, E
<1>6. CASE Own(x) /\ Own(y)
  BY <1>6
<1>7. CASE OfManager(x) /\ OfManager(y)
  <2>1. PICK j \in E : \E a : x = Generated(<<a, Leaf(p.cs[j].pkg)>>, j)
    BY <1>7
  <2>2. PICK k \in E : \E b : y = Generated(<<b, Leaf(p.cs[k].pkg)>>, k)
    BY <1>7
  <2>3. PICK a : x = Generated(<<a, Leaf(p.cs[j].pkg)>>, j)
    BY <2>1
  <2>4. PICK b : y = Generated(<<b, Leaf(p.cs[k].pkg)>>, k)
    BY <2>2
  <2>5. x.path = <<a, Leaf(p.cs[j].pkg)>> /\ y.path = <<b, Leaf(p.cs[k].pkg)>>
    BY <1>5, <2>3, <2>4
  <2>6. x.path[1] = a /\ x.path[2] = Leaf(p.cs[j].pkg) /\ y.path[1] = b /\ y.path[2] = Leaf(p.cs[k].pkg)
    <3>1. x.path[1] = a /\ x.path[2] = Leaf(p.cs[j].pkg)
      BY <2>5
    <3> DEFINE leaf == Leaf(p.cs[k].pkg)
    <3>2. <<b, leaf>>[1] = b /\ <<b, leaf>>[2] = leaf
      OBVIOUS
    <3>3. y.path = <<b, leaf>>
      BY <2>5
    <3> HIDE DEF leaf
    <3>4. y.path[1] = b /\ y.path[2] = leaf
      BY <3>2, <3>3
    <3> QED BY <3>1, <3>4 DEF leaf
  <2>7. a = b /\ j = k
    BY <1>3, <2>6
  <2> QED BY <2>3, <2>4, <2>7
<1>8. \A g : Own(g) => g.path[2] \in OwnLeaves
  <2> TAKE g
  <2> SUFFICES ASSUME Own(g) PROVE g.path[2] \in OwnLeaves
    OBVIOUS
  <2>1. g.path = <<"client", "web">>
    BY <1>5
  <2>2. g.path[2] = "web"
    <3>1. <<"client", "web">>[2] = "web"
      OBVIOUS
    <3> QED BY <2>1, <3>1
  <2> QED BY <2>2 DEF OwnLeaves
<1>9. \A g : OfManager(g) => g.path[2] \notin OwnLeaves
  <2> TAKE g
  <2> SUFFICES ASSUME NEW k \in E, NEW id, g = Generated(<<id, Leaf(p.cs[k].pkg)>>, k) PROVE g.path[2] \notin OwnLeaves
    OBVIOUS
  <2>1. g.path = <<id, Leaf(p.cs[k].pkg)>>
    BY <1>5
  <2>2. g.path[2] = Leaf(p.cs[k].pkg)
    BY <2>1
  <2> QED BY <1>2, <2>2
<1> QED BY <1>4, <1>6, <1>7, <1>8, <1>9 DEF w

LEMMA FreshRootBuilds ==
    ASSUME RootInv, WellMade(project), Fresh, tree.root # NoRoot
    PROVE  ServerBuilds
<1> DEFINE p == project
           k == project.knobs
           root == tree.root
<1>1. PICK L \in SUBSET landed : RootFrom(L)
  BY DEF RootInv
<1> DEFINE m == ModelAt(p, L)
<1>2. RootRefusals(m, k) = {} /\ root = Root(m, k)
  BY <1>1 DEF RootFrom
<1>3. ConfigServes(p, tree, L) /\ ClientsServe(p, tree, L) /\ WorkersServe(p, tree, L)
  BY <1>1 DEF RootFrom, CaughtUp, Pending, Fresh, Commands
<1>4. Good(m, k)
  BY GoodAt
<1>5. /\ root.imports = Imports(m, k) /\ root.stmts = Statements(m, k) /\ root.cfg = CfgFields(m, k)
      /\ root.named = HookPackages(m, k)
  BY <1>2 DEF Root, Statements
<1>6. m.cs = At(p, L) /\ \A x \in DOMAIN At(p, L) : x \in DOMAIN p.cs /\ At(p, L)[x] = p.cs[x]
  BY AtIs
<1>13. HooksGood(m, k)
  BY <1>2, HooksAt
<1>7. NamesResolve(root)
  BY <1>2, <1>4, <1>13, RootResolves
<1>8. ImportsResolve(root, landed \union {x.path : x \in tree.clients})
  <2>1. \A i, j \in root.imports : i # j => i.as # j.as
    BY <1>4, <1>5, <1>13, ImportNames
  <2>2. ASSUME NEW i \in root.imports
        PROVE  i.path = Outside(i.path[2]) \/ i.path \in landed \union {x.path : x \in tree.clients}
    <3>1. \/ i.path = Outside(i.path[2])
          \/ i.path \in L
          \/ \E x \in ClientPackages(m, k) : i.path = x.path
      BY <1>5, <1>13, PathsThere
    <3>2. ClientPackages(m, k) \subseteq tree.clients
      BY <1>3 DEF ClientsServe
    <3> QED BY <3>1, <3>2
  <2>3. \A pkg \in root.named : Import(pkg, <<Leaf(pkg)>>) \in root.imports
    BY <1>4, <1>5, <1>13, HooksImported
  <2> QED BY <2>1, <2>2, <2>3 DEF ImportsResolve
<1>9. \A x, y \in tree.clients : x.path = y.path => x = y
  <2>1. tree.clients \subseteq ClientPackages(Whole(p), k)
    <3>1. ClientPackages(ModelAt(p, landed), k) \subseteq ClientPackages(Whole(p), k)
      BY ClientsGrow
    <3> QED BY <3>1 DEF RootInv
  <2> QED BY <2>1, PackagesTold
<1>10. ASSUME NEW s \in root.stmts, s.key # ""
       PROVE  s.call \in Constructors(p.cs[s.key])
  <2>1. s.key \in DOMAIN m.cs /\ s.call \in Constructors(m.cs[s.key])
    BY <1>4, <1>5, <1>10, RootCalls
  <2> HIDE DEF m
  <2> QED BY <1>6, <2>1
<1>11. root.cfg \subseteq tree.config
  <2>1. CfgFields(m, k) \subseteq ConfigFields(m.d)
    BY <1>4, RootFields
  <2>2. ConfigFields(m.d) \subseteq tree.config
    BY <1>3 DEF ConfigServes
  <2> QED BY <1>5, <2>1, <2>2
<1>12. ASSUME NEW s \in root.stmts, s.key # "", p.cs[s.key].layer = "manager"
       PROVE  WorkerFits(s.key)
  <2>1. s.key \in DOMAIN m.cs /\ m.cs[s.key].layer = "manager"
    <3>1. s.key \in DOMAIN m.cs
      BY <1>4, <1>5, <1>12, RootCalls
    <3> HIDE DEF m
    <3> QED BY <1>6, <1>12, <3>1
  <2>2. ManagerLocal(m, s)
    <3>1. ~OwnLocal(m, s)
      BY <1>12 DEF OwnLocal
    <3>2. ~AccessLocal(m, k, s)
      BY <1>4, <2>1, KindsApart DEF AccessLocal
    <3>3. ~EngineLocal(m, s)
      BY <1>4, <2>1, KindsApart DEF EngineLocal
    <3> QED BY <1>4, <1>5, <3>1, <3>2, <3>3, StatementsOf
  <2>3. s.key \in Managers(m)
    BY <2>2 DEF ManagerLocal
  <2>4. Takes(m.cs[s.key]) \subseteq Valued(m) /\ m.cs[s.key] = p.cs[s.key]
    <3>1. Takes(m.cs[s.key]) \subseteq Valued(m)
      BY <1>2, <1>4, <2>3, ManagersServed
    <3> HIDE DEF m
    <3> QED BY <1>6, <2>1, <3>1
  <2>5. \A x \in Valued(m) : Constructible(m, x)
    BY DEF Valued, Bound, Engines
  <2>6. /\ s.key \in DOMAIN tree.workers
        /\ \A dep \in Takes(p.cs[s.key]) :
             Constructible(m, dep) /\ p.cs[dep].layer \in {"resourceAccess", "utility"} => dep \in tree.workers[s.key]
    BY <1>3, <2>3, Zenon DEF WorkersServe
  <2> QED BY <2>4, <2>5, <2>6 DEF WorkerFits
<1> QED BY <1>7, <1>8, <1>9, <1>10, <1>11, <1>12 DEF ServerBuilds, CallsFit
-----------------------------------------------------------------------------
LEMMA RootInitInv == DeliveryInit => RootInv
  BY DEF DeliveryInit, GenInit, RootInv

LEMMA RootUntouched == ASSUME RootInv, UNCHANGED genVars PROVE RootInv'
<1>1. UNCHANGED <<project, landed, done, tree>>
  BY DEF genVars
<1>2. ASSUME NEW L, RootFrom(L) PROVE RootFrom(L)'
  BY <1>1, <1>2 DEF RootFrom, CaughtUp, Pending
<1> QED BY <1>1, <1>2 DEF RootInv

(* Whatever lands, in whatever order, and whichever command refuses: the   *)
(* root that is there was composed from components that have landed, and   *)
(* the commands that were run since serve every component it knows.        *)
THEOREM RootServed == (\A p \in Projects : WellMade(p)) /\ DeliverySpec => []RootInv
<1> SUFFICES ASSUME \A p \in Projects : WellMade(p) PROVE DeliverySpec => []RootInv
  OBVIOUS
<1>1. DInv /\ RootInv /\ [DeliveryNext]_allVars => RootInv'
  <2> SUFFICES ASSUME DInv, RootInv, [DeliveryNext]_allVars PROVE RootInv'
    OBVIOUS
  <2>1. WellMade(project) /\ TreeShape
    BY DEF DInv, TreeShape
  <2>2. CASE UNCHANGED genVars
    BY <2>2, RootUntouched
  <2>3. CASE Generate
    BY <2>1, <2>3, TemporalKeeps, ConfigKeeps, ComposeKeeps, ClientsKeep DEF Generate
  <2>4. CASE Build
    <3>1. Change /\ UNCHANGED <<project, tree>> /\ landed \subseteq landed'
      BY <2>4 DEF Build, Contract, Land, FillHooks
    <3> QED BY <3>1, ChangeKeeps
  <2> QED
    BY <2>2, <2>3, <2>4 DEF DeliveryNext, allVars, Construct, GenNext, Launch, Launcher, Others, genVars
<1> QED BY <1>1, RootInitInv, LaunchesWhatWasBuilt, PTL DEF DeliverySpec

(* Whenever the four commands have been run and hooks.go has the methods   *)
(* that the root asks for, the server builds: for every project that is    *)
(* well made, however it was built.  WellMade says what the commands do    *)
(* not check: no name stands for two things, a component is bound once, an *)
(* Engine takes nothing, what is authored fits the constructors, and the   *)
(* generators that go by the clients agree.                                *)
THEOREM ServerAlwaysBuilds == (\A p \in Projects : WellMade(p)) /\ DeliverySpec => []RootBuilds
<1> SUFFICES ASSUME \A p \in Projects : WellMade(p) PROVE DeliverySpec => []RootBuilds
  OBVIOUS
<1>1. DInv /\ RootInv => RootBuilds
  BY FreshRootBuilds DEF DInv, RootBuilds
<1> QED BY <1>1, LaunchesWhatWasBuilt, RootServed, PTL
-----------------------------------------------------------------------------
(* A project that is composed once everything has landed is composed as    *)
(* soon as what a component takes has landed before it.                    *)

\* What is derived for a deployment is there, always.
LEMMA NeverNil == ASSUME NEW p, NEW L, WellMade(p), p.authored.containers = {} PROVE NilComps(ModelAt(p, L)) = {}
<1> DEFINE m == ModelAt(p, L)
<1>1. SUFFICES ASSUME NEW b \in Bound(m) PROVE b \in Accesses(m)
  BY DEF NilComps
<1>2. b \in DefaultBindings(At(p, L))
  BY DerivedIs DEF Bound
<1>3. b.presence = "required"
  BY <1>2 DEF DefaultBindings, DefaultBinding
<1> QED BY <1>3 DEF Accesses, LeftNil

\* The whole, and what has landed of it.
LEMMA PartOfWhole ==
    ASSUME NEW p, NEW L
    PROVE  LET m == ModelAt(p, L)
               w == Whole(p)
           IN  /\ m.sys = p.sys /\ w.sys = p.sys /\ w.cs = p.cs
               /\ DOMAIN m.cs \subseteq DOMAIN w.cs /\ \A x \in DOMAIN m.cs : m.cs[x] = w.cs[x]
               /\ \A x \in DOMAIN m.cs : w.cs[x].pkg # <<>> => w.cs[x].pkg \in L
               /\ BuiltManagers(m) \subseteq BuiltManagers(w) /\ Managers(m) \subseteq Managers(w)
<1> DEFINE m == ModelAt(p, L)
           w == Whole(p)
<1>1. m.sys = p.sys /\ w.sys = p.sys /\ w.cs = p.cs /\ m.cs = At(p, L)
  BY AtIs DEF Whole
<1>2. \A x \in DOMAIN At(p, L) : x \in DOMAIN p.cs /\ At(p, L)[x] = p.cs[x] /\ (p.cs[x].pkg # <<>> => p.cs[x].pkg \in L)
  <2>1. DOMAIN At(p, L) = {k \in DOMAIN p.cs : p.cs[k].pkg = <<>> \/ p.cs[k].pkg \in L}
    BY AtIs
  <2>2. \A k \in DOMAIN At(p, L) : k \in DOMAIN p.cs /\ At(p, L)[k] = p.cs[k]
    BY AtIs
  <2> QED BY <2>1, <2>2
<1> HIDE DEF m, w
<1>3. /\ DOMAIN m.cs \subseteq DOMAIN w.cs
      /\ \A x \in DOMAIN m.cs : m.cs[x] = w.cs[x] /\ (w.cs[x].pkg # <<>> => w.cs[x].pkg \in L)
  BY <1>1, <1>2
<1>4. BuiltManagers(m) \subseteq BuiltManagers(w)
  BY <1>3 DEF BuiltManagers, Constructible
<1>5. Managers(m) \subseteq Managers(w)
  BY <1>3, <1>4 DEF Managers, BuiltManagers
<1> QED BY <1>1, <1>3, <1>4, <1>5 DEF m, w

LEMMA SameSurfaces ==
    ASSUME NEW p, NEW L
    PROVE  \A k : /\ WebExposed(ModelAt(p, L), p.knobs, k) = WebExposed(Whole(p), p.knobs, k)
                  /\ TheMount(ModelAt(p, L), p.knobs, k) = TheMount(Whole(p), p.knobs, k)
                  /\ \A id : Fronts(ModelAt(p, L), p.knobs, id, k) = Fronts(Whole(p), p.knobs, id, k)
<1> DEFINE m == ModelAt(p, L)
           w == Whole(p)
<1>1. m.sys = p.sys /\ w.sys = p.sys
  BY AtIs DEF Whole
<1> HIDE DEF m, w
<1>6. ASSUME NEW k, NEW id PROVE Fronts(m, p.knobs, id, k) = Fronts(w, p.knobs, id, k)
  BY <1>1 DEF Fronts
<1>7. ASSUME NEW k PROVE WebExposed(m, p.knobs, k) = WebExposed(w, p.knobs, k)
  BY <1>1 DEF WebExposed
<1>8. ASSUME NEW k PROVE TheMount(m, p.knobs, k) = TheMount(w, p.knobs, k)
  <2>1. (CHOOSE id \in MCPClients(m.sys) : Fronts(m, p.knobs, id, k))
          = CHOOSE id \in MCPClients(w.sys) : Fronts(w, p.knobs, id, k)
    BY <1>1, <1>6
  <2> QED BY <2>1, Zenon DEF TheMount
<1> QED BY <1>6, <1>7, <1>8, Zenon DEF m, w

LEMMA ValuedThere ==
    ASSUME NEW p, NEW L, WellMade(p), RootRefusals(Whole(p), p.knobs) = {},
           \A k \in DOMAIN ModelAt(p, L).cs :
             ModelAt(p, L).cs[k].pkg # <<>> => Takes(ModelAt(p, L).cs[k]) \subseteq DOMAIN ModelAt(p, L).cs,
           NEW k \in Managers(ModelAt(p, L)), NEW dep \in Takes(ModelAt(p, L).cs[k])
    PROVE  dep \in Valued(ModelAt(p, L))
<1> DEFINE m == ModelAt(p, L)
           w == Whole(p)
<1>1. k \in DOMAIN m.cs /\ m.cs[k].pkg # <<>> /\ k \in BuiltManagers(m)
  BY DEF Managers, BuiltManagers, Constructible
<1>2. dep \in DOMAIN m.cs
  BY <1>1
<1>3. /\ k \in Managers(w) /\ m.cs[k] = w.cs[k] /\ m.cs[dep] = w.cs[dep]
      /\ DOMAIN m.cs \subseteq DOMAIN w.cs
  BY <1>1, <1>2, PartOfWhole
<1>4. dep \in Valued(w)
  BY <1>3, DependenciesValued
<1>5. w.cs[dep].pkg # <<>>
  BY <1>4 DEF Valued, Bound, Engines, Constructible
<1>6. Constructible(m, dep)
  BY <1>2, <1>3, <1>5 DEF Constructible
<1>7. ASSUME NEW b \in Bound(w), dep = b.comp PROVE dep \in {x.comp : x \in Bound(m)}
  <2>1. CASE p.authored.containers # {}
    <3>1. m.d = p.authored /\ w.d = p.authored
      BY <2>1, AtIs DEF Whole, EffectiveDeployment
    <3>2. b \in Bound(m)
      BY <1>6, <1>7, <3>1 DEF Bound
    <3> QED BY <1>7, <3>2
  <2>2. CASE p.authored.containers = {}
    <3>1. w.d.bindings = DefaultBindings(w.cs) /\ m.d.bindings = DefaultBindings(m.cs)
      <4>1. w.cs = p.cs /\ w.d = EffectiveDeployment(p.cs, p.sys, p.authored, "server")
        BY DEF Whole
      <4>2. EffectiveDeployment(p.cs, p.sys, p.authored, "server").bindings = DefaultBindings(p.cs)
        BY <2>2, EffectiveDerived
      <4>3. m.cs = At(p, L)
        BY AtIs
      <4>4. m.d.bindings = DefaultBindings(At(p, L))
        BY <2>2, DerivedIs
      <4> QED BY <4>1, <4>2, <4>3, <4>4
    <3>2. PICK j \in Served(w.cs) : \E name \in w.cs[j].infra \intersect {"Postgres", "ExternalHTTP"} : b = DefaultBinding(j, name)
      BY <3>1 DEF Bound, DefaultBindings
    <3>3. PICK name \in w.cs[j].infra \intersect {"Postgres", "ExternalHTTP"} : b = DefaultBinding(j, name)
      BY <3>2
    <3>4. j = dep
      BY <1>7, <3>3 DEF DefaultBinding
    <3>5. dep \in Served(m.cs)
      BY <1>2, <1>3, <3>4 DEF Served
    <3>6. b \in {DefaultBinding(dep, x) : x \in m.cs[dep].infra \intersect {"Postgres", "ExternalHTTP"}}
      BY <1>3, <3>3, <3>4
    <3>7. b \in DefaultBindings(m.cs)
      BY <3>5, <3>6 DEF DefaultBindings
    <3>8. b \in Bound(m)
      BY <1>6, <1>7, <3>1, <3>7 DEF Bound
    <3> QED BY <1>7, <3>8
  <2> QED BY <2>1, <2>2
<1>8. ASSUME dep \in Engines(w), dep \notin {b.comp : b \in Bound(m)} PROVE dep \in Engines(m)
  <2>1. Pure(m.cs[dep])
    BY <1>3, <1>8 DEF Engines
  <2>2. dep \in ComponentsWanted(m)
    BY <1>1 DEF ComponentsWanted
  <2> HIDE DEF m, w
  <2>3. dep \in Engines(m)
    BY <1>2, <1>6, <1>8, <2>1, <2>2 DEF Engines
  <2> QED BY <2>3
<1> HIDE DEF m, w
<1>9. dep \in {b.comp : b \in Bound(w)} \/ dep \in Engines(w)
  BY <1>4 DEF Valued
<1>10. dep \in {b.comp : b \in Bound(m)} \/ dep \in Engines(m)
  BY <1>7, <1>8, <1>9
<1>11. dep \in Valued(m)
  BY <1>10 DEF Valued
<1> QED BY <1>11 DEF m

LEMMA Composes ==
    ASSUME NEW p, NEW L, WellMade(p), WellSurfaced(p), Wirable(ModelAt(p, L))
    PROVE  RootRefusals(ModelAt(p, L), p.knobs) = {}
<1> DEFINE m == ModelAt(p, L)
           w == Whole(p)
<1>1. RootRefusals(w, p.knobs) = {}
  BY Zenon DEF WellSurfaced
<1>2. NilRegistrar(w, p.knobs) = {} /\ Unserved(w, p.knobs) = {}
  <2> HIDE DEF w
  <2>1. \A k \in NilRegistrar(w, p.knobs) : <<"nil registrar", k>> \in RootRefusals(w, p.knobs)
    BY DEF RootRefusals
  <2>2. \A mount \in Unserved(w, p.knobs) : <<"unserved", mount[1]>> \in RootRefusals(w, p.knobs)
    BY DEF RootRefusals
  <2> QED BY <1>1, <2>1, <2>2
<1>3. BuiltSurfaces(p.sys) # {} => "webDistDir" \in w.d.settings
  <2>1. w.sys = p.sys
    BY DEF Whole
  <2> HIDE DEF w
  <2>2. BuiltSurfaces(p.sys) # {} /\ "webDistDir" \notin w.d.settings => <<"no webDistDir">> \in RootRefusals(w, p.knobs)
    BY <2>1 DEF RootRefusals
  <2> QED BY <1>1, <2>2
<1>4. ~NeedsTemporal(m)
  <2>1. Managers(m) # {} => HasTemporal(m)
    BY GoodAt, Zenon DEF Good, BindingsGood
  <2> QED BY <2>1 DEF NeedsTemporal
<1>5. \A k \in Managers(m) : Takes(m.cs[k]) \ Valued(m) = {}
  BY <1>1, ValuedThere DEF Wirable
<1>6. NilRegistrar(m, p.knobs) = {}
  <2>1. CASE p.authored.containers = {}
    BY <2>1, NeverNil DEF NilRegistrar
  <2>2. CASE p.authored.containers # {}
    <3>1. m.d = p.authored /\ w.d = p.authored
      BY <2>2, AtIs DEF Whole, EffectiveDeployment
    <3>2. SUFFICES ASSUME NEW k \in Managers(m), p.knobs.registrar \in Takes(m.cs[k]) \intersect NilComps(m) PROVE FALSE
      BY DEF NilRegistrar
    <3>3. /\ DOMAIN m.cs \subseteq DOMAIN w.cs /\ \A x \in DOMAIN m.cs : m.cs[x] = w.cs[x]
          /\ k \in Managers(w)
      BY PartOfWhole
    <3>4. k \in DOMAIN m.cs
      BY DEF Managers, BuiltManagers
    <3> HIDE DEF m, w
    <3>5. p.knobs.registrar \in NilComps(w)
      BY <3>1, <3>2, <3>3 DEF NilComps, Accesses, Bound, Constructible, LeftNil, Arms
    <3> QED BY <1>2, <3>2, <3>3, <3>4, <3>5 DEF NilRegistrar
  <2> QED BY <2>1, <2>2
<1>7. Unserved(m, p.knobs) = {}
  <2>1. SUFFICES ASSUME NEW mount \in Mounts(m, p.knobs), mount[2] \notin WebManagers(m, p.knobs) PROVE FALSE
    BY DEF Unserved
  <2> DEFINE k == mount[2]
  <2>2. k \in Managers(m) /\ mount[1] \in MCPClients(m.sys) /\ Fronts(m, p.knobs, mount[1], k) /\ mount = TheMount(m, p.knobs, k)
    BY MountOf
  <2>3. /\ k \in Managers(w) /\ Fronts(w, p.knobs, mount[1], k) /\ mount[1] \in MCPClients(w.sys)
        /\ mount = TheMount(w, p.knobs, k)
        /\ WebExposed(m, p.knobs, k) = WebExposed(w, p.knobs, k)
    <3>1. Managers(m) \subseteq Managers(w) /\ m.sys = w.sys
      BY PartOfWhole
    <3>2. \A j : /\ WebExposed(m, p.knobs, j) = WebExposed(w, p.knobs, j)
                 /\ TheMount(m, p.knobs, j) = TheMount(w, p.knobs, j)
                 /\ \A id : Fronts(m, p.knobs, id, j) = Fronts(w, p.knobs, id, j)
      BY SameSurfaces, Zenon
    <3> HIDE DEF m, w, k
    <3> QED BY <2>2, <3>1, <3>2
  <2> HIDE DEF m, w, k
  <2>4. mount \in Mounts(w, p.knobs)
    BY <2>3 DEF Mounts, TheMount
  <2>5. k \in WebManagers(w, p.knobs)
    BY <1>2, <2>4 DEF Unserved, k
  <2> QED BY <2>1, <2>2, <2>3, <2>5 DEF WebManagers, k
<1>8. BuiltSurfaces(m.sys) # {} => "webDistDir" \in m.d.settings
  <2>1. CASE p.authored.containers = {}
    <3>1. m.sys = p.sys
      BY AtIs
    <3>2. m.d.settings = DefaultSettings(p.sys)
      BY <2>1, DerivedIs
    <3> HIDE DEF m
    <3> QED BY <3>1, <3>2 DEF DefaultSettings
  <2>2. CASE p.authored.containers # {}
    BY <1>3, <2>2, AtIs DEF Whole, EffectiveDeployment
  <2> QED BY <2>1, <2>2
<1> HIDE DEF m, w
<1>9. RootRefusals(m, p.knobs) = {}
  BY <1>4, <1>5, <1>6, <1>7, <1>8 DEF RootRefusals
<1> QED BY <1>9 DEF m

LEMMA Plans ==
    ASSUME NEW p, NEW L, WellSurfaced(p)
    PROVE  PlanRefusals(ModelAt(p, L).d, ModelAt(p, L).sys) = {}
<1>1. ModelAt(p, L).sys = p.sys /\ Whole(p).sys = p.sys
  BY AtIs DEF Whole
<1>2. CASE p.authored.containers = {}
  BY <1>1, <1>2, DerivedIs DEF DefaultSettings, PlanRefusals
<1>3. CASE p.authored.containers # {}
  <2>1. ModelAt(p, L).d = Whole(p).d
    BY <1>3, AtIs DEF Whole, EffectiveDeployment
  <2>2. PlanRefusals(Whole(p).d, Whole(p).sys) = {}
    BY Zenon DEF WellSurfaced
  <2> QED BY <1>1, <2>1, <2>2
<1> QED BY <1>2, <1>3
-----------------------------------------------------------------------------
\* A Manager that has landed and is exposed: its handler is mounted, and its
\* tools for the one client.
LEMMA ManagersBuilt ==
    ASSUME NEW p, NEW L, WellSurfaced(p)
    PROVE  BuiltManagers(ModelAt(p, L)) \subseteq Managers(ModelAt(p, L))
<1> DEFINE m == ModelAt(p, L)
<1>1. \A k \in DOMAIN p.cs : p.cs[k].layer = "manager" => p.cs[k].deps # <<>>
  <2>1. Whole(p).cs = p.cs
    BY DEF Whole
  <2> QED BY <2>1 DEF WellSurfaced
<1>2. m.cs = At(p, L) /\ \A x \in DOMAIN At(p, L) : x \in DOMAIN p.cs /\ At(p, L)[x] = p.cs[x]
  BY AtIs
<1> HIDE DEF m
<1>3. BuiltManagers(m) \subseteq Managers(m)
  BY <1>1, <1>2 DEF Managers, BuiltManagers
<1> QED BY <1>3 DEF m

LEMMA ExposedServed ==
    ASSUME NEW p, NEW L, WellMade(p), WellSurfaced(p), NEW k \in ExposedManagers(ModelAt(p, L), p.knobs)
    PROVE  /\ k \in WebManagers(ModelAt(p, L), p.knobs)
           /\ \A id \in MachineClients(ModelAt(p, L), p.knobs, k) : <<id, k>> \in Mounts(ModelAt(p, L), p.knobs)
<1> DEFINE m == ModelAt(p, L)
           w == Whole(p)
<1>1. k \in ExposedManagers(w, p.knobs) /\ k \in DOMAIN At(p, L)
      /\ MachineClients(m, p.knobs, k) = MachineClients(w, p.knobs, k)
  BY ExposedAt
<1>2. m.cs = At(p, L) /\ m.sys = p.sys /\ w.sys = p.sys /\ w.cs = p.cs
  BY AtIs DEF Whole
<1>3. \A x \in DOMAIN At(p, L) :
        x \in DOMAIN p.cs /\ At(p, L)[x] = p.cs[x] /\ (p.cs[x].pkg = <<>> \/ p.cs[x].pkg \in L)
  <2>1. DOMAIN At(p, L) = {x \in DOMAIN p.cs : p.cs[x].pkg = <<>> \/ p.cs[x].pkg \in L}
    BY AtIs
  <2>2. \A x \in DOMAIN At(p, L) : x \in DOMAIN p.cs /\ At(p, L)[x] = p.cs[x]
    BY AtIs
  <2> QED BY <2>1, <2>2
<1>4. SurfacesAgree(w, p.knobs) /\ WellContracted(p.cs)
  BY Zenon DEF WellMade
<1>5. /\ WebExposed(w, p.knobs, k)
      /\ \A id \in MachineClients(w, p.knobs, k) : {other \in MCPClients(w.sys) : Fronts(w, p.knobs, other, k)} = {id}
  BY <1>1, Zenon DEF WellSurfaced
<1>6. /\ WebExposed(m, p.knobs, k) = WebExposed(w, p.knobs, k)
      /\ \A id : Fronts(m, p.knobs, id, k) = Fronts(w, p.knobs, id, k)
  BY SameSurfaces, Zenon
<1>7. BuiltManagers(m) \subseteq Managers(m)
  BY ManagersBuilt
<1> HIDE DEF m, w
<1>8. k \in Managers(m)
  <2>1. p.cs[k].layer = "manager"
    BY <1>1, <1>2, <1>4, SMT DEF SurfacesAgree
  <2>2. p.cs[k].pkg # <<>>
    BY <1>1, <1>3, <1>4, <2>1 DEF WellContracted
  <2> QED BY <1>1, <1>2, <1>3, <1>7, <2>1, <2>2 DEF BuiltManagers, Constructible
<1>9. k \in WebManagers(m, p.knobs)
  BY <1>5, <1>6, <1>8 DEF WebManagers
<1>10. ASSUME NEW id \in MachineClients(m, p.knobs, k) PROVE <<id, k>> \in Mounts(m, p.knobs)
  <2>1. {other \in MCPClients(m.sys) : Fronts(m, p.knobs, other, k)} = {id}
    <3>1. {other \in MCPClients(w.sys) : Fronts(w, p.knobs, other, k)} = {id}
      BY <1>1, <1>5, <1>10
    <3> QED BY <1>2, <1>6, <3>1
  <2>2. id \in MCPClients(m.sys) /\ Fronts(m, p.knobs, id, k)
    BY <2>1
  <2>3. \A other \in MCPClients(m.sys) : Fronts(m, p.knobs, other, k) => other = id
    BY <2>1
  <2>4. (CHOOSE x \in MCPClients(m.sys) : Fronts(m, p.knobs, x, k)) = id
    BY <2>2, <2>3
  <2>5. k \in {x \in Managers(m) : \E y \in MCPClients(m.sys) : Fronts(m, p.knobs, y, x)}
    BY <1>8, <2>2
  <2>6. <<CHOOSE x \in MCPClients(m.sys) : Fronts(m, p.knobs, x, k), k>> \in Mounts(m, p.knobs)
    BY <2>5, Zenon DEF Mounts
  <2> QED BY <2>4, <2>6
<1> QED BY <1>9, <1>10 DEF m

\* What clientgen makes of a Manager is imported by the root.
LEMMA SurfaceImported ==
    ASSUME NEW p, NEW L, WellMade(p), WellSurfaced(p), NEW x \in ClientPackages(ModelAt(p, L), p.knobs), x.key # ""
    PROVE  \E i \in Imports(ModelAt(p, L), p.knobs) : i.path = x.path
<1> DEFINE m == ModelAt(p, L)
<1>1. ASSUME NEW k \in ExposedManagers(m, p.knobs)
      PROVE  /\ k \in WebManagers(m, p.knobs)
             /\ \A id \in MachineClients(m, p.knobs, k) : <<id, k>> \in Mounts(m, p.knobs)
  <2>1. k \in WebManagers(m, p.knobs)
    BY ExposedServed
  <2>2. \A id \in MachineClients(m, p.knobs, k) : <<id, k>> \in Mounts(m, p.knobs)
    BY ExposedServed
  <2> HIDE DEF m
  <2> QED BY <2>1, <2>2
<1> HIDE DEF m
<1>2. CASE \E k \in ExposedManagers(m, p.knobs) : x = Generated(<<"web", Leaf(m.cs[k].pkg)>>, k)
  <2>1. PICK k \in ExposedManagers(m, p.knobs) : x = Generated(<<"web", Leaf(m.cs[k].pkg)>>, k)
    BY <1>2
  <2> DEFINE i == Import(<<"web", Leaf(m.cs[k].pkg)>>, <<Leaf(m.cs[k].pkg), "web">>)
  <2>2. i.path = x.path
    BY <2>1 DEF Import, Generated
  <2>3. i \in {Import(<<"web", Leaf(m.cs[j].pkg)>>, <<Leaf(m.cs[j].pkg), "web">>) : j \in WebManagers(m, p.knobs)}
    BY <1>1, <2>1
  <2> HIDE DEF i
  <2>4. i \in Imports(m, p.knobs)
    BY <2>3, Zenon DEF Imports
  <2> QED BY <2>2, <2>4 DEF m
<1>3. CASE \E k \in ExposedManagers(m, p.knobs) : \E id \in MachineClients(m, p.knobs, k) :
             x = Generated(<<id, Leaf(m.cs[k].pkg)>>, k)
  <2>1. PICK k \in ExposedManagers(m, p.knobs) : \E id \in MachineClients(m, p.knobs, k) :
             x = Generated(<<id, Leaf(m.cs[k].pkg)>>, k)
    BY <1>3
  <2>2. PICK id \in MachineClients(m, p.knobs, k) : x = Generated(<<id, Leaf(m.cs[k].pkg)>>, k)
    BY <2>1
  <2> DEFINE mount == <<id, k>>
             i == Import(<<mount[1], Leaf(m.cs[mount[2]].pkg)>>, <<Leaf(m.cs[mount[2]].pkg), "mcp">>)
  <2>3. i.path = x.path
    BY <2>2 DEF Import, Generated
  <2>4. mount \in Mounts(m, p.knobs)
    BY <1>1, <2>2
  <2>5. i \in {Import(<<y[1], Leaf(m.cs[y[2]].pkg)>>, <<Leaf(m.cs[y[2]].pkg), "mcp">>) : y \in Mounts(m, p.knobs)}
    BY <2>4
  <2> HIDE DEF i
  <2>6. i \in Imports(m, p.knobs)
    BY <2>5, Zenon DEF Imports
  <2> QED BY <2>3, <2>6 DEF m
<1>4. \/ \E k \in ExposedManagers(m, p.knobs) : x = Generated(<<"web", Leaf(m.cs[k].pkg)>>, k)
      \/ \E k \in ExposedManagers(m, p.knobs) : \E id \in MachineClients(m, p.knobs, k) :
            x = Generated(<<id, Leaf(m.cs[k].pkg)>>, k)
  <2>1. Generated(<<"client", "web">>, "").key = ""
    BY DEF Generated
  <2>2. x \in ClientPackages(m, p.knobs)
    BY DEF m
  <2> QED BY <2>1, <2>2 DEF ClientPackages
<1> QED BY <1>2, <1>3, <1>4 DEF m
-----------------------------------------------------------------------------
(* Why the composition was refused, and what it wrote when it was not.     *)
Landed == ModelAt(project, landed)
SurfacesInv ==
    /\ refused \subseteq {"compose"}
    /\ "compose" \in refused => \/ RootRefusals(Landed, project.knobs) # {} \/ hooks.env # {}
                              \/ PlanRefusals(Landed.d, Landed.sys) # {}
    /\ "compose" \in done \ refused => tree.root = Root(Landed, project.knobs)

LEMMA NeverRefused ==
    ASSUME WellMade(project)
    PROVE  ConfigRefusals(Model(FALSE).d) = {} /\ ClientRefusals(Model(FALSE), project.knobs) = {}
<1> DEFINE m == Model(FALSE)
<1>1. m = ModelAt(project, landed)
  BY ModelIs
<1>2. ConfigRefusals(m.d) = {}
  BY <1>1, GoodAt, Zenon DEF Good, BindingsGood
<1>3. ClientRefusals(m, project.knobs) = {}
  <2>1. \A k \in ExposedManagers(m, project.knobs) :
          k \in DOMAIN project.cs /\ m.cs[k] = project.cs[k] /\ project.cs[k].layer = "manager"
    <3>1. ExposedManagers(ModelAt(project, landed), project.knobs)
            = ExposedManagers(Whole(project), project.knobs) \intersect DOMAIN At(project, landed)
      BY ExposedAt
    <3>2. \A k \in ExposedManagers(Whole(project), project.knobs) : project.cs[k].layer = "manager"
      <4>1. SurfacesAgree(Whole(project), project.knobs) /\ Whole(project).cs = project.cs
        BY Zenon DEF WellMade, Whole
      <4> QED BY <4>1 DEF SurfacesAgree
    <3>3. \A k \in DOMAIN At(project, landed) : k \in DOMAIN project.cs /\ At(project, landed)[k] = project.cs[k]
      BY AtIs
    <3>4. m.cs = At(project, landed)
      BY <1>1, AtIs
    <3> HIDE DEF m
    <3> QED BY <1>1, <3>1, <3>2, <3>3, <3>4
  <2>2. \A k \in DOMAIN project.cs : project.cs[k].layer = "manager" => project.cs[k].pkg # <<>>
    BY Zenon DEF WellMade, WellContracted
  <2> HIDE DEF m
  <2> QED BY <2>1, <2>2 DEF ClientRefusals
<1> QED BY <1>2, <1>3

LEMMA ComposeSurfaces == ASSUME SurfacesInv, TreeShape, refused \subseteq done, GenCompose PROVE SurfacesInv'
<1> DEFINE m == ModelAt(project, landed)
           file == IF hooks.there THEN hooks ELSE [there |-> TRUE, methods |-> Root(m, project.knobs).hooks, env |-> {}]
<1>1. Model(FALSE) = m /\ Landed = m
  BY ModelIs DEF Landed
<1>2. PICK ok \in BOOLEAN :
        /\ ok <=> RootRefusals(m, project.knobs) = {} /\ Undeclared(file, m.d) = {} /\ PlanRefusals(m.d, m.sys) = {}
        /\ Turn("compose", ok)
        /\ hooks' = IF RootRefusals(m, project.knobs) = {} THEN file ELSE hooks
        /\ tree' = IF ok THEN [tree EXCEPT !.root = Root(m, project.knobs), !.plan = LauncherPlan(m.d)] ELSE tree
        /\ UNCHANGED <<project, contracts, landed>>
  BY <1>1, Zenon DEF GenCompose
<1>3. Landed' = m
  BY <1>1, <1>2 DEF Landed
<1> HIDE DEF m, file
<1>4. refused' \subseteq {"compose"} /\ "compose" \in done' /\ "compose" \notin refused
  BY <1>2 DEF Turn, SurfacesInv
<1>5. CASE ok
  <2>1. tree'.root = Root(m, project.knobs)
    BY <1>2, <1>5 DEF TreeShape
  <2>2. "compose" \notin refused'
    BY <1>2, <1>4, <1>5 DEF Turn
  <2> QED BY <1>2, <1>3, <1>4, <2>1, <2>2 DEF SurfacesInv
<1>6. CASE ~ok
  <2>1. "compose" \in refused'
    BY <1>2, <1>6 DEF Turn
  <2>2. RootRefusals(m, project.knobs) # {} \/ hooks'.env # {} \/ PlanRefusals(m.d, m.sys) # {}
    <3>1. RootRefusals(m, project.knobs) = {} => hooks' = file
      BY <1>2
    <3>2. Undeclared(file, m.d) # {} => file.env # {}
      BY DEF Undeclared
    <3> QED BY <1>2, <1>6, <3>1, <3>2, Zenon
  <2> QED BY <1>2, <1>3, <1>4, <2>1, <2>2 DEF SurfacesInv
<1> QED BY <1>5, <1>6

LEMMA OthersSurfaces ==
    ASSUME SurfacesInv, TreeShape, WellMade(project), GenTemporal \/ GenConfig \/ GenClients
    PROVE  SurfacesInv'
<1>1. PICK c \in Commands \ {"compose"} : Turn(c, TRUE)
  BY NeverRefused DEF GenTemporal, GenConfig, GenClients, Commands
<1>2. UNCHANGED <<project, landed, hooks>> /\ tree'.root = tree.root
  BY DEF GenTemporal, GenConfig, GenClients, TreeShape
<1>3. refused' = refused /\ done' = done \union {c}
  BY <1>1 DEF Turn
<1>4. Landed' = Landed
  BY <1>2 DEF Landed
<1> QED BY <1>2, <1>3, <1>4 DEF SurfacesInv

LEMMA UntouchedSurfaces == ASSUME SurfacesInv, UNCHANGED genVars PROVE SurfacesInv'
  BY DEF SurfacesInv, Landed, genVars

(* Of the four commands only appgen compose refuses: over what landed,     *)
(* what hooks.go reads or what the launcher cannot provide; and when it    *)
(* does not refuse, the root is the one of all that has landed.            *)
THEOREM RefusedForAReason ==
    (\A p \in Projects : WellMade(p)) /\ DeliverySpec => []SurfacesInv
<1> SUFFICES ASSUME \A p \in Projects : WellMade(p) PROVE DeliverySpec => []SurfacesInv
  OBVIOUS
<1>1. DeliveryInit => SurfacesInv
  BY DEF DeliveryInit, GenInit, SurfacesInv
<1>2. DInv /\ SurfacesInv /\ [DeliveryNext]_allVars => SurfacesInv'
  <2> SUFFICES ASSUME DInv, SurfacesInv, [DeliveryNext]_allVars PROVE SurfacesInv'
    OBVIOUS
  <2>1. WellMade(project) /\ TreeShape /\ refused \subseteq done
    BY DEF DInv, TreeShape
  <2>2. CASE UNCHANGED genVars
    BY <2>2, UntouchedSurfaces
  <2>3. CASE Generate
    BY <2>1, <2>3, ComposeSurfaces, OthersSurfaces DEF Generate
  <2>4. CASE Build
    <3>1. done' = {} /\ refused' = {}
      BY <2>4 DEF Build, Contract, Land, FillHooks, Change
    <3> QED BY <3>1 DEF SurfacesInv
  <2> QED
    BY <2>2, <2>3, <2>4 DEF DeliveryNext, allVars, Construct, GenNext, Launch, Launcher, Others, genVars
<1> QED BY <1>1, <1>2, LaunchesWhatWasBuilt, PTL DEF DeliverySpec

LEMMA FreshSurfaces ==
    ASSUME RootInv, SurfacesInv, WellMade(project), WellSurfaced(project)
    PROVE  SurfacesServed
<1> DEFINE m == ModelAt(project, landed)
           k == project.knobs
<1>1. SUFFICES ASSUME Fresh
               PROVE  /\ Wirable(m) /\ hooks.env = {} => refused = {}
                      /\ "compose" \notin refused =>
                           /\ BuiltManagers(m) \subseteq {s.key : s \in tree.root.stmts}
                           /\ \A x \in tree.clients : x.key # "" => \E i \in tree.root.imports : i.path = x.path
  BY ModelIs DEF SurfacesServed
<1>2. ASSUME Wirable(m), hooks.env = {} PROVE refused = {}
  <2>1. RootRefusals(m, k) = {}
    BY <1>2, Composes
  <2>2. PlanRefusals(m.d, m.sys) = {}
    BY Plans
  <2> HIDE DEF m, k
  <2> QED BY <1>2, <2>1, <2>2 DEF SurfacesInv, Landed, m, k
<1>3. ASSUME "compose" \notin refused
      PROVE  /\ BuiltManagers(m) \subseteq {s.key : s \in tree.root.stmts}
             /\ \A x \in tree.clients : x.key # "" => \E i \in tree.root.imports : i.path = x.path
  <2>1. tree.root = Root(m, k)
    BY <1>1, <1>3 DEF SurfacesInv, Landed, Fresh, Commands
  <2>2. tree.root.imports = Imports(m, k) /\ tree.root.stmts = Statements(m, k)
    BY <2>1 DEF Root, Statements
  <2>3. ASSUME NEW x \in BuiltManagers(m) PROVE x \in {s.key : s \in tree.root.stmts}
    <3>1. x \in Managers(m)
      BY <2>3, ManagersBuilt
    <3>2. PICK s \in Statements(m, k) : s.key = x
      BY <3>1, ManagerThere
    <3> QED BY <2>2, <3>2
  <2>4. ASSUME NEW x \in tree.clients, x.key # "" PROVE \E i \in tree.root.imports : i.path = x.path
    <3>1. x \in ClientPackages(m, k)
      BY <2>4 DEF RootInv
    <3>2. \E i \in Imports(m, k) : i.path = x.path
      BY <2>4, <3>1, SurfaceImported
    <3> HIDE DEF m, k
    <3> QED BY <2>2, <3>2
  <2> QED BY <2>3, <2>4
<1> QED BY <1>2, <1>3

(* Whenever the four commands have been run and everything that a landed   *)
(* component takes has landed, the composition is not refused, and the     *)
(* root constructs every Manager and serves every handler and tool table   *)
(* that was generated, for every project that is well made in this, too.   *)
THEOREM SurfacesAlwaysServed ==
    (\A p \in Projects : WellMade(p) /\ WellSurfaced(p)) /\ DeliverySpec => []SurfacesServed
<1> SUFFICES ASSUME \A p \in Projects : WellMade(p) /\ WellSurfaced(p) PROVE DeliverySpec => []SurfacesServed
  OBVIOUS
<1>1. \A p \in Projects : WellMade(p)
  OBVIOUS
<1>2. DInv /\ RootInv /\ SurfacesInv => SurfacesServed
  BY FreshSurfaces DEF DInv
<1> QED BY <1>1, <1>2, LaunchesWhatWasBuilt, RootServed, RefusedForAReason, PTL
=============================================================================
