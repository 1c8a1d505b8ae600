------------------------------- MODULE Delivery -------------------------------
(***************************************************************************)
(* An application from its first component to its local run.  appgen keeps *)
(* the composition root while construction goes on: components land one    *)
(* after the other, in any order; the four commands are run, each on its   *)
(* own, and each may refuse and leave what it wrote before; nothing that   *)
(* was generated is ever deleted; and hooks.go is seeded once and then     *)
(* belongs to the person who fills it in.  Then the person runs the        *)
(* launcher that the same command generated, with the variables of their   *)
(* own, and it starts what the deployment needs and the server.            *)
(***************************************************************************)
EXTENDS CompositionRoot, DevStack, TLC

CONSTANTS Projects  \* sets of [cs, sys, authored, knobs]: what is being built

VARIABLES project,   \* the design and its knobs
          contracts, \* the packages of managers whose contract was generated
          landed,    \* the packages that hold code
          done,      \* the commands run since the last change
          refused,   \* those that wrote nothing
          tree,      \* what they wrote: config, root, plan, clients, workers
          hooks      \* hooks.go: whether it is there, its methods, its own variables

genVars == <<project, contracts, landed, done, refused, tree, hooks>>

Commands == {"temporal", "config", "compose", "clients"}

NoRoot == [imports |-> {}, stmts |-> {}, cfg |-> {}, hooks |-> {}, named |-> {}, web |-> {}, mounts |-> {}]
NoPlan == [substrates |-> {}, provisioned |-> {}, required |-> {}]
OwnVariable == <<"own", "variable">>

Packages == {project.cs[k].pkg : k \in DOMAIN project.cs} \ {<<>>}
ManagerPackages == {project.cs[k].pkg : k \in {k \in DOMAIN project.cs : project.cs[k].layer = "manager"}}

(* Type correctness; a command that refused was run, and a root comes with *)
(* the hooks that were seeded for it.                                      *)
GenTypeOK == /\ project \in Projects
             /\ landed \subseteq Packages /\ contracts \subseteq ManagerPackages
             /\ done \subseteq Commands /\ refused \subseteq done
             /\ tree.root # NoRoot => hooks.there
             /\ hooks.env \subseteq {OwnVariable}

GenInit == /\ project \in Projects
           /\ contracts = {} /\ landed = {}
           /\ done = {} /\ refused = {}
           /\ tree = [config |-> {}, root |-> NoRoot, plan |-> NoPlan, clients |-> {}, workers |-> <<>>]
           /\ hooks = [there |-> FALSE, methods |-> {}, env |-> {}]

-----------------------------------------------------------------------------
(* What a command reads: the contracts whose packages hold code; the       *)
(* temporal command keeps a manager that has its generated contract only.  *)

BuiltContracts(forTemporal) ==
    {k \in DOMAIN project.cs :
       LET pkg == project.cs[k].pkg
       IN  pkg = <<>> \/ pkg \in landed \/ (forTemporal /\ pkg \in contracts)}

Model(forTemporal) ==
    LET cs == Restrict(project.cs, BuiltContracts(forTemporal))
    IN  [cs |-> cs, sys |-> project.sys,
         d |-> EffectiveDeployment(cs, project.sys, project.authored, "server")]

\* One command at a time, each once between two changes.
Turn(command, ok) == /\ command \notin done
                     /\ done' = done \union {command}
                     /\ refused' = IF ok THEN refused ELSE refused \union {command}

\* What is generated anew replaces what was there, and nothing is deleted.
Regenerated(new, old) ==
    [k \in DOMAIN new \union DOMAIN old |-> IF k \in DOMAIN new THEN new[k] ELSE old[k]]

GenTemporal == /\ Turn("temporal", TRUE)
               /\ tree' = [tree EXCEPT !.workers = Regenerated(Workers(Model(TRUE), project.knobs), @)]
               /\ UNCHANGED <<project, contracts, landed, hooks>>

GenConfig == LET d == Model(FALSE).d
                 ok == ConfigRefusals(d) = {}
             IN  /\ Turn("config", ok)
                 /\ tree' = IF ok THEN [tree EXCEPT !.config = ConfigFields(d)] ELSE tree
                 /\ UNCHANGED <<project, contracts, landed, hooks>>

\* The variables that hooks.go reads and the deployment does not declare.
Undeclared(file, d) == file.env \ ConfigFields(d)

\* hooks.go is seeded before the command can still be refused, for the
\* variables it reads or for the launcher's plan.
GenCompose ==
    LET m == Model(FALSE)
        resolved == RootRefusals(m, project.knobs) = {}
        root == Root(m, project.knobs)
        file == IF hooks.there THEN hooks ELSE [there |-> TRUE, methods |-> root.hooks, env |-> {}]
        ok == resolved /\ Undeclared(file, m.d) = {} /\ PlanRefusals(m.d, m.sys) = {}
    IN  /\ Turn("compose", ok)
        /\ hooks' = IF resolved THEN file ELSE hooks
        /\ tree' = IF ok THEN [tree EXCEPT !.root = root, !.plan = LauncherPlan(m.d)] ELSE tree
        /\ UNCHANGED <<project, contracts, landed>>

GenClients == LET m == Model(FALSE)
                  ok == ClientRefusals(m, project.knobs) = {}
              IN  /\ Turn("clients", ok)
                  /\ tree' = IF ok THEN [tree EXCEPT !.clients = @ \union ClientPackages(m, project.knobs)]
                             ELSE tree
                  /\ UNCHANGED <<project, contracts, landed, hooks>>

Generate == GenTemporal \/ GenConfig \/ GenCompose \/ GenClients
-----------------------------------------------------------------------------
(* The people and agents who build the application; the job that generates *)
(* runs all four commands before the next change.                          *)

Fresh == done = Commands
Change == (done = {} \/ Fresh) /\ done' = {} /\ refused' = {}

\* A manager's contract is generated before its code is written.
Contract(pkg) == /\ Change
                 /\ pkg \in ManagerPackages \ (contracts \union landed)
                 /\ contracts' = contracts \union {pkg}
                 /\ UNCHANGED <<project, landed, tree, hooks>>

Land(pkg) == /\ Change
             /\ pkg \in Packages \ landed
             /\ pkg \in ManagerPackages => pkg \in contracts
             /\ landed' = landed \union {pkg}
             /\ UNCHANGED <<project, contracts, tree, hooks>>

\* The person adds the methods that the interface asks for, and may read a
\* variable of their own invention, or stop reading it.
FillHooks(env) == /\ Change
                  /\ hooks.there /\ tree.root # NoRoot
                  /\ hooks' = [hooks EXCEPT !.methods = @ \union tree.root.hooks, !.env = env]
                  /\ hooks' # hooks
                  /\ UNCHANGED <<project, contracts, landed, tree>>

Build == \/ \E pkg \in Packages : Contract(pkg) \/ Land(pkg)
         \/ \E env \in SUBSET {OwnVariable} : FillHooks(env)

GenNext == Generate \/ Build
-----------------------------------------------------------------------------
\* A manager's own code uses the activities of everything it takes.
WorkerFits(k) ==
    /\ k \in DOMAIN tree.workers
    /\ {dep \in Takes(project.cs[k]) : project.cs[dep].layer \in {"resourceAccess", "utility"}}
         \subseteq tree.workers[k]

\* What the compiler asks of the server, hooks.go included.
ServerBuilds ==
    /\ NamesResolve(tree.root)
    /\ ImportsResolve(tree.root, landed \union {x.path : x \in tree.clients})
    /\ \A x, y \in tree.clients : x.path = y.path => x = y
    /\ CallsFit(tree.root, project.cs)
    /\ tree.root.cfg \subseteq tree.config
    /\ \A s \in tree.root.stmts :
         s.key # "" /\ project.cs[s.key].layer = "manager" => WorkerFits(s.key)

(* Whenever the four commands have been run, whatever has landed by then   *)
(* and in whatever order, and whichever of them refused and left an older  *)
(* root in place, the server builds once hooks.go has the methods that its *)
(* interface asks for: every local is defined once, before it is used, and *)
(* used, every import is there under a name of its own, every constructor  *)
(* is called as it was generated, every field of Config exists.            *)
RootBuilds == Fresh /\ tree.root # NoRoot /\ tree.root.hooks \subseteq hooks.methods => ServerBuilds

(* What a project has to be for that: nothing in the repository checks it.  *)

\* The locals the root has of its own, the packages it imports whatever the
\* components are, and those it does not know by their leaf.
OwnLocals == Given \union {"profile", "telemetryProvider", "shutdownTelemetry", "tracingInterceptor", "tc", "pool",
                          "sec", "validator", "dev", "webManagers", "genServer", "root", "handler", "srv",
                          "serverErr", "shutdownCtx", "cancel", "mcpServer"}
OwnLeaves == {"context", "slog", "signal", "syscall", "client", "interceptor", "workflow", "temporalotel",
              "temporalprop", "tlog", "otelinfra", "telemetry", "time", "worker", "postgresinfra", "pgxpool",
              "http", "otelhttp", "security", "errors", "mcp", "web"}
Renamed == {"temporalotel", "temporalprop", "tlog", "otelinfra", "postgresinfra", "web"}

\* No name for two things: a component's key, its package's leaf, the root's
\* own; every Manager in a package that no other shares the leaf of; and
\* nothing taken by an Engine.
WellContracted(cs) ==
    /\ DepsLegal(cs)
    /\ DOMAIN cs \intersect (OwnLocals \union OwnLeaves \union {"", "temporal", "postgres", "otel"}) = {}
    /\ \A k \in DOMAIN cs :
         /\ cs[k].pkg # <<>> => /\ cs[k].pkg = <<cs[k].pkg[1], cs[k].pkg[2]>>
                               /\ Leaf(cs[k].pkg) \notin OwnLocals \union OwnLeaves \union DOMAIN cs
         /\ Pure(cs[k]) => cs[k].deps = <<>>
         /\ cs[k].infra # {} => cs[k].layer \in {"resourceAccess", "utility"}
         /\ cs[k].layer = "manager" => ~cs[k].stub /\ cs[k].pkg # <<>>
    /\ \A j, k \in DOMAIN cs :
         cs[j].layer = "manager" /\ cs[k].layer = "manager" /\ Leaf(cs[j].pkg) = Leaf(cs[k].pkg) => j = k

\* A package that the type of a hook may name: one of no component, or the one
\* of a component that is there with the hook, which then goes by its leaf.
NamedApart(cs, pkg) ==
    /\ pkg = Outside(pkg[2])
    /\ pkg[2] \notin OwnLocals \union Renamed \union DOMAIN cs
    /\ \A k \in DOMAIN cs : cs[k].pkg # <<>> => Leaf(cs[k].pkg) # pkg[2]
NamedByLeaf(cs, keys, pkg) ==
    /\ \E k \in keys : k \in DOMAIN cs /\ cs[k].pkg = pkg /\ pkg # <<>>
    /\ \A k \in DOMAIN cs : cs[k].pkg # <<>> /\ Leaf(cs[k].pkg) = Leaf(pkg) => cs[k].pkg = pkg
WellNamed(cs, keys, pkg) == NamedApart(cs, pkg) \/ NamedByLeaf(cs, keys, pkg)

WellHooked(cs, knobs) ==
    /\ \A x \in DOMAIN knobs.hooked :
         /\ ToSet(knobs.hooked[x]) \intersect {"ctx", "pool", "tc"} = {}
         /\ knobs.hooked[x] \in Seq(ToSet(knobs.hooked[x]))
         /\ \A pkg \in knobs.imports[x] : WellNamed(cs, {x[1]}, pkg)
    /\ \A k \in DOMAIN cs : cs[k].layer = "manager" =>
         \A dep \in ToSet(cs[k].deps) : dep.comp = "" /\ dep.import # <<>> => WellNamed(cs, Takes(cs[k]), dep.import)

\* A deployment that was authored binds accesses and Utilities, each once, to
\* constructors that they have, and declares what they and the Managers need.
WellDeployed(m, knobs) ==
    /\ DeploymentLegal(m.cs, m.d) /\ ConfigRefusals(m.d) = {}
    /\ (\E k \in DOMAIN m.cs : m.cs[k].layer = "manager") => HasTemporal(m)
    /\ {"listenAddr", "shutdownTimeout"} \subseteq m.d.settings
    /\ \A b, c \in m.d.bindings : b.comp = c.comp => b = c
    /\ \A b \in m.d.bindings :
         /\ m.cs[b.comp].layer \in {"resourceAccess", "utility"}
         /\ b.settings \subseteq m.d.settings /\ IsFiniteSet(b.settings)
         /\ \A p \in DOMAIN b.per : b.per[p].infra \in Seq(KeysOf(m.d.decls))
         /\ b \in Accesses(m) => ArmCalls(m, knobs, b) \subseteq Constructors(m.cs[b.comp])

\* The two generators that go by the clients agree on the Managers they expose.
SurfacesAgree(m, knobs) ==
    /\ \A k \in ExposedManagers(m, knobs) : m.cs[k].layer = "manager"
    /\ \A k \in DOMAIN m.cs : m.cs[k].layer = "manager" =>
         /\ WebExposed(m, knobs, k) => k \in ExposedManagers(m, knobs)
         /\ \A id \in MCPClients(m.sys) : Fronts(m, knobs, id, k) =>
              k \in ExposedManagers(m, knobs) /\ id \in MachineClients(m, knobs, k)
         /\ knobs.managers.given => k \in knobs.managers.keys

\* Once everything has landed.
Whole(p) == [cs |-> p.cs, sys |-> p.sys, d |-> EffectiveDeployment(p.cs, p.sys, p.authored, "server")]

\* A derived deployment binds a component to each kind of infrastructure that
\* its contract lists, and the root then defines it once for each.
BoundOnce(cs) == \A k \in Served(cs) : ~({"Postgres", "ExternalHTTP"} \subseteq cs[k].infra)

WellMade(p) ==
    /\ WellContracted(p.cs)
    /\ IF p.authored.containers # {} THEN WellDeployed(Whole(p), p.knobs)
       ELSE BoundOnce(p.cs) /\ DOMAIN p.knobs.hooked = {} /\ p.knobs.noError = {}
    /\ WellHooked(p.cs, p.knobs)
    /\ SurfacesAgree(Whole(p), p.knobs)

\* What SurfacesServed asks for besides: the whole is not refused, every
\* Manager takes something, and what is generated for a Manager is what the
\* root mounts of it, the tools for one client.
WellSurfaced(p) ==
    LET m == Whole(p)
    IN  /\ RootRefusals(m, p.knobs) = {} /\ PlanRefusals(m.d, m.sys) = {}
        /\ \A k \in DOMAIN m.cs : m.cs[k].layer = "manager" => m.cs[k].deps # <<>>
        /\ \A k \in ExposedManagers(m, p.knobs) :
             /\ WebExposed(m, p.knobs, k)
             /\ \A id \in MachineClients(m, p.knobs, k) :
                  {other \in MCPClients(m.sys) : Fronts(m, p.knobs, other, k)} = {id}

\* Everything a landed component takes has landed, and the deployment can
\* give every infrastructure.
Wirable(m) ==
    /\ \A k \in DOMAIN m.cs : m.cs[k].pkg # <<>> => Takes(m.cs[k]) \subseteq DOMAIN m.cs
    /\ \A k \in DOMAIN m.cs : m.cs[k].layer = "resourceAccess" => IsBound(m, k)

(* When the components land in the order of their dependencies, the        *)
(* composition is not refused; and then every manager that has landed is   *)
(* constructed, and every handler and tool table that clientgen made of it *)
(* is served by the root: no surface is generated and left unmounted.      *)
SurfacesServed ==
    LET m == Model(FALSE)
    IN  Fresh =>
          /\ Wirable(m) /\ hooks.env = {} => refused = {}
          /\ "compose" \notin refused =>
               /\ BuiltManagers(m) \subseteq {s.key : s \in tree.root.stmts}
               /\ \A x \in tree.clients :
                    x.key # "" => \E i \in tree.root.imports : i.path = x.path
-----------------------------------------------------------------------------
VARIABLE given  \* the variables the person supplies

allVars == <<genVars, vars, given>>

DeliveryInit == GenInit /\ Init /\ given = {}

Surface == IF BuiltSurfaces(project.sys) = {} THEN {} ELSE {"web"}

\* Once construction is done; the tools it needs are there.
Complete == /\ Fresh /\ refused = {} /\ landed = Packages
            /\ tree.root # NoRoot /\ tree.root.hooks \subseteq hooks.methods

Launch == /\ Complete
          /\ given' \in SUBSET tree.plan.required
          /\ Begin(tree.plan.substrates \union Surface, given' = tree.plan.required)
          /\ UNCHANGED genVars

Construct == GenNext /\ pc = "off" /\ UNCHANGED <<vars, given>>
Launcher == Run /\ UNCHANGED <<genVars, given>>
Docker == DaemonStarts /\ UNCHANGED <<genVars, given>>
Others == World /\ UNCHANGED <<genVars, given>>

DeliveryNext == Construct \/ Launch \/ Launcher \/ Others

(* The launcher goes on: its waits have deadlines, docker answers, and a   *)
(* kill is final.  Nobody need ever land, launch or interrupt anything,    *)
(* and no child ends of its own accord.                                    *)
DeliverySpec == /\ DeliveryInit /\ [][DeliveryNext]_allVars
                /\ WF_allVars(Launcher) /\ WF_allVars(Docker)
-----------------------------------------------------------------------------
\* What the server reads under the local profile without a default of its
\* own: what LoadConfig insists on there, and the infrastructure behind every
\* value it constructs there.
LocalArms(m) == {b \in Accesses(m) : "local" \in Arms(m, b)}
ReadLocally(m) ==
    LET used == UNION {ToSet(b.per["local"].infra) : b \in LocalArms(m)}
    IN  HardRequired(m.d)
        \union (UNION {FieldsOf(decl) : decl \in OfSubstrate(m.d, "temporal")})
        \union UNION {FieldsOf(decl) : decl \in {decl \in m.d.decls :
                        decl.key \in used /\ RequiredClass(decl)}}

\* What an authored deployment has to say for that; nothing checks it, and a
\* derived one always does.
LocallyDeclared(d) ==
    /\ "local" \in d.profiles
    /\ OfSubstrate(d, "temporal") \subseteq Local(d)
    /\ \A b \in d.bindings : "local" \in DOMAIN b.per =>
         {decl \in d.decls : decl.key \in ToSet(b.per["local"].infra)} \subseteq Local(d)
AuthoredLocally == \A p \in Projects : p.authored.containers # {} => LocallyDeclared(p.authored)

(* The server never runs without an input it needs under the local         *)
(* profile: the launcher has started the infrastructure that provides it,  *)
(* or has refused to start anything until the person supplied it.          *)
LauncherSuffices ==
    proc["server"] # "none" =>
      ReadLocally(Model(FALSE)) \subseteq tree.plan.provisioned \union given
=============================================================================
