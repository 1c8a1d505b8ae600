--------------------------- MODULE CompositionRoot ---------------------------
(***************************************************************************)
(* composegen: from a project to the generated composition root, or to the *)
(* reasons why there is none.  A root is what the Go compiler looks at:    *)
(*   imports : a set of [path, as];                                        *)
(*   stmts   : a set of [at, name, key, of, call, reads]: the local that   *)
(*             the statement defines, the contract it constructs ("" if    *)
(*             none), the binding that the arms of one switch share, the   *)
(*             constructor call [fn, args, err] and the names it reads;    *)
(*             statements of one stage (at) do not depend on each other;   *)
(*   cfg     : the fields of Config it reads;                              *)
(*   hooks   : the methods of its Hooks interface;                         *)
(*   named   : the packages that their types name, each by its leaf;       *)
(*   web, mounts : the managers behind REST handlers and MCP tool tables.  *)
(* A project m is [cs, sys, d]: the contracts whose packages hold code, the*)
(* system and the effective deployment.  Knobs are those of appgen.json.   *)
(* Every name of Go is told apart from the others by what it is made of.   *)
(***************************************************************************)
EXTENDS Deployments

Constructible(m, k) == k \in DOMAIN m.cs /\ m.cs[k].pkg # <<>>

-----------------------------------------------------------------------------
(* modelgen: the constructors that a contract's package exports            *)

InfraParams ==
    [Postgres |-> [args |-> <<"ctx", "pool">>, err |-> TRUE],
     ExternalHTTP |-> [args |-> <<"string", "*http.Client">>, err |-> TRUE],
     Temporal |-> [args |-> <<"tc", "table">>, err |-> FALSE],
     GitHubActions |-> [args |-> <<"app", "string", "string", "string", "string", "int64">>, err |-> TRUE]]

DepType(dep) == IF dep.comp # "" THEN dep.comp ELSE dep.type
DepTypes(c) == [i \in DOMAIN c.deps |-> DepType(c.deps[i])]

Call(fn, args, err) == [fn |-> fn, args |-> args, err |-> err]

\* A ResourceAccess without infrastructure has an interface only.
Constructors(c) ==
    c.hand \union
    IF c.stub THEN {Call("", <<>>, FALSE)}
    ELSE IF c.layer \in {"resourceAccess", "utility"} /\ c.infra # {}
         THEN {Call(name, InfraParams[name].args, InfraParams[name].err) : name \in c.infra}
    ELSE IF c.layer \in {"resourceAccess", "client"} THEN {}
    ELSE {Call("", DepTypes(c), FALSE)}
-----------------------------------------------------------------------------
(* Import aliases *)

Leaf(pkg) == pkg[2]
Pure(c) == c.layer = "engine" \/ (c.layer = "utility" /\ c.infra = {})
WithDeps(c) == c.layer = "manager" /\ c.deps # <<>>
IsBound(m, k) == \E b \in m.d.bindings : b.comp = k

ImportsAsComponent(c) == Pure(c) \/ WithDeps(c)

AliasPackages(m) ==
    {m.cs[k].pkg : k \in {k \in DOMAIN m.cs :
       Constructible(m, k) /\ (IsBound(m, k) \/ ImportsAsComponent(m.cs[k]))}}

\* A mistake for the checks to find: the leaf is taken to be unique.
LeafAlone(m, pkg) == <<Leaf(pkg)>>

\* <<leaf>>, or <<parent, leaf>> when two packages share the leaf.
AliasOf(m, pkg) ==
    IF \E other \in AliasPackages(m) \ {pkg} : Leaf(other) = Leaf(pkg) THEN pkg ELSE <<Leaf(pkg)>>
-----------------------------------------------------------------------------
(* Bindings *)

Bound(m) == {b \in m.d.bindings : Constructible(m, b.comp)}
Arms(m, b) == DOMAIN b.per \intersect m.d.profiles
Optional(b) == b.presence \in {"optional", "optional-dormant"}

\* An arm-less binding is a stub when it is required, and nil otherwise.
LeftNil(m, b) == Arms(m, b) = {} /\ b.presence # "required"
Accesses(m) == {b \in Bound(m) : ~LeftNil(m, b)}
NilComps(m) == {b.comp : b \in Bound(m)} \ {b.comp : b \in Accesses(m)}

Switched(m, b) == \/ Cardinality(Arms(m, b)) > 1
                  \/ Arms(m, b) # {} /\ Optional(b)
NeedProfile(m) == \E b \in Accesses(m) : Switched(m, b)

\* appgen's composeConfig: an ExternalHTTP variant always has its hook, and
\* its constructor returns an error.
External(b, p) == b.per[p].variant = "ExternalHTTP"
Hooked(knobs, b, p) == <<b.comp, b.per[p].variant>> \in DOMAIN knobs.hooked \/ External(b, p)
Outside(name) == <<"framework", name>>  \* a package of no component
HookTypes(knobs, b, p) ==
    IF <<b.comp, b.per[p].variant>> \in DOMAIN knobs.hooked
    THEN knobs.hooked[<<b.comp, b.per[p].variant>>] ELSE <<"string", "*http.Client">>
HookImports(knobs, b, p) ==
    IF <<b.comp, b.per[p].variant>> \in DOMAIN knobs.hooked
    THEN knobs.imports[<<b.comp, b.per[p].variant>>] ELSE {Outside("http")}

ReturnsError(knobs, b, p) ==
    \/ External(b, p)
    \/ b.per[p].infra # <<>> /\ <<b.comp, b.per[p].variant>> \notin knobs.noError

SubstrateOf(m, key) == DeclOf(m.d, key).substrate

\* variantArgsForSubstrate, and what a hooked call gets ahead of its hook.
InfraArgs(m, key) ==
    CASE SubstrateOf(m, key) = "temporal" -> <<"tc">>
      [] SubstrateOf(m, key) = "postgres" -> <<"ctx", "pool">>
      [] OTHER -> [i \in 1 .. Cardinality(Inputs(SubstrateOf(m, key))) |-> "string"]
ExtraArgs(m, key) == IF SubstrateOf(m, key) = "temporal" THEN <<"tc">> ELSE <<>>

Each(keys, Args(_)) == FlattenSeq([i \in DOMAIN keys |-> Args(keys[i])])

ArmCall(m, knobs, b, p) ==
    LET infra == b.per[p].infra
        given == [i \in 1 .. Cardinality(b.settings) |-> "string"]
    IN  Call(b.per[p].variant,
             IF Hooked(knobs, b, p)
             THEN Each(infra, LAMBDA key : ExtraArgs(m, key)) \o HookTypes(knobs, b, p)
             ELSE Each(infra, LAMBDA key : InfraArgs(m, key)) \o given,
             ReturnsError(knobs, b, p))

ArmCalls(m, knobs, b) ==
    IF Arms(m, b) = {} THEN {Call("", <<>>, FALSE)}
    ELSE {ArmCall(m, knobs, b, p) : p \in Arms(m, b)}

\* The fields of Config an arm reads.
ArmFields(m, knobs, b, p) ==
    IF Hooked(knobs, b, p) THEN {}
    ELSE {Setting(s) : s \in b.settings} \union
         UNION {FieldsOf(DeclOf(m.d, key)) :
                  key \in {key \in ToSet(b.per[p].infra) :
                             SubstrateOf(m, key) \notin {"temporal", "postgres"}}}

Consumed(m) ==
    UNION {UNION {ToSet(b.per[p].infra) : p \in Arms(m, b) \intersect m.d.profiles} : b \in Accesses(m)}
UsesPostgres(m) == \E key \in Consumed(m) : SubstrateOf(m, key) = "postgres"

\* The pool is opened under some of the profiles only.
PoolGuarded(m) ==
    NeedProfile(m) /\ \E decl \in OfSubstrate(m.d, "postgres") : Cardinality(decl.profiles) < Cardinality(m.d.profiles)
-----------------------------------------------------------------------------
(* Engines, managers and their dependencies *)

BuiltManagers(m) == {k \in DOMAIN m.cs : m.cs[k].layer = "manager" /\ Constructible(m, k)}
Managers(m) == {k \in BuiltManagers(m) : m.cs[k].deps # <<>>}

ComponentsWanted(m) == UNION {Takes(m.cs[k]) : k \in BuiltManagers(m)}

Engines(m) == {k \in DOMAIN m.cs : /\ Pure(m.cs[k]) /\ Constructible(m, k)
                                   /\ k \notin {b.comp : b \in Bound(m)}
                                   /\ k \in ComponentsWanted(m)}

Valued(m) == {b.comp : b \in Bound(m)} \union Engines(m)

IsTemporalClient(dep) == dep.comp = "" /\ dep.type = "client.Client"
HasTemporal(m) == OfSubstrate(m.d, "temporal") # {}

FromSetting(m, dep) == dep.comp = "" /\ ~IsTemporalClient(dep) /\ dep.name \in m.d.settings
FromHook(m, dep) == dep.comp = "" /\ ~IsTemporalClient(dep) /\ dep.name \notin m.d.settings

Dormant(m) == {b.comp : b \in {b \in m.d.bindings : b.presence = "optional-dormant"}}
Gated(m, k) == Takes(m.cs[k]) \intersect Dormant(m) # {}
-----------------------------------------------------------------------------
(* Surfaces *)

\* A client of any build status exposes the managers it is related to,
\* unless the knob names them.
WebExposed(m, knobs, k) ==
    IF knobs.web.given THEN k \in knobs.web.keys
    ELSE \E r \in m.sys.rels : /\ m.sys.comps[r[1]].layer = "client"
                              /\ r[2] \in Joined(m.sys, k)

WebManagers(m, knobs) == {k \in Managers(m) : WebExposed(m, knobs, k)}

MCPClients(sys) == {id \in DOMAIN sys.comps : /\ sys.comps[id].kind = "client" /\ IsBuilt(sys.comps[id])
                                             /\ sys.comps[id].ui # "browser" /\ sys.comps[id].protocol = "mcp"}

Fronts(m, knobs, id, k) ==
    IF knobs.exposed.given THEN k \in knobs.exposed.keys
    ELSE \E joined \in Joined(m.sys, k) : <<id, joined>> \in m.sys.rels

\* A mistake for the checks to find: a manager has handlers or tools, not both.
OneSurface(m, knobs) ==
    {<<CHOOSE id \in MCPClients(m.sys) : Fronts(m, knobs, id, k), k>> :
       k \in {k \in Managers(m) \ WebManagers(m, knobs) : \E id \in MCPClients(m.sys) : Fronts(m, knobs, id, k)}}

\* A manager's tool table is mounted once, for one of the clients.
Mounts(m, knobs) ==
    {<<CHOOSE id \in MCPClients(m.sys) : Fronts(m, knobs, id, k), k>> :
       k \in {k \in Managers(m) : \E id \in MCPClients(m.sys) : Fronts(m, knobs, id, k)}}

ServesWeb(m, knobs) == "webDistDir" \in m.d.settings /\ WebManagers(m, knobs) # {}
-----------------------------------------------------------------------------
(* Why there is no root *)

NeedsTemporal(m) ==
    ~HasTemporal(m) /\ \E k \in Managers(m) : \E dep \in ToSet(m.cs[k].deps) : IsTemporalClient(dep)

\* RegisterSchedules would be called with a nil bus.
NilRegistrar(m, knobs) ==
    {k \in Managers(m) : knobs.registrar \in Takes(m.cs[k]) \intersect NilComps(m)}

Unserved(m, knobs) == {mount \in Mounts(m, knobs) : mount[2] \notin WebManagers(m, knobs)}

RootRefusals(m, knobs) ==
    {<<"no temporal">> : x \in IF NeedsTemporal(m) THEN {1} ELSE {}}
    \union (UNION {{<<"no value", k, dep>> : dep \in Takes(m.cs[k]) \ Valued(m)} : k \in Managers(m)})
    \union {<<"nil registrar", k>> : k \in NilRegistrar(m, knobs)}
    \union {<<"unserved", mount[1]>> : mount \in Unserved(m, knobs)}
    \union {<<"no webDistDir">> : x \in IF BuiltSurfaces(m.sys) # {} THEN {"webDistDir"} \ m.d.settings ELSE {}}
-----------------------------------------------------------------------------
(* The root *)

Hooks(m, knobs) ==
    {<<"ResolveProfile">>}
    \union (IF HasTemporal(m) THEN {<<"TemporalLogger">>} ELSE {})
    \union (IF WebManagers(m, knobs) = {} THEN {}
            ELSE {<<"PolicyDecisionPoint">>, <<"TokenValidator">>, <<"DevConfig">>, <<"WrapManagers">>,
                  <<"ExtraMounts">>})
    \union (UNION {{<<"Args", b.comp, b.per[p].variant>> : p \in {p \in Arms(m, b) : Hooked(knobs, b, p)}} :
                    b \in Accesses(m)})
    \union {<<"Finalize", b.comp>> : b \in Accesses(m)}
    \union {<<"Register", k>> : k \in {k \in Managers(m) : Gated(m, k)}}
    \union UNION {{<<"Value", k, dep.name>> : dep \in {dep \in ToSet(m.cs[k].deps) : FromHook(m, dep)}} :
                    k \in Managers(m)}

CfgFields(m, knobs) ==
    (UNION {UNION {ArmFields(m, knobs, b, p) : p \in Arms(m, b)} : b \in Accesses(m)})
    \union (UNION {{Setting(dep.name) : dep \in {dep \in ToSet(m.cs[k].deps) : FromSetting(m, dep)}} : k \in Managers(m)})
    \union (UNION {FieldsOf(decl) : decl \in OfSubstrate(m.d, "temporal")})
    \union (IF UsesPostgres(m) THEN UNION {FieldsOf(decl) : decl \in OfSubstrate(m.d, "postgres")} ELSE {})
    \union (IF WebManagers(m, knobs) # {} THEN {Setting("listenAddr"), Setting("shutdownTimeout")} ELSE {})
    \union (IF ServesWeb(m, knobs) THEN {Setting("webDistDir")} ELSE {})

ConstructedKeys(m) == {b.comp : b \in Accesses(m)} \union Engines(m) \union Managers(m)

\* A switch whose default arm is an error.
Insists(m, b) == b.presence = "required" /\ Cardinality(Arms(m, b)) > 1

\* The framework's packages under the names the root gives them.
Framework(m, knobs) ==
    {"context", "slog", "signal", "syscall"}
    \union (IF HasTemporal(m) THEN {"client", "interceptor", "workflow", "temporalotel", "temporalprop", "tlog"} ELSE {})
    \union (IF OfSubstrate(m.d, "otel") # {} THEN {"otelinfra", "telemetry", "time"} ELSE {})
    \union (IF Managers(m) # {} THEN {"worker"} ELSE {})
    \union (IF UsesPostgres(m) THEN {"postgresinfra"} ELSE {})
    \union (IF UsesPostgres(m) /\ PoolGuarded(m) THEN {"pgxpool"} ELSE {})
    \union (IF \E b \in Accesses(m) : Insists(m, b) THEN {"errors"} ELSE {})
    \union (IF WebManagers(m, knobs) # {} THEN {"http", "otelhttp", "security", "errors", "time"} ELSE {})
    \union (IF Mounts(m, knobs) # {} THEN {"mcp"} ELSE {})

\* What the types of the arguments hooks and of the plain dependencies name.
HookPackages(m, knobs) ==
    (UNION {UNION {HookImports(knobs, b, p) : p \in {p \in Arms(m, b) : Hooked(knobs, b, p)}} : b \in Accesses(m)})
    \union ((UNION {{dep.import : dep \in {dep \in ToSet(m.cs[k].deps) : FromHook(m, dep)}} : k \in Managers(m)}) \ {<<>>})

Import(path, as) == [path |-> path, as |-> as]

\* A path is imported once: a component's alias stands for the hooks, too.
Imports(m, knobs) ==
    {Import(Outside(name), <<name>>) : name \in Framework(m, knobs)}
    \union {Import(m.cs[k].pkg, AliasOf(m, m.cs[k].pkg)) : k \in ConstructedKeys(m)}
    \union {Import(pkg, <<Leaf(pkg)>>) : pkg \in HookPackages(m, knobs) \ {m.cs[k].pkg : k \in ConstructedKeys(m)}}
    \union (IF WebManagers(m, knobs) # {} THEN {Import(<<"client", "web">>, <<"web">>)} ELSE {})
    \union {Import(<<"web", Leaf(m.cs[k].pkg)>>, <<Leaf(m.cs[k].pkg), "web">>) : k \in WebManagers(m, knobs)}
    \union {Import(<<mount[1], Leaf(m.cs[mount[2]].pkg)>>, <<Leaf(m.cs[mount[2]].pkg), "mcp">>) :
              mount \in Mounts(m, knobs)}

\* The root's own locals.  All but the profile are used where they are made.
Satellites(m, knobs) ==
    (IF NeedProfile(m) THEN {"profile"} ELSE {})
    \union (IF OfSubstrate(m.d, "otel") # {} THEN {"telemetryProvider", "shutdownTelemetry"} ELSE {})
    \union (IF HasTemporal(m) THEN {"tracingInterceptor", "tc"} ELSE {})
    \union (IF UsesPostgres(m) THEN {"pool"} ELSE {})
    \union (IF WebManagers(m, knobs) = {} THEN {}
            ELSE {"sec", "validator", "dev", "webManagers", "genServer", "root", "handler", "srv", "serverErr",
                  "shutdownCtx", "cancel"})
    \union (IF Mounts(m, knobs) # {} THEN {"mcpServer"} ELSE {})

StageOf(name) ==
    CASE name = "profile" -> 1
      [] name \in {"telemetryProvider", "shutdownTelemetry", "tracingInterceptor", "tc"} -> 2
      [] name = "pool" -> 3
      [] OTHER -> 7

SatelliteStmt(m, name) ==
    [at |-> StageOf(name), name |-> name, key |-> "", of |-> {}, call |-> Call("", <<>>, FALSE),
     reads |-> CASE name = "profile" -> {}
                 [] name = "pool" /\ PoolGuarded(m) -> {"pool", "profile"}
                 [] OTHER -> {name}]

CallReads(call) == ToSet(call.args) \intersect {"ctx", "pool", "tc"}

\* A binding's value is read by its Finalize hook.
AccessStmt(m, b, call) ==
    [at |-> 4, name |-> b.comp, key |-> b.comp, of |-> {b}, call |-> call,
     reads |-> {b.comp} \union CallReads(call) \union IF Switched(m, b) THEN {"profile"} ELSE {}]

AccessStmts(m, knobs) ==
    UNION {{AccessStmt(m, b, call) : call \in ArmCalls(m, knobs, b)} : b \in Accesses(m)}

EngineStmts(m) ==
    {[at |-> 5, name |-> k, key |-> k, of |-> {}, call |-> Call("", <<>>, FALSE), reads |-> {}] : k \in Engines(m)}

\* The constructor, then the manager's own worker.
ManagerStmts(m) ==
    {[at |-> 6, name |-> k, key |-> k, of |-> {}, call |-> Call("", DepTypes(m.cs[k]), FALSE),
      reads |-> (Takes(m.cs[k]) \ NilComps(m)) \union {k, "tc"}] : k \in Managers(m)}

Root(m, knobs) ==
    [imports |-> Imports(m, knobs),
     stmts |-> {SatelliteStmt(m, name) : name \in Satellites(m, knobs)}
               \union AccessStmts(m, knobs) \union EngineStmts(m) \union ManagerStmts(m),
     cfg |-> CfgFields(m, knobs), hooks |-> Hooks(m, knobs), named |-> HookPackages(m, knobs),
     web |-> WebManagers(m, knobs), mounts |-> Mounts(m, knobs)]
-----------------------------------------------------------------------------
(* The Go compiler *)

\* Parameters, and the locals of every root.
Given == {"ctx", "cfg", "hooks", "logger", "stop", "err"}
Defined(stmts) == {s.name : s \in stmts}

\* Every name is defined once, but by the arms of one switch, before it is
\* read, and read by something; and no local takes the name of a package.
NamesResolve(root) ==
    /\ \A s \in root.stmts : \A name \in s.reads \ {s.name} :
         name \in Given \/ \E t \in root.stmts : t.name = name /\ t.at < s.at
    /\ \A s, t \in root.stmts : s.name = t.name => s.at = t.at /\ s.key = t.key /\ s.of = t.of
    /\ Defined(root.stmts) \subseteq UNION {s.reads : s \in root.stmts}
    /\ Given \intersect Defined(root.stmts) = {}
    /\ \A i \in root.imports : \A name \in Given \union Defined(root.stmts) : i.as # <<name>>

\* No two imports share a name, the packages are there, and those that the
\* types of the hooks name go by their leaf.
ImportsResolve(root, packages) ==
    /\ \A i, j \in root.imports : i # j => i.as # j.as
    /\ \A i \in root.imports : i.path = Outside(i.path[2]) \/ i.path \in packages
    /\ \A pkg \in root.named : Import(pkg, <<Leaf(pkg)>>) \in root.imports

\* Every constructor is called as it was generated or written.
CallsFit(root, cs) == \A s \in root.stmts : s.key # "" => s.call \in Constructors(cs[s.key])

-----------------------------------------------------------------------------
(* clientgen and temporalgen: the packages generated around the managers:  *)
(* REST handlers, MCP tool tables and the workers with their activities.   *)

BuiltClients(sys) == {id \in DOMAIN sys.comps : sys.comps[id].kind = "client" /\ IsBuilt(sys.comps[id])}

\* managersOf: by the relationships of one client.
ManagersBehind(m, id) ==
    {ContractKey(m.sys, r[2]) : r \in {r \in m.sys.rels : /\ r[1] = id
                                                         /\ m.sys.comps[r[2]].kind = "manager"}}
    \intersect DOMAIN m.cs

ExposedManagers(m, knobs) ==
    IF knobs.exposed.given THEN knobs.exposed.keys \intersect DOMAIN m.cs
    ELSE UNION {ManagersBehind(m, id) : id \in BuiltClients(m.sys)}

MachineClients(m, knobs, k) ==
    {id \in MCPClients(m.sys) : knobs.exposed.given \/ k \in ManagersBehind(m, id)}

ClientRefusals(m, knobs) == {<<"no goPackage", k>> : k \in {k \in ExposedManagers(m, knobs) : m.cs[k].pkg = <<>>}}

\* The generated packages, and whose handler or tool table each one holds.
Generated(path, k) == [path |-> path, key |-> k]

ClientPackages(m, knobs) ==
    {Generated(<<"web", Leaf(m.cs[k].pkg)>>, k) : k \in ExposedManagers(m, knobs)}
    \union (UNION {{Generated(<<id, Leaf(m.cs[k].pkg)>>, k) : id \in MachineClients(m, knobs, k)} :
                    k \in ExposedManagers(m, knobs)})
    \union (IF ExposedManagers(m, knobs) = {} THEN {} ELSE {Generated(<<"client", "web">>, "")})

-----------------------------------------------------------------------------
\* The managers of the temporal command: the knob's, or every one with a
\* package, whether or not its own code is there yet.
TemporalManagers(m, knobs) ==
    IF knobs.managers.given THEN knobs.managers.keys \intersect DOMAIN m.cs
    ELSE {k \in DOMAIN m.cs : m.cs[k].layer = "manager" /\ m.cs[k].pkg # <<>>}

\* The dependencies whose operations become activities.
ActivityDeps(m, k) ==
    {dep \in Takes(m.cs[k]) : /\ Constructible(m, dep)
                              /\ m.cs[dep].layer \in {"resourceAccess", "utility"}}

Workers(m, knobs) == [k \in TemporalManagers(m, knobs) |-> ActivityDeps(m, k)]
=============================================================================
