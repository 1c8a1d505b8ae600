---------------------------- MODULE DesignRules ----------------------------
(***************************************************************************)
(* methodcheck: what a design is held to beyond its static architecture.   *)
(*                                                                         *)
(* rules_callchain.go: the steps of a dynamic view against the activity    *)
(* diagram of its use case, and the diagram's own rules (rules.go,         *)
(* rules_statevalidation.go).  A diagram g is that of DiagramWalks (g.kind *)
(* of the nodes, g.edges) with g.lane, the actor a node is laned to, and   *)
(* g.decider, who decides it, "" for none.  An edge's guard is "" when it  *)
(* is a plain control flow, and "?" when it is guarded by no text.  Each   *)
(* rule is the set of what it reports.                                     *)
(*                                                                         *)
(* rules_deployment.go, rules_deployment_edges.go: the deployment, with    *)
(* the relationships it derives from the architecture                      *)
(* (deployment_derive.go).  A topology t has t.style; t.containers, a      *)
(* sequence of [key, comps, surface], comps the names of the components it *)
(* packages; and t.envs, a sequence of [profile, elements, rels].  The     *)
(* tree of nodes is flattened as the code flattens it: elements is a       *)
(* sequence of [key, kind, container, name, role], container being what an *)
(* instance instances; rels is a set of [from, to].  Labels, technologies  *)
(* and notes are left out.                                                 *)
(***************************************************************************)
EXTENDS SystemRules, SequencesExt, DiagramWalks

CONSTANTS PathBudget,   \* pathWorkBudget, maxActivityPaths
          PathCap

Nodes(g) == DOMAIN g.kind
Edges(g) == {g.edges[i] : i \in DOMAIN g.edges}
InEdges(g, n) == {i \in DOMAIN g.edges : g.edges[i].to = n}
MustHaveStep == {"action"} \union Events
MayHaveStep == {"decision", "switch"}

-----------------------------------------------------------------------------
(* The diagram *)

Branching(g, n) ==
    LET guarded == {i \in Out(g, n) : g.edges[i].guard # ""}
    IN  CASE g.kind[n] = "decision" -> Cardinality(guarded) >= 2 /\ guarded = Out(g, n)
          [] g.kind[n] = "fork" -> Cardinality(Out(g, n)) >= 2 /\ guarded = {}
          [] g.kind[n] \in {"merge", "join"} -> Cardinality(InEdges(g, n)) >= 2 /\ guarded = {}
          [] OTHER -> guarded = {}

EntryEvents(g, kinds) == {n \in Nodes(g) : g.kind[n] \in kinds /\ InEdges(g, n) = {}}

HasEntryAndAction(g) ==
    /\ \E n \in Nodes(g) : g.kind[n] = "start" \/ n \in EntryEvents(g, Events)
    /\ \E n \in Nodes(g) : g.kind[n] = "action"

DiagramSound(g) ==
    /\ \A n \in Nodes(g) : Branching(g, n)
    /\ HasEntryAndAction(g)
    /\ \A e \in Edges(g) : e.guard # "?"

MinCore == 2
MaxCore == 6
CoreUseCases(c) == {uc \in DOMAIN c : c[uc].core}

Variation(c, uc) ==
    IF c[uc].core THEN c[uc].variationOf = ""
    ELSE c[uc].variationOf \in CoreUseCases(c) /\ c[uc].reason

UseCasesAccepted(c) ==
    /\ Cardinality(CoreUseCases(c)) \in MinCore..MaxCore
    /\ \A uc \in DOMAIN c : /\ c[uc].trigger = "clientAction" => c[uc].actors # {}
                            /\ "" \notin c[uc].actors
                            /\ DiagramSound(c[uc].g)
                            /\ Variation(c, uc)

-----------------------------------------------------------------------------
(* The steps *)

\* The first step of a node is the one that realizes it.
StepsOf(v, n) == {i \in DOMAIN v.steps : v.steps[i].node = n}
Realized(v, n) == StepsOf(v, n) # {}
CallsAt(v, n) == v.steps[CHOOSE i \in StepsOf(v, n) : \A j \in StepsOf(v, n) : i <= j].calls

StepIdentity(v, g) ==
    {i \in DOMAIN v.steps : v.steps[i].node \notin Nodes(g) \/ \E j \in 1..(i - 1) : v.steps[j].node = v.steps[i].node}

Coverage(v, g) ==
    {n \in Nodes(g) : g.kind[n] \in MustHaveStep /\ ~Realized(v, n)}
    \union {n \in Nodes(g) : g.kind[n] \notin MustHaveStep \union MayHaveStep /\ Realized(v, n)}

StepEmpty(v) == {i \in DOMAIN v.steps : v.steps[i].calls = <<>>}

\* An end of a call, or a decider, is a component or an actor and not both.
Ambiguous(s, actors, id) == (id \in DOMAIN s.comps) = (id \in actors)

Endpoints(s, v, actors) == {id \in Participants(v) : Ambiguous(s, actors, id)}

\* An actor meets the system at a Client, synchronously.
ActorEdges(s, v, actors) ==
    {e \in StepCalls(v) :
       /\ {e.from, e.to} \intersect actors # {}
       /\ LET other == IF e.to \in actors THEN e.from ELSE e.to
          IN  \/ {e.from, e.to} \subseteq actors
              \/ ~(Known(s, other) /\ s.comps[other].kind = "client")
              \/ e.mode # "sync"}

ActorLane(v, g) ==
    {n \in Nodes(g) : /\ g.lane[n] # "" /\ Realized(v, n)
                      /\ \A i \in DOMAIN CallsAt(v, n) :
                            g.lane[n] \notin {CallsAt(v, n)[i].from, CallsAt(v, n)[i].to}}

DecidedBy(s, g, actors) ==
    {n \in Nodes(g) : g.decider[n] # "" /\ (g.kind[n] \notin MayHaveStep \/ Ambiguous(s, actors, g.decider[n]))}

TriggerMet(g, trigger) ==
    CASE trigger = "timer" -> EntryEvents(g, {"timeEvent"}) # {}
      [] trigger = "busMessage" -> EntryEvents(g, {"acceptEvent"}) # {}
      [] trigger = "clientAction" -> EntryEvents(g, Events) = {}
      [] OTHER -> TRUE

-----------------------------------------------------------------------------
(* The chain a path of the diagram composes *)

\* ccSuffixPathPath: the walk from an event that something leads to is skipped.
SuffixPath(g, n) == g.kind[n] \in Events /\ InEdges(g, n) # {}

ActorToClient(s, actors, call) ==
    call.from \in actors /\ Known(s, call.to) /\ s.comps[call.to].kind = "client"

\* The first call of a path that no actor makes.
RootsEntry(s, kind, call) ==
    \/ /\ kind = "timeEvent" /\ Known(s, call.from) /\ Known(s, call.to)
       /\ s.comps[call.from].kind = "client" /\ s.comps[call.to].kind = "manager"
    \/ kind = "acceptEvent" /\ Known(s, call.to) /\ s.comps[call.to].kind = "manager" /\ call.mode = "queued"

\* A mistake for the checks to find: any call may start a chain.
FirstRoots(s, actors, kind, done, call) ==
    \/ ActorToClient(s, actors, call)
    \/ done = <<>>
    \/ \E i \in DOMAIN done : call.from \in {done[i].from, done[i].to}

CallConnects(s, actors, kind, done, call) ==
    \/ ActorToClient(s, actors, call)
    \/ done = <<>> /\ RootsEntry(s, kind, call)
    \/ done # <<>> /\ \E i \in DOMAIN done : call.from \in {done[i].from, done[i].to}

\* The calls of a path's realized steps, in order.
ChainOf(v, path) ==
    FoldLeft(LAMBDA calls, n : IF Realized(v, n) THEN calls \o CallsAt(v, n) ELSE calls, <<>>, path)

WalkedPaths(g) == {p \in ToSet(ActivityPaths(g, PathBudget, PathCap).paths) : ~SuffixPath(g, Head(p))}

\* The calls of a chain that reach it from nowhere.
Unconnected(s, actors, kind, chain) ==
    {i \in DOMAIN chain : ~CallConnects(s, actors, kind, SubSeq(chain, 1, i - 1), chain[i])}

Disconnected(s, v, g, actors) ==
    UNION {Unconnected(s, actors, g.kind[Head(p)], ChainOf(v, p)) : p \in WalkedPaths(g)}

ViewAccepted(s, v, uc) ==
    /\ StepIdentity(v, uc.g) = {} /\ Coverage(v, uc.g) = {} /\ StepEmpty(v) = {}
    /\ Endpoints(s, v, uc.actors) = {} /\ ActorEdges(s, v, uc.actors) = {}
    /\ ActorLane(v, uc.g) = {} /\ DecidedBy(s, uc.g, uc.actors) = {}
    /\ TriggerMet(uc.g, uc.trigger)
    /\ Disconnected(s, v, uc.g, uc.actors) = {}

CallChainsAccepted(s, c) ==
    \A v \in Views(s) : v.uc \in DOMAIN c /\ ViewAccepted(s, v, c[v.uc])

-----------------------------------------------------------------------------
(* A deployment *)


\* Of several entries with one key an index keeps the last.
LastOf(seq, is) == {seq[i] : i \in {j \in is : \A k \in is : k <= j}}

ElementsOf(env, kind) == {env.elements[i] : i \in {j \in DOMAIN env.elements : env.elements[j].kind = kind}}
AllElements(env) == {env.elements[i] : i \in DOMAIN env.elements}
Instanced(env) == {e.container : e \in ElementsOf(env, "containerInstance")}
ContainerNamed(t, key) == LastOf(t.containers, {i \in DOMAIN t.containers : t.containers[i].key = key})
Containers(t) == {t.containers[i] : i \in DOMAIN t.containers}
Names(s) == {s.comps[id].name : id \in DOMAIN s.comps}

-----------------------------------------------------------------------------
(* Profiles and coverage *)

Expected(style) ==
    {"test"} \union (CASE style = "cloud" -> {"cloud"}
                       [] style = "local" -> {"local"}
                       [] style = "both" -> {"cloud", "local"}
                       [] OTHER -> {})

Profiles(t) == {t.envs[i].profile : i \in DOMAIN t.envs}

\* A local environment a style does not ask for is a developer's: it is held to nothing.
DevBoot(t, profile) == profile = "local" /\ profile \notin Expected(t.style)

EnvOf(t, profile) ==
    IF DevBoot(t, profile) THEN {} ELSE LastOf(t.envs, {i \in DOMAIN t.envs : t.envs[i].profile = profile})

Judged(t) == {t.envs[i] : i \in {j \in DOMAIN t.envs : ~DevBoot(t, t.envs[j].profile)}}

MemberUnknown(s, t) == {x \in Containers(t) : ~(x.comps \subseteq Names(s))}

\* Two containers package one component; one instanced twice does not.
MemberShared(t) ==
    {i \in DOMAIN t.containers : \E j \in DOMAIN t.containers :
        /\ t.containers[i].comps \intersect t.containers[j].comps # {}
        /\ t.containers[i].key # t.containers[j].key}

Malformed(env) ==
    \/ \E e \in ElementsOf(env, "node") : e.name = ""
    \/ Instanced(env) = {}

Covered(t, env) == UNION {x.comps : x \in UNION {ContainerNamed(t, key) : key \in Instanced(env)}}

UnknownContainer(t, env) == {key \in Instanced(env) : ContainerNamed(t, key) = {}}

Unused(t) == {x \in Containers(t) : \A env \in Judged(t) : x.key \notin Instanced(env)}

\* Every core component but a planned one is packaged wherever the system runs.
Internal(s) == {s.comps[id].name : id \in {x \in DOMAIN s.comps :
                  s.comps[x].kind \in CoreKinds /\ s.comps[x].status # "planned"}}

NotCovered(s, t) ==
    {p \in {"cloud", "local", "test"} : \E env \in EnvOf(t, p) : ~(Internal(s) \subseteq Covered(t, env))}

GraphsDiffer(t) ==
    \E a \in EnvOf(t, "cloud"), b \in EnvOf(t, "local") : Covered(t, a) # Covered(t, b)

WrongProfiles(t) ==
    {p \in Expected(t.style) \union Profiles(t) :
       ~(p \in Expected(t.style) /\ p \in Profiles(t)) /\ ~DevBoot(t, p)}

-----------------------------------------------------------------------------
(* The relationships a deployment shows *)

\* The elements a component is deployed as: the instances of its container, and
\* the infrastructure and external systems that carry its name.
Resolve(s, t, env, id) ==
    IF ~Known(s, id) \/ s.comps[id].kind = "utility" THEN {}
    ELSE LET name == s.comps[id].name
             owner == LastOf(t.containers, {i \in DOMAIN t.containers : name \in t.containers[i].comps})
         IN  {e.key : e \in {x \in ElementsOf(env, "containerInstance") : \E y \in owner : y.key = x.container}}
             \union {e.key : e \in {x \in ElementsOf(env, "infrastructureNode")
                                          \union ElementsOf(env, "softwareSystemInstance") : x.name = name}}

\* What stays within one element is not seen from a deployment.
Derived(s, t, env) ==
    UNION {{[from |-> a, to |-> b] : a \in Resolve(s, t, env, r.from), b \in Resolve(s, t, env, r.to)} : r \in s.rels}

AllRelationships(s, t, env) == env.rels \union {e \in Derived(s, t, env) : e.from # e.to}

KeysClash(env) ==
    {i \in DOMAIN env.elements : \/ env.elements[i].key = ""
                                 \/ \E j \in DOMAIN env.elements \ {i} : env.elements[j].key = env.elements[i].key}

Dangling(s, t, env) ==
    {e \in AllRelationships(s, t, env) : ~({e.from, e.to} \subseteq {x.key : x \in AllElements(env)})}

\* Every element that runs something has a relationship.
Isolated(s, t, env) ==
    {x \in AllElements(env) : /\ x.kind # "node"
                              /\ \A e \in AllRelationships(s, t, env) : x.key \notin {e.from, e.to}}

-----------------------------------------------------------------------------
(* The front door *)

Surface(t, e) == IF e.kind # "containerInstance" THEN ""
                 ELSE IF ContainerNamed(t, e.container) = {} THEN "service"
                 ELSE (CHOOSE x \in ContainerNamed(t, e.container) : TRUE).surface

IsFrontend(t, e) == Surface(t, e) \in {"spa", "mobile", "cli", "agentHarness"} \/ e.role = "agentHarness"

\* The positions an element holds in the chain, by key: it may hold several.
Holding(t, env, position) ==
    {e.key : e \in {x \in AllElements(env) :
        CASE position = "frontend" -> IsFrontend(t, x)
          [] position = "gateway" -> x.role = "gateway"
          [] position = "idp" -> x.role = "identityProvider"
          [] OTHER -> Surface(t, x) = "service"}}

FrontDoorChain == <<<<"frontend", "gateway">>, <<"gateway", "idp">>, <<"gateway", "app">>>>

\* A mistake for the checks to find: the gateway's links are told by their start.
LinkByStart(t, env, e) ==
    {i \in DOMAIN FrontDoorChain : e.from \in Holding(t, env, FrontDoorChain[i][1])}

\* linkOf: the first link of the chain that a relationship realizes, if any.
LinkOf(t, env, e) ==
    LET is == {i \in DOMAIN FrontDoorChain : /\ e.from \in Holding(t, env, FrontDoorChain[i][1])
                                             /\ e.to \in Holding(t, env, FrontDoorChain[i][2])}
    IN  {i \in is : \A j \in is : i <= j}

MissingLinks(s, t, env) ==
    IF Holding(t, env, "gateway") = {} THEN {}
    ELSE DOMAIN FrontDoorChain \ UNION {LinkOf(t, env, e) : e \in AllRelationships(s, t, env)}

EnvAccepted(s, t, env) ==
    /\ KeysClash(env) = {} /\ Dangling(s, t, env) = {} /\ Isolated(s, t, env) = {}
    /\ \E x \in AllElements(env) : IsFrontend(t, x)
    /\ MissingLinks(s, t, env) = {}

\* checkDeploymentEdges asks it of the environments the style expects.
DeploymentAccepted(s, t) ==
    t.envs = <<>> \/
    /\ MemberUnknown(s, t) = {} /\ MemberShared(t) = {} /\ Unused(t) = {}
    /\ WrongProfiles(t) = {} /\ NotCovered(s, t) = {} /\ ~GraphsDiffer(t)
    /\ \A env \in Judged(t) : ~Malformed(env) /\ UnknownContainer(t, env) = {}
    /\ \A env \in Judged(t) : EnvAccepted(s, t, env)
=============================================================================
