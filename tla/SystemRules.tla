---------------------------- MODULE SystemRules ----------------------------
(***************************************************************************)
(* methodcheck: the rules of the static architecture and of its dynamic    *)
(* views (rules_system.go, rules_dynamic.go, rules_appc.go and the System  *)
(* half of rules_statevalidation.go).  Each rule is the set of what it     *)
(* reports at Error severity; a design is accepted when all are empty.     *)
(* Warnings never fail a verdict and are left out.                         *)
(*                                                                         *)
(* A system s has                                                          *)
(*   s.comps : component id -> [name, stereotype, kind, layer, status, ui, *)
(*     protocol, encap, verbs]: the slug of the name, the layer its suffix *)
(*     implies ("" if none), uiSurface ("" if absent), whether encapsulates*)
(*     is filled in, the number of verbs;                                  *)
(*   s.rels : a set of [from, to, mode, label, ambient];                   *)
(*   s.views : a sequence of [key, uc, steps], a step [node, calls], a     *)
(*     call [from, to, mode, op] with op TRUE when its label leads with    *)
(*     exported operations.                                                *)
(* Use cases c : id -> [core, trigger, actors, variationOf, reason, g].    *)
(***************************************************************************)
EXTENDS Integers, FiniteSets, Sequences

Kinds == {"client", "manager", "engine", "resourceAccess", "resource", "utility"}
CoreKinds == {"client", "manager", "engine", "resourceAccess"}

\* Manager and Engine share the business-logic rank; a Utility has none.
LayerRank(layer) ==
    CASE layer = "client" -> 0
      [] layer \in {"manager", "engine"} -> 1
      [] layer = "resourceAccess" -> 2
      [] layer = "resource" -> 3
      [] OTHER -> -1

Known(s, id) == id \in DOMAIN s.comps
Built(comp) == comp.status \notin {"planned", "external"}
MachineClient(comp) == comp.kind = "client" /\ comp.ui = "machine"
BrowserSurface(comp) == comp.kind = "client" /\ comp.ui = "browser"
OfKind(s, k) == {id \in DOMAIN s.comps : s.comps[id].kind = k}

-----------------------------------------------------------------------------
(* One directed edge between two components *)

UtilityInvolved(f, t) == f.kind = "utility" \/ t.kind = "utility"

CallsUp(f, t) == ~UtilityInvolved(f, t) /\ LayerRank(f.layer) > LayerRank(t.layer)

CallsSideways(f, t, mode) ==
    /\ ~UtilityInvolved(f, t)
    /\ LayerRank(f.layer) = LayerRank(t.layer) /\ LayerRank(f.layer) >= 0
    /\ f.kind = t.kind
    /\ ~(f.kind = "manager" /\ mode = "queued")

SkipsLayer(f, t) == ~UtilityInvolved(f, t) /\ LayerRank(t.layer) - LayerRank(f.layer) > 1

PubSubEnds(f, t, mode) ==
    mode = "eventPubSub" /\ ~({f.kind, t.kind} \subseteq {"client", "manager"})

ManagerSyncManager(f, t, mode) == f.kind = "manager" /\ t.kind = "manager" /\ mode = "sync"

ClientSkips(f, t) == f.kind = "client" /\ t.kind \notin {"manager", "utility"}

\* A mistake for the checks to find: peers are told apart by their layer's name.
AnyPeerLegal(f, t, mode) ==
    ~(CallsUp(f, t) \/ SkipsLayer(f, t) \/ PubSubEnds(f, t, mode)
      \/ ManagerSyncManager(f, t, mode) \/ ClientSkips(f, t))

EdgeLegal(f, t, mode) ==
    ~(CallsUp(f, t) \/ CallsSideways(f, t, mode) \/ SkipsLayer(f, t) \/ PubSubEnds(f, t, mode)
      \/ ManagerSyncManager(f, t, mode) \/ ClientSkips(f, t))

\* relDontRules, SYS-6c to SYS-6i.
RelationshipDont(f, t, mode) ==
    \/ mode = "queued" /\ t.kind \in {"engine", "resourceAccess"}
    \/ mode = "eventPubSub" /\ (f.kind \notin {"manager", "utility"}
                                \/ t.kind \in {"engine", "resourceAccess", "resource"})

-----------------------------------------------------------------------------
(* The static architecture *)

NameNotUnique(s) ==
    {id \in DOMAIN s.comps :
       \/ s.comps[id].name = ""
       \/ \E other \in DOMAIN s.comps \ {id} : s.comps[other].name = s.comps[id].name}

\* An edge with an unresolved end is judged by no layer rule.
Illegal(s) ==
    {r \in s.rels : /\ Known(s, r.from) /\ Known(s, r.to)
                    /\ LET f == s.comps[r.from]
                           t == s.comps[r.to]
                       IN  ~EdgeLegal(f, t, r.mode) \/ RelationshipDont(f, t, r.mode)}

Degenerate(s) == {k \in {"manager", "resourceAccess"} : OfKind(s, k) = {}}

NameLayerMismatch(s) ==
    {id \in DOMAIN s.comps : /\ s.comps[id].stereotype # "" /\ s.comps[id].layer # ""
                             /\ s.comps[id].stereotype # s.comps[id].layer}

MaxManagers == 5
TooManyManagers(s) == Cardinality(OfKind(s, "manager")) > MaxManagers

\* A ResourceAccess reaches a Resource, or what the model does not name.
Reaches(s, id) ==
    \E r \in s.rels : /\ r.from = id /\ r.mode \in {"sync", "queued"}
                      /\ Known(s, r.to) => s.comps[r.to].kind = "resource"
RAOrphan(s) == {id \in OfKind(s, "resourceAccess") : ~Reaches(s, id)}

ClientSurface(s) == {id \in OfKind(s, "client") : s.comps[id].ui = ""}

ClientProtocol(s) ==
    LET rest == {id \in OfKind(s, "client") : s.comps[id].protocol = "rest"}
    IN  {id \in DOMAIN s.comps :
           LET comp == s.comps[id]
           IN  \/ comp.protocol # "" /\ ~MachineClient(comp)
               \/ comp.protocol \notin {"", "rest", "mcp"}
               \/ MachineClient(comp) /\ Built(comp) /\ comp.protocol = ""}
        \union (IF Cardinality(rest) > 1 THEN rest ELSE {})

Unencapsulated(s) ==
    {id \in DOMAIN s.comps : ~s.comps[id].encap /\ s.comps[id].kind \in {"manager", "engine", "resourceAccess"}}

MaxVerbs == 20
ContractTooWide(s) ==
    {id \in DOMAIN s.comps : s.comps[id].verbs >= MaxVerbs /\ s.comps[id].kind \in {"manager", "engine", "resourceAccess"}}

\* The same pair under the same mode twice; a pair split by mode or label only warns.
RelDup(s) ==
    {r \in s.rels : \E q \in s.rels \ {r} : q.from = r.from /\ q.to = r.to /\ q.mode = r.mode}

\* ambient: true says no use case can narrate the dependency, true of a Utility alone.
AmbientMisused(s) ==
    {r \in s.rels : r.ambient /\ ~(Known(s, r.to) /\ s.comps[r.to].kind = "utility")}

-----------------------------------------------------------------------------
(* The dynamic views *)

StepCalls(v) == UNION {{v.steps[i].calls[j] : j \in DOMAIN v.steps[i].calls} : i \in DOMAIN v.steps}
Views(s) == {s.views[i] : i \in DOMAIN s.views}
Actors(c, uc) == IF uc \in DOMAIN c THEN c[uc].actors ELSE {}
AllActors(c) == UNION {c[uc].actors : uc \in DOMAIN c}
Participants(v) == UNION {{e.from, e.to} : e \in StepCalls(v)}

KeyNotUnique(s) ==
    {i \in DOMAIN s.views : s.views[i].uc = "" \/ \E j \in 1..(i - 1) : s.views[j].key = s.views[i].key}

CallEnds(s, c) ==
    {e \in UNION {{<<v, e>> : e \in StepCalls(v)} : v \in Views(s)} :
       ~({e[2].from, e[2].to} \subseteq DOMAIN s.comps \union Actors(c, e[1].uc))}

\* A call between components is declared, under the same mode.
Declared(s, e) == \E r \in s.rels : r.from = e.from /\ r.to = e.to /\ r.mode = e.mode

CallShape(s, c) ==
    {e \in UNION {{<<v, e>> : e \in StepCalls(v)} : v \in Views(s)} :
       \/ {e[2].from, e[2].to} \intersect Actors(c, e[1].uc) = {} /\ ~Declared(s, e[2])
       \/ e[2].mode \notin {"sync", "queued"}
       \/ /\ Known(s, e[2].from) /\ Known(s, e[2].to)
          /\ ~EdgeLegal(s.comps[e[2].from], s.comps[e[2].to], e[2].mode)}

Between(s, v, k1, k2, modes) ==
    {e \in StepCalls(v) : /\ Known(s, e.from) /\ s.comps[e.from].kind = k1
                          /\ Known(s, e.to) /\ s.comps[e.to].kind = k2 /\ e.mode \in modes}

Modes == {"sync", "queued", "eventPubSub"}

\* One use case enters one Manager, however many Clients do.
ManyManagers(s) == {v \in Views(s) : Cardinality({e.to : e \in Between(s, v, "client", "manager", Modes)}) > 1}

\* A Manager queues work for one Manager at most in a use case.
FansOut(s) ==
    {v \in Views(s) : \E m \in OfKind(s, "manager") :
       Cardinality({e.to : e \in {x \in Between(s, v, "manager", "manager", {"queued"}) : x.from = m}}) > 1}

\* Every core component of the static view is in a call chain, once there is one.
Unexplained(s) ==
    {id \in DOMAIN s.comps : /\ s.views # <<>> /\ s.comps[id].kind \in CoreKinds
                             /\ s.comps[id].status # "planned"
                             /\ \A v \in Views(s) : id \notin Participants(v)}

Exercised(s, r) == \E v \in Views(s) : \E e \in StepCalls(v) : e.from = r.from /\ e.to = r.to

Unexercised(s) ==
    {r \in s.rels : /\ s.views # <<>> /\ ~Exercised(s, r)
                    /\ ~(r.ambient /\ Known(s, r.to) /\ s.comps[r.to].kind = "utility")}

NoView(s, c) == {uc \in DOMAIN c : \A v \in Views(s) : v.uc # uc}

\* A call into a browser surface leads with the operations it performs.
OpLabels(s, c) ==
    {e \in UNION {StepCalls(v) : v \in Views(s)} :
       Known(s, e.to) /\ BrowserSurface(s.comps[e.to]) /\ e.from \in AllActors(c) /\ ~e.op}

\* What a machine client offers is what it calls in the step someone calls it in.
MachineCalls(s) ==
    {st \in UNION {{v.steps[i] : i \in DOMAIN v.steps} : v \in Views(s)} :
       \E i \in DOMAIN st.calls :
         LET e == st.calls[i]
         IN  /\ Known(s, e.to) /\ MachineClient(s.comps[e.to]) /\ Built(s.comps[e.to]) /\ ~e.op
             /\ ~\E j \in DOMAIN st.calls :
                   st.calls[j].from = e.to /\ st.calls[j].to \in OfKind(s, "manager")}

-----------------------------------------------------------------------------
StaticAccepted(s) ==
    /\ NameNotUnique(s) = {} /\ Degenerate(s) = {} /\ NameLayerMismatch(s) = {}
    /\ Illegal(s) = {} /\ ~TooManyManagers(s)
    /\ RAOrphan(s) = {} /\ ClientSurface(s) = {} /\ ClientProtocol(s) = {}
    /\ Unencapsulated(s) = {} /\ ContractTooWide(s) = {} /\ RelDup(s) = {} /\ AmbientMisused(s) = {}

ViewsAccepted(s, c) ==
    /\ KeyNotUnique(s) = {} /\ CallEnds(s, c) = {} /\ CallShape(s, c) = {}
    /\ ManyManagers(s) = {} /\ FansOut(s) = {} /\ Unexplained(s) = {} /\ Unexercised(s) = {}
    /\ NoView(s, c) = {} /\ OpLabels(s, c) = {} /\ MachineCalls(s) = {}

-----------------------------------------------------------------------------
(* What the rules are for *)

KindIsLayer(s) == \A id \in DOMAIN s.comps : s.comps[id].kind = s.comps[id].layer

SyncCalls(s) ==
    {r \in s.rels : r.mode = "sync" /\ Known(s, r.from) /\ Known(s, r.to)}

\* A call up from an Engine to a Manager, of equal rank, is refused by no rule.
EngineUp(s, r) == s.comps[r.from].kind = "engine" /\ s.comps[r.to].kind = "manager"

\* Components each of which waits for another of them, by calls other than those:
\* a cycle of blocked callers, when no Utility is among them.
BlockedDown(s, C) ==
    /\ C # {}
    /\ \A a \in C : s.comps[a].kind # "utility"
    /\ \A a \in C : \E r \in SyncCalls(s) : r.from = a /\ r.to \in C /\ ~EngineUp(s, r)
=============================================================================
