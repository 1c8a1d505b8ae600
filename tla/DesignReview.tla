---------------------------- MODULE DesignReview ----------------------------
(***************************************************************************)
(* A design under review: from an accepted one, any few edits to one part  *)
(* of it, and what methodcheck's rules let pass (validate.go).  The part   *)
(* on the desk is its architecture, the call chains of its use cases, its  *)
(* deployment, its contracts with the test plans of them (TestPlans), or   *)
(* an activity diagram drawn from nothing (DiagramPaths).                  *)
(***************************************************************************)
EXTENDS DesignRules

CONSTANTS
    SeedSystem, SeedUseCases, SeedTopologies,   \* accepted designs; what deploys them
    Calls,          \* the calls an edit may put into a step
    Links,          \* the relationships an edit may put into an environment
    SeedProject,    \* an accepted project of TestPlans, with its plans
    Labels, Ops,    \* the labels, and the operations, an edit may put there
    Activities,     \* what a skipped scenario may wait for
    EditModes,      \* the modes of the relationships an edit may draw
    MaxEdits,
    Flows, MaxEdges, Kindings, InputSets, Budgets, Cap, Plenty   \* see DiagramPaths

\* The components of a system have the kinds that project.go enumerates; the
\* containers and the environments of a topology are sequences.
SystemShape(x) ==
    /\ {"comps", "rels", "views"} \subseteq DOMAIN x
    /\ \A id \in DOMAIN x.comps : {"kind", "layer"} \subseteq DOMAIN x.comps[id] /\ x.comps[id].kind \in Kinds

TopologyShape(x) ==
    /\ {"style", "containers", "envs"} \subseteq DOMAIN x
    /\ x.containers \in Seq(Range(x.containers)) /\ x.envs \in Seq(Range(x.envs))

ASSUME SeedAssumption ==
    /\ SystemShape(SeedSystem)
    /\ SeedTopologies # {} /\ \A x \in SeedTopologies : TopologyShape(x)

VARIABLES
    desk,       \* the part that is edited
    edits,      \* how many edits it had
    s,          \* the architecture and its dynamic views
    c,          \* the use cases
    t,          \* the deployment topology
    q,          \* the contracts, the calls into them and the test plans
    kind, edges \* the diagram that is drawn from nothing
vars == <<desk, edits, s, c, t, q, kind, edges>>

Drawn == INSTANCE DiagramPaths
Plans == INSTANCE TestPlans

Init ==
    /\ desk \in {"architecture", "chains", "deployment", "plans", "diagram"}
    /\ edits = 0
    /\ s = SeedSystem /\ c = SeedUseCases /\ q = SeedProject
    /\ t \in IF desk = "deployment" THEN SeedTopologies ELSE {CHOOSE x \in SeedTopologies : TRUE}
    /\ kind \in IF desk = "diagram" THEN Kindings ELSE {CHOOSE x \in Kindings : TRUE}
    /\ edges = <<>>

Draw == /\ desk = "diagram"
        /\ Drawn!DrawEdge
        /\ UNCHANGED <<desk, edits, s, c, t, q>>

Edit(part) == /\ desk = part
              /\ edits < MaxEdits
              /\ edits' = edits + 1
              /\ UNCHANGED <<desk, kind, edges>>

Toggle(set, x) == IF x \in set THEN set \ {x} ELSE set \union {x}

-----------------------------------------------------------------------------
(* The architecture *)

ToggleRelationship(a, b, mode) ==
    /\ Edit("architecture")
    /\ s' = [s EXCEPT !.rels = IF \E r \in @ : r.from = a /\ r.to = b /\ r.mode = mode
                               THEN {r \in @ : ~(r.from = a /\ r.to = b /\ r.mode = mode)}
                               ELSE @ \union {[from |-> a, to |-> b, mode |-> mode, label |-> "", ambient |-> FALSE]}]
    /\ UNCHANGED <<c, t, q>>

Recast(id, k) ==
    /\ Edit("architecture")
    /\ s' = [s EXCEPT !.comps[id].kind = k, !.comps[id].layer = k]
    /\ UNCHANGED <<c, t, q>>

-----------------------------------------------------------------------------
(* The call chains *)

InsertCall(i, j, k, call) ==
    /\ Edit("chains")
    /\ s' = [s EXCEPT !.views[i].steps[j].calls = InsertAt(@, k, call)]
    /\ UNCHANGED <<c, t, q>>

RemoveCall(i, j, k) ==
    /\ Edit("chains")
    /\ s' = [s EXCEPT !.views[i].steps[j].calls = RemoveAt(@, k)]
    /\ UNCHANGED <<c, t, q>>

ToggleFlow(uc, a, b) ==
    /\ Edit("chains")
    /\ LET is == {i \in DOMAIN c[uc].g.edges : c[uc].g.edges[i].from = a /\ c[uc].g.edges[i].to = b}
       IN  c' = [c EXCEPT ![uc].g.edges = IF is = {} THEN Append(@, [from |-> a, to |-> b, guard |-> ""])
                                          ELSE RemoveAt(@, CHOOSE i \in is : TRUE)]
    /\ UNCHANGED <<s, t, q>>

-----------------------------------------------------------------------------
(* The deployment *)

ToggleLink(i, link) ==
    /\ Edit("deployment")
    /\ t' = [t EXCEPT !.envs[i].rels = Toggle(@, link)]
    /\ UNCHANGED <<s, c, q>>

\* An element is dropped, or drawn under another's key.
DropElement(i, j) ==
    /\ Edit("deployment")
    /\ t' = [t EXCEPT !.envs[i].elements = RemoveAt(@, j)]
    /\ UNCHANGED <<s, c, q>>

Rekey(i, j, key) ==
    /\ Edit("deployment")
    /\ t' = [t EXCEPT !.envs[i].elements[j].key = key]
    /\ UNCHANGED <<s, c, q>>

Repackage(i, name) ==
    /\ Edit("deployment")
    /\ t' = [t EXCEPT !.containers[i].comps = Toggle(@, name)]
    /\ UNCHANGED <<s, c, q>>

Restyle(style) ==
    /\ Edit("deployment")
    /\ t' = [t EXCEPT !.style = style]
    /\ UNCHANGED <<s, c, q>>

DropEnvironment(i) ==
    /\ Edit("deployment")
    /\ t' = [t EXCEPT !.envs = RemoveAt(@, i)]
    /\ UNCHANGED <<s, c, q>>

-----------------------------------------------------------------------------
(* The contracts and their test plans *)

Relabel(u, n, i, label) ==
    /\ Edit("plans")
    /\ q' = [q EXCEPT !.useCases[u].calls[n][i].label = label]
    /\ UNCHANGED <<s, c, t>>

ToggleOp(i, op) ==
    /\ Edit("plans")
    /\ q' = [q EXCEPT !.contracts[i].ops = IF op \in Range(@) THEN SelectSeq(@, LAMBDA x : x # op) ELSE Append(@, op)]
    /\ UNCHANGED <<s, c, t>>

SkipScenario(key, i, until) ==
    /\ Edit("plans")
    /\ q' = [q EXCEPT !.plan[key][i].skip = TRUE, !.plan[key][i].until = until]
    /\ UNCHANGED <<s, c, t>>

Unbind(key, i) ==
    /\ Edit("plans")
    /\ q' = [q EXCEPT !.plan[key] = RemoveAt(@, i)]
    /\ UNCHANGED <<s, c, t>>

\* A step drives another operation, and observes nothing.
Rebind(key, i, j, op) ==
    /\ Edit("plans")
    /\ q' = [q EXCEPT !.plan[key][i].steps[j].op = op, !.plan[key][i].steps[j].probes = {}]
    /\ UNCHANGED <<s, c, t>>

\* The plans are recorded anew from the design as it is now, whose labels and
\* client contracts are in order, and before the activity is integrated.
Replan ==
    /\ desk = "plans" /\ edits > 0 /\ DOMAIN q.rows = {}
    /\ \A i \in DOMAIN q.contracts : q.contracts[i].ops # <<>>
    /\ Plans!LabelOps(q) = {} /\ Plans!BrowserOps(q) = {} /\ Plans!MachineMirror(q) = {}
    /\ q' = [q EXCEPT !.plan = Plans!Planned(q)]
    /\ UNCHANGED <<desk, edits, s, c, t, kind, edges>>

Integrate(activity) ==
    /\ desk = "plans" /\ activity \notin DOMAIN q.rows
    /\ q' = [q EXCEPT !.rows = @ @@ (activity :> [Plans!Unstarted EXCEPT !.completed = TRUE])]
    /\ UNCHANGED <<desk, edits, s, c, t, kind, edges>>

-----------------------------------------------------------------------------
Next ==
    \/ Draw
    \/ \E a, b \in DOMAIN s.comps : \E mode \in EditModes : ToggleRelationship(a, b, mode)
    \/ \E id \in DOMAIN s.comps : \E k \in Kinds : Recast(id, k)
    \/ \E i \in DOMAIN s.views : \E j \in DOMAIN s.views[i].steps :
         \/ \E k \in 1..(Len(s.views[i].steps[j].calls) + 1) : \E call \in Calls : InsertCall(i, j, k, call)
         \/ \E k \in DOMAIN s.views[i].steps[j].calls : RemoveCall(i, j, k)
    \/ \E uc \in DOMAIN c : \E a, b \in Nodes(c[uc].g) : a # b /\ ToggleFlow(uc, a, b)
    \/ \E i \in DOMAIN t.envs : \/ \E link \in Links : ToggleLink(i, link)
                                \/ DropEnvironment(i)
                                \/ \E j \in DOMAIN t.envs[i].elements :
                                     \/ DropElement(i, j)
                                     \/ Rekey(i, j, t.envs[i].elements[1].key)
    \/ \E i \in DOMAIN t.containers : \E name \in Names(s) : Repackage(i, name)
    \/ \E style \in {"cloud", "local", "both"} : Restyle(style)
    \/ \E u \in DOMAIN q.useCases : \E n \in DOMAIN q.useCases[u].calls : \E i \in DOMAIN q.useCases[u].calls[n] :
         \E label \in Labels : Relabel(u, n, i, label)
    \/ \E i \in DOMAIN q.contracts : \E op \in Ops : ToggleOp(i, op)
    \/ \E key \in DOMAIN q.plan : \E i \in DOMAIN q.plan[key] :
         \/ \E a \in Activities : SkipScenario(key, i, a)
         \/ Unbind(key, i)
         \/ \E j \in DOMAIN q.plan[key][i].steps : Rebind(key, i, j, q.contracts[2].ops[1].name)
    \/ Replan
    \/ \E a \in Activities : Integrate(a)

Spec == Init /\ [][Next]_vars

-----------------------------------------------------------------------------
(* Properties, each of the part that is edited: the others are as they were *)

WalksExact == desk = "diagram" => Drawn!WalksExact /\ Drawn!UnrolledOnce
ScenariosFaithful == desk = "diagram" => Drawn!ScenariosFaithful
BudgetSound == desk = "diagram" => Drawn!BudgetSound

\* What the layers are for: an architecture without an illegal relationship never
\* blocks on itself.  Every cycle of synchronous calls passes a Utility or goes
\* from an Engine up to a Manager, which no rule refuses.
CallsSettle ==
    desk = "architecture" /\ KindIsLayer(s) /\ Illegal(s) = {} =>
        \A C \in SUBSET DOMAIN s.comps : ~BlockedDown(s, C)

\* Each call of a component below the Managers comes after, or is, one that a
\* Manager or a Utility takes part in.
ManagerLeads(chain) ==
    \A i \in DOMAIN chain :
        (\E k \in {"engine", "resourceAccess", "resource"} :
            {chain[i].from, chain[i].to} \intersect OfKind(s, k) # {}) =>
        \E j \in 1..i : {chain[j].from, chain[j].to}
                           \intersect (OfKind(s, "manager") \union OfKind(s, "utility")) # {}

\* No call in an accepted chain does a Manager's work without one: on every path
\* that is walked, a component below the Managers takes part in a call only
\* after a Manager, or a Utility, has.
ManagerFirst ==
    desk = "chains" /\ Illegal(s) = {} /\ CallShape(s, c) = {} =>
        \A v \in Views(s) : v.uc \in DOMAIN c /\ ViewAccepted(s, v, c[v.uc]) =>
            \A p \in WalkedPaths(c[v.uc].g) : ManagerLeads(ChainOf(v, p))

\* The nodes that edges lead to from some; nothing leads on from an end.
Reachable(g, from) ==
    LET step(N) == N \union {e.to : e \in {x \in Edges(g) : x.from \in N /\ g.kind[x.from] # "end"}}
        after[k \in 0..Len(g.kind)] == IF k = 0 THEN from ELSE step(after[k - 1])
    IN  after[Len(g.kind)]

\* No step escapes judgement: whatever a start or an event that nothing leads to
\* can reach lies on a path that is walked, so the walks that are skipped, those
\* from an event that something leads to, hide no call of it.
EveryStepJudged ==
    desk = "chains" => \A uc \in DOMAIN c : LET g == c[uc].g IN
        Reachable(g, {n \in Nodes(g) : g.kind[n] = "start"} \union EntryEvents(g, Events))
            \subseteq UNION {Range(p) : p \in WalkedPaths(g)}

\* What is judged of a chain holds of every walk of it: the two together.
ChainsSound == ManagerFirst /\ EveryStepJudged

\* An accepted deployment, of distinct profiles and container keys, runs every
\* component that is to be built, packaged once, in every environment the style
\* asks for; where there is a gateway a request can be followed from a frontend
\* through it to the identity provider and to the application.
DeployedOnce ==
    desk = "deployment" /\ DeploymentAccepted(s, t) /\ Cardinality(Profiles(t)) = Len(t.envs)
        /\ Cardinality({x.key : x \in Containers(t)}) = Len(t.containers) =>
      \A i \in DOMAIN t.envs : ~DevBoot(t, t.envs[i].profile) =>
        LET env == t.envs[i]
            Linked(a, b) == \E e \in AllRelationships(s, t, env) : e.from = a /\ e.to = b
            Is(position) == Holding(t, env, position)
        IN  /\ \A name \in Internal(s) : \E x \in Containers(t) :
                 /\ name \in x.comps /\ x.key \in Instanced(env)
                 /\ \A y \in Containers(t) : name \in y.comps => y = x
            /\ Is("gateway") # {} =>
                 /\ \E a \in Is("frontend"), b \in Is("gateway") : Linked(a, b)
                 /\ \A to \in {"idp", "app"} : \E a \in Is("gateway"), b \in Is(to) : Linked(a, b)

\* Some scenario through the node has a binding that drives the operation there.
Drives(b, x, n, op) == \E i \in DOMAIN x.stimuli : x.stimuli[i].node = n /\ b.steps[i].op = op

Proved(all, key, u, n, op) ==
    \E b \in Range(q.plan[key]), x \in Range(Plans!ForComponent(all, key)) :
      /\ b.scenario = x.id /\ x.id[1] = u /\ n \in Range(x.path)
      /\ IF b.skip THEN Plans!Waits(q, b) ELSE Drives(b, x, n, op)

Walked(all, u) == UNION {Range(x.path) : x \in {y \in Range(all) : y.id[1] = u}}

LabelsProved(all) ==
    \A u \in DOMAIN q.useCases : \A n \in Walked(all, u) : \A call \in Range(q.useCases[u].calls[n]) :
       \A name \in IF Plans!IsComponent(q, call.to) THEN Plans!Names(call.label) ELSE {} :
         \E k \in Range(q.contracts) : \E o \in Range(k.ops) :
           /\ call.to \in {k.key, k.of} /\ IsSuffix(name.words, o.name.words)
           /\ k.key \in DOMAIN q.plan => Proved(all, k.key, u, n, o.name)

OperationsProved(all) ==
    \A k \in Range(q.contracts) : k.key \in DOMAIN q.plan =>
       \A o \in Range(k.ops) : \E u \in DOMAIN q.useCases : \E n \in Walked(all, u) : Proved(all, k.key, u, n, o.name)

AllProved(all) == LabelsProved(all) /\ OperationsProved(all)

\* The gate and the derivation do not disagree (UnresolvedOps): in an accepted
\* project, whatever a label names of a contracted component at a node that a
\* scenario walks is an operation of it, and the plan of the contract that
\* declares it, if it has one, drives it there or waits for an activity; and no
\* operation of a planned contract is left without such a step somewhere.
NothingUnproved == desk = "plans" /\ Plans!TestPlansAccepted(q) => AllProved(Plans!Derive(q))
=============================================================================
