----------------------------- MODULE TestPlans -----------------------------
(***************************************************************************)
(* The scenarios of a design's use cases as framework-go/scenario derives  *)
(* them (classify.go, clientops.go, derive.go), and the TP rules that hold *)
(* contracts and test plans to them (methodcheck/rules_testplan.go).       *)
(*                                                                         *)
(* A project p, its architecture and use cases committed, has              *)
(*   p.contracts : a sequence in key order of [key, of, client, manager,   *)
(*     base, ops]; of is the component the contract is a facet of, or "",  *)
(*     base the interface's words without "Manager", and ops a sequence of *)
(*     [name, params, fails, result], params of [name, needed, type];      *)
(*   p.comps : component -> [browser, client, built];  p.actors;           *)
(*   p.useCases : a sequence of [g, calls]: a diagram of DiagramWalks      *)
(*     with g.actor, g.decider and g.lane, who a node is laned to, and the *)
(*     calls [from, to, label, alt] of each node's steps, in order;        *)
(*   p.plan : contract key -> sequence of [scenario, skip, until, steps];  *)
(*   p.rows : the execution of the activities (ActivityRows).              *)
(*                                                                         *)
(* A name is [words, form]: Normalize keeps its words and drops the form   *)
(* it is spelled in, "Exported" or another.  A label is [alts, rest]: its  *)
(* op clause by "|", each alternative the sequence of its pieces, and the  *)
(* pieces after the dash.  A piece is [name, tail]: what follows the name  *)
(* is nothing, "args" or "prose".                                          *)
(***************************************************************************)
EXTENDS DiagramWalks, FiniteSets
LOCAL INSTANCE SequencesExt
LOCAL INSTANCE ActivityRows

NoOp == [words |-> <<>>, form |-> ""]
Distinct(s) == FoldLeft(LAMBDA a, x : IF x \in Range(a) THEN a ELSE Append(a, x), <<>>, s)
Mapped(Op(_), s) == [i \in DOMAIN s |-> Op(s[i])]
First(s) == IF s = <<>> THEN <<>> ELSE <<s[1]>>
OrElse(s, otherwise) == IF s # <<>> THEN s ELSE otherwise

-----------------------------------------------------------------------------
(* Which operation a call's label names *)

\* A component's own contract, then its facets in key order.
Family(p, id) ==
    SelectSeq(p.contracts, LAMBDA k : k.key = id) \o SelectSeq(p.contracts, LAMBDA k : k.of = id /\ k.key # id)
IsComponent(p, id) == Family(p, id) # <<>>
IsClientContract(p, id) == IsComponent(p, id) /\ Family(p, id)[1].client

Targets(fam) == FlattenSeq([i \in DOMAIN fam |-> [j \in DOMAIN fam[i].ops |-> [to |-> fam[i].key, op |-> fam[i].ops[j].name]]])

\* opsByKey: of several that fold to one name the first.
Landing(fam, words) == First(SelectSeq(Targets(fam), LAMBDA x : x.op.words = words))

CallsOf(uc) == UNION {Range(uc.calls[n]) : n \in DOMAIN uc.calls}
AllCalls(p) == UNION {CallsOf(uc) : uc \in Range(p.useCases)}

FrontedContracts(p, client) ==
    {k \in Range(p.contracts) : \E c \in AllCalls(p) : /\ c.from = client /\ ~IsClientContract(p, c.to)
                                                       /\ k \in Range(Family(p, c.to))}

ClientOpName(k, name) == [words |-> k.base \o name.words, form |-> "Exported"]

\* The names a client exposes what its Managers call so under.
Fronted(p, client, words) ==
    IF ~IsClientContract(p, client) THEN {}
    ELSE UNION {{ClientOpName(k, o.name) : o \in {x \in Range(k.ops) : x.name.words = words}} :
                  k \in FrontedContracts(p, client)}

LandingOfOne(fam, names) ==
    IF Cardinality(names) = 1 THEN Landing(fam, (CHOOSE x \in names : TRUE).words) ELSE <<>>

Resolve(p, id, name) ==
    OrElse(Landing(Family(p, id), name.words), LandingOfOne(Family(p, id), Fronted(p, id, name.words)))

Pieces(label) == FlattenSeq(label.alts) \o label.rest

ResolveOps(p, call) == Distinct(FlattenSeq(Mapped(LAMBDA x : Resolve(p, call.to, x.name), Pieces(call.label))))

\* A label of prose, by what the client itself does in the same step.
ThroughManagerOps(p, client, step) ==
    LET made == FlattenSeq(Mapped(LAMBDA c : ResolveOps(p, c), SelectSeq(step, LAMBDA c : c.from = client)))
        NameOf(x) == ClientOpName(CHOOSE k \in Range(p.contracts) : k.key = x.to, x.op)
    IN  IF ~IsClientContract(p, client) THEN <<>>
        ELSE Distinct(FlattenSeq(Mapped(LAMBDA x : Landing(Family(p, client), NameOf(x).words), made)))

-----------------------------------------------------------------------------
(* The stimuli of a node's calls *)

\* Alternatives into one component are one group.
Groups(p, step) ==
    LET Joins(group, c) == c.alt # "" /\ group[1].alt = c.alt /\ group[1].to = c.to
        Add(groups, c) ==
          IF \E i \in DOMAIN groups : Joins(groups[i], c)
          THEN [i \in DOMAIN groups |-> IF Joins(groups[i], c) THEN Append(groups[i], c) ELSE groups[i]]
          ELSE Append(groups, <<c>>)
    IN  FoldLeft(Add, <<>>, SelectSeq(step, LAMBDA c : IsComponent(p, c.to)))

\* A mistake for the checks to find: the other callers of a group say the same.
FirstCallersOps(p, group) == ResolveOps(p, group[1])

GroupOps(p, group) == Distinct(FlattenSeq(Mapped(LAMBDA c : ResolveOps(p, c), group)))

GroupStimuli(p, group, step) ==
    OrElse(OrElse(GroupOps(p, group), ThroughManagerOps(p, group[1].to, step)), <<[to |-> group[1].to, op |-> NoOp]>>)

CallStimuli(p, step) == FlattenSeq(Mapped(LAMBDA group : GroupStimuli(p, group, step), Groups(p, step)))

-----------------------------------------------------------------------------
(* What a node contributes to the scenarios through it *)

IsInput(p, uc, n) ==
    CASE uc.g.kind[n] \in Events -> TRUE
      [] uc.g.kind[n] \in {"decision", "switch"} -> uc.g.decider[n] \in p.actors
      [] uc.g.kind[n] = "action" -> uc.g.actor[n] \in p.actors
      [] OTHER -> FALSE

CallsOutward(p, step) ==
    \E c \in Range(step) : c.to \in p.actors \/ (c.from \notin p.actors /\ ~IsComponent(p, c.to))

IsOutput(p, uc, n) ==
    \/ uc.g.kind[n] = "sendSignal"
    \/ uc.g.kind[n] = "action" /\ ~IsInput(p, uc, n) /\ CallsOutward(p, uc.calls[n])

IsState(uc, n) == uc.g.kind[n] = "objectNode"

\* The input of a node that makes no call goes to the component it is laned to.
InputEvent(p, uc, n) == [to |-> IF IsComponent(p, uc.g.lane[n]) THEN uc.g.lane[n] ELSE "", op |-> NoOp]

NodeStimuli(p, uc, n) ==
    OrElse(CallStimuli(p, uc.calls[n]), IF IsInput(p, uc, n) THEN <<InputEvent(p, uc, n)>> ELSE <<>>)

\* The stimuli along a path, at those of each node, each with the states and outputs to be seen before
\* the next; what is seen before the first is a precondition.
StimuliAlong(p, uc, at, path) ==
    LET Opened(n) == Mapped(LAMBDA x : [node |-> n, to |-> x.to, op |-> x.op, states |-> {}, outputs |-> {}], at[n])
        Visit(out, n) ==
          LET all == out \o Opened(n)
          IN  IF all = <<>> THEN all
              ELSE [all EXCEPT ![Len(all)].states = @ \union {x \in {n} : IsState(uc, x)},
                               ![Len(all)].outputs = @ \union {x \in {n} : IsOutput(p, uc, x)}]
    IN  FoldLeft(Visit, <<>>, path.nodes)

\* deriveDiagram: a scenario's id is its number among the paths that are kept.
Kept(g, at) == DropRedundantStart(g, {n \in DOMAIN at : at[n] # <<>>}, Candidates(g))

Numbered(p, u, at, kept) ==
    [i \in DOMAIN kept |-> [id |-> <<u, i>>, path |-> kept[i].nodes, stimuli |-> StimuliAlong(p, p.useCases[u], at, kept[i])]]

ScenariosFrom(p, u, at) == Numbered(p, u, at, Kept(p.useCases[u].g, at))

Scenarios(p, u) == ScenariosFrom(p, u, [n \in DOMAIN p.useCases[u].g.kind |-> NodeStimuli(p, p.useCases[u], n)])

Derive(p) == FlattenSeq([u \in DOMAIN p.useCases |-> Scenarios(p, u)])

ForComponent(all, key) ==
    SelectSeq(Mapped(LAMBDA s : [s EXCEPT !.stimuli = SelectSeq(@, LAMBDA x : x.to = key)], all),
              LAMBDA s : s.stimuli # <<>>)

-----------------------------------------------------------------------------
(* The rules on a design: labels, contracts *)

Leads(alt) == /\ alt[1].name.form = "Exported"
              /\ alt[1].tail = "args" \/ (alt[1].tail = "" /\ Len(alt) = 1)

\* The names a label must not lose: every alternative, or the one it leads with.
Names(label) ==
    IF Len(label.alts) > 1 \/ Leads(label.alts[1]) THEN {alt[1].name : alt \in Range(label.alts)} ELSE {}

LabelOps(p) ==
    {c \in AllCalls(p) : IsComponent(p, c.to) /\ \E name \in Names(c.label) : Resolve(p, c.to, name) = <<>>}

Reached(all) == {<<x.to, x.op>> : x \in UNION {Range(s.stimuli) : s \in Range(all)}}

OpsUnreached(p, all) == {x \in Range(Targets(p.contracts)) : <<x.to, x.op>> \notin Reached(all)}

\* A browser's operations are those its labels spell, if they spell each one way.
ClientOps(p, id) ==
    UNION {{alt[1].name : alt \in Range(c.label.alts)} : c \in {x \in AllCalls(p) : x.to = id /\ x.from \in p.actors}}

Derivable(p, id) ==
    /\ \A c \in AllCalls(p) : c.to = id /\ c.from \in p.actors => \A alt \in Range(c.label.alts) : Leads(alt)
    /\ \A a, b \in ClientOps(p, id) : a.words = b.words => a = b

BrowserOps(p) ==
    {id \in DOMAIN p.comps :
       LET have == Targets(Family(p, id)) IN
         /\ p.comps[id].browser /\ IsComponent(p, id) /\ Derivable(p, id)
         /\ ~({x.op : x \in Range(have)} = ClientOps(p, id) /\ Len(have) = Cardinality(ClientOps(p, id)))}

GeneratedToolNames(p) ==
    UNION {{ClientOpName(k, o.name) : o \in Range(k.ops)} : k \in {x \in Range(p.contracts) : x.manager}}

MachineMirror(p) ==
    {id \in DOMAIN p.comps :
       LET have == Targets(Family(p, id)) IN
         /\ p.comps[id].client /\ ~p.comps[id].browser /\ p.comps[id].built /\ IsComponent(p, id)
         /\ have = <<>> \/ ~({x.op : x \in Range(have)} \subseteq GeneratedToolNames(p))}

-----------------------------------------------------------------------------
(* The rules on a plan *)

\* findContract and findOperation; the operation is found by its exact name.
Declared(p, id, name) ==
    LET own == SelectSeq(p.contracts, LAMBDA k : k.key = id)
        ops == IF own = <<>> THEN <<>> ELSE SelectSeq(own[1].ops, LAMBDA o : o.name = name)
    IN  SubSeq(ops, 1, IF ops = <<>> THEN 0 ELSE 1)

\* A value's type, or a schema's, is "" when it cannot be told.
KindsConflict(want, value) ==
    /\ want # "" /\ value # "" /\ want # value
    /\ ~(want = "string" /\ value \in {"number", "boolean"})

ArgsFit(inputs, op) ==
    /\ \A x \in inputs : \E q \in op.params : q.name = x.name /\ ~KindsConflict(q.type, x.type)
    /\ \A q \in op.params : q.needed => \E x \in inputs : x.name = q.name

\* expect : [error, type]; type "none" when no result is asserted.
ExpectFits(expect, op) ==
    IF expect.error THEN op.fails
    ELSE expect.type = "none" \/ (op.result # "void" /\ ~KindsConflict(op.result, expect.type))

Drives(op, inputs, expect) == ArgsFit(inputs, op) /\ ExpectFits(expect, op)

ProbeFits(p, probe) ==
    \E op \in Range(Declared(p, probe.comp, probe.op)) : Drives(op, probe.inputs, probe.expect)

StepFits(p, key, stim, st) ==
    /\ \E op \in Range(Declared(p, key, st.op)) : Drives(op, st.inputs, st.expect)
    /\ stim.op \in {NoOp, st.op}
    /\ \A probe \in st.probes : ProbeFits(p, probe)
    /\ stim.states \subseteq {probe.for : probe \in st.probes}
    /\ stim.outputs \subseteq {probe.for : probe \in st.probes} \union st.unobservable

\* A skip waits for an activity that is not integrated yet.
Waits(p, b) == b.until # "" /\ ~Integrated(p.rows, b.until)

BindingFits(p, key, s, b) ==
    IF b.skip THEN Waits(p, b)
    ELSE Len(b.steps) = Len(s.stimuli) /\ \A i \in DOMAIN b.steps : StepFits(p, key, s.stimuli[i], b.steps[i])

PlanFits(p, key, projected) ==
    LET bs == p.plan[key]
    IN  /\ key \in {k.key : k \in Range(p.contracts)}
        /\ \A i \in DOMAIN bs : \E s \in Range(projected) : s.id = bs[i].scenario /\ BindingFits(p, key, s, bs[i])
        /\ \A s \in Range(projected) : Cardinality({i \in DOMAIN bs : bs[i].scenario = s.id}) = 1

PlansFit(p, all) ==
    OpsUnreached(p, all) = {} /\ \A key \in DOMAIN p.plan : PlanFits(p, key, ForComponent(all, key))

TestPlansAccepted(p) == BrowserOps(p) = {} /\ MachineMirror(p) = {} /\ LabelOps(p) = {} /\ PlansFit(p, Derive(p))

-----------------------------------------------------------------------------
(* What a test engineer records: each scenario bound as it is derived, its *)
(* states seen through the operation that q.probe names.                   *)

Unstarted == NoRow
Arguments(op) == {[name |-> x.name, type |-> x.type] : x \in {y \in op.params : y.needed}}
Quiet == [error |-> FALSE, type |-> "none"]

StepFor(p, key, stim) ==
    LET own == SelectSeq(p.contracts, LAMBDA k : k.key = key)[1].ops
        op == IF stim.op # NoOp THEN Declared(p, key, stim.op)[1] ELSE own[1]
    IN  [op |-> op.name, inputs |-> Arguments(op), expect |-> Quiet, unobservable |-> stim.outputs,
         probes |-> {[for |-> n, comp |-> p.probe.comp, op |-> p.probe.op, inputs |-> {}, expect |-> Quiet] : n \in stim.states}]

Planned(p) ==
    LET all == Derive(p)
        Bound(key, x) == [scenario |-> x.id, skip |-> FALSE, until |-> "",
                          steps |-> Mapped(LAMBDA stim : StepFor(p, key, stim), x.stimuli)]
    IN  [key \in DOMAIN p.plan |-> Mapped(LAMBDA x : Bound(key, x), ForComponent(all, key))]
=============================================================================
