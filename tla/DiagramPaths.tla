--------------------------- MODULE DiagramPaths ----------------------------
(***************************************************************************)
(* Every small activity diagram, drawn one edge at a time, and what the    *)
(* two enumerations of its paths promise of it: the one from which         *)
(* scenarios are derived and played, and the one from which the call-chain *)
(* rules judge the design.  Both are held to declarative definitions of    *)
(* the walks of a graph.                                                   *)
(***************************************************************************)
EXTENDS FiniteSets, DiagramWalks
LOCAL INSTANCE SequencesExt

CONSTANTS
    Flows,       \* a sequence of [from, to, guard]: the edges a diagram may have
    MaxEdges,    \* how many of them it has at most
    Kindings,    \* the sequences of node kinds that are tried
    InputSets,   \* the sets of input nodes that are tried
    Budgets,     \* small work budgets, maxWalkWork in the code
    Cap,         \* a small cap, maxActivityPaths in the code
    Plenty       \* a budget and cap no diagram of the run reaches

VARIABLES
    kind,     \* of each node
    edges     \* the edges drawn so far, in the order of Flows
vars == <<kind, edges>>

g == [kind |-> kind, edges |-> edges]

Init ==
    /\ kind \in Kindings
    /\ edges = <<>>

DrawEdge ==
    /\ Len(edges) < MaxEdges
    /\ \E f \in DOMAIN Flows :
         /\ Range(edges) \subseteq Range(SubSeq(Flows, 1, f - 1))
         /\ edges' = Append(edges, Flows[f])
    /\ UNCHANGED kind

Next == DrawEdge
Spec == Init /\ [][Next]_vars

-----------------------------------------------------------------------------
(* Reference definitions: walks as sequences of distinct edges *)

NodesOf(entry, t) == <<entry>> \o [i \in DOMAIN t |-> edges[t[i]].to]

\* The walks from entry that take no edge twice and do not leave an end.
Trails(entry) ==
    LET longer(t) == LET n == Last(NodesOf(entry, t))
                     IN  IF kind[n] = "end" THEN {} ELSE {Append(t, i) : i \in Out(g, n) \ Range(t)}
        of[k \in 0 .. MaxEdges] == IF k = 0 THEN {<<>>} ELSE UNION {longer(t) : t \in of[k - 1]}
    IN  UNION {of[k] : k \in 0 .. Len(edges)}

\* Nothing more can be taken.
Complete(entry, t) ==
    LET n == Last(NodesOf(entry, t)) IN kind[n] = "end" \/ Out(g, n) \subseteq Range(t)

\* No node twice, and the last is an end or has no way on.
SimplePaths(entry) ==
    {t \in Trails(entry) : LET ns == NodesOf(entry, t)
                           IN  IsInjective(ns) /\ (kind[Last(ns)] = "end" \/ Out(g, Last(ns)) = {})}

Steps(ns) == {<<ns[i], ns[i + 1]>> : i \in 1 .. Len(ns) - 1}
Times(ns, u, v) == Cardinality({i \in 1 .. Len(ns) - 1 : ns[i] = u /\ ns[i + 1] = v})
Joined(u, v) == {e \in Range(edges) : e.from = u /\ e.to = v}
ForkFree == \A i \in DOMAIN edges : kind[edges[i].from] # "fork"
Unbounded == ActivityPaths(g, Plenty, Plenty).paths

-----------------------------------------------------------------------------
(* Properties *)

FoundExactly(found, paths, count) ==
    /\ {p.nodes : p \in Range(found)} = paths /\ Len(found) = count
    /\ ForkFree => paths \subseteq Range(Unbounded)

AllWalks(walks, all) == Range(walks) = {NodesOf(x[1], x[2]) : x \in all} /\ Len(walks) = Cardinality(all)

\* elementary finds exactly the paths from the entry to an end that repeat no
\* node, each once for each choice of edges along it; activityPaths, where nothing
\* forks, every walk that takes no edge twice and cannot go on, each once, loops
\* included; and a scenario's path without a loop is one the design rules judge.
WalksExact ==
    /\ \A entry \in Range(Entries(g)) :
         FoundExactly(Elementary(g, entry).paths, {NodesOf(entry, t) : t \in SimplePaths(entry)},
                      Cardinality(SimplePaths(entry)))
    /\ ForkFree => AllWalks(Unbounded, UNION {{<<e, t>> : t \in {x \in Trails(e) : Complete(e, x)}} :
                                                e \in Range(DiagramEntries(g))})

\* unrollOnce's promise: each unrolled path walks edges of the diagram from the
\* entry to an end and takes one back edge, once; and for each pair of nodes with a
\* back edge to a node on some path, there is one such path and no more.
UnrolledOnce ==
    \A entry \in Range(Entries(g)) :
      LET w == Elementary(g, entry)
          unrolled == UnrollOnce(w.paths, w.backs)
          looping == {b \in Range(w.backs) : Through(w.paths, b.edge.to) # <<>>}
          Takes(p, b) == Times(p.nodes, b.edge.from, b.edge.to) = 1
      IN  /\ \A p \in Range(unrolled) :
               /\ p.nodes[1] = entry /\ Terminal(g, Last(p.nodes))
               /\ \A s \in Steps(p.nodes) : Joined(s[1], s[2]) # {}
               /\ \E b \in Range(w.backs) : Takes(p, b)
          /\ \A b \in looping : \E p \in Range(unrolled) : Takes(p, b)
          /\ Len(unrolled) = Cardinality({<<b.edge.from, b.edge.to>> : b \in looping})

\* What a scenario says was decided is what its path took: at each visit of a
\* decision, the loop's second visits included, the guard handed out is that of
\* an edge to the next node.  And whatever a dropped scenario would have put to
\* the system, a kept one puts to it too, with the same decision.
ScenariosFaithful ==
    LET cands == Candidates(g)
    IN  /\ \A p \in Range(cands) : \A i \in 1 .. Len(p.nodes) - 1 :
             kind[p.nodes[i]] = "decision" =>
               GuardOfVisit(p, i) \in {e.guard : e \in Joined(p.nodes[i], p.nodes[i + 1])}
        /\ \A inputs \in InputSets :
             LET kept == Range(DropRedundantStart(g, inputs, cands))
                 puts(p) == Range(Stimuli(g, inputs, p))
             IN  \A p \in Range(cands) \ kept : puts(p) \subseteq UNION {puts(q) : q \in kept}

CutSound(cut, full) ==
    /\ Range(cut.paths) \subseteq Range(full)
    /\ ForkFree => IsPrefix(cut.paths, full) /\ cut.paths # <<>>
    /\ ~cut.exhausted => cut.paths = SubSeq(full, 1, IF Len(full) > Cap THEN Cap ELSE Len(full))

\* The budget's promise: what it cuts short is a beginning of the full answer
\* (with forks, a part of it), never empty where a unit of work was to be had,
\* and the whole of it up to the cap where the budget held.  And all or nothing
\* at a fork: a path that reaches one goes on into every branch of it, however
\* little budget there was.
BudgetSound ==
    /\ \A b \in Budgets : CutSound(ActivityPaths(g, b, Cap), Unbounded)
    /\ \A b \in Budgets \union {Plenty} : \A ns \in Range(ActivityPaths(g, b, Plenty).paths) :
         \A i \in DOMAIN ns : kind[ns[i]] = "fork" /\ ns[i] \notin Range(SubSeq(ns, 1, i - 1)) =>
           \A x \in Out(g, ns[i]) : edges[x].to \in Range(SubSeq(ns, i + 1, Len(ns)))
=============================================================================
