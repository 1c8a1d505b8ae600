---------------------------- MODULE DiagramWalks ----------------------------
(***************************************************************************)
(* The two enumerations of an activity diagram's paths, each a recursive   *)
(* walk.                                                                   *)
(*                                                                         *)
(* methodcheck/activitypaths.go: the walks a design check makes, under a   *)
(* budget of node ids it may write and a cap on the walks it returns.      *)
(* framework-go/scenario, paths.go and derive.go: the paths that become    *)
(* scenarios, the guards taken along them, and the start paths that are    *)
(* dropped because an event's path says as much.                           *)
(*                                                                         *)
(* A diagram g has g.kind, the kind of each node 1..N in declared order,   *)
(* and g.edges, its edges [from, to, guard] in declared order; a guard is  *)
(* a number and 0 is the empty one.                                        *)
(***************************************************************************)
EXTENDS Naturals, Sequences, SequencesExt

-----------------------------------------------------------------------------
(* The walks of a design check.  The Go walker's budget is threaded: w =   *)
(* [remaining, exhausted, cap], and what walks return is [w, out], with    *)
(* out a sequence of [seq, visited].                                       *)

NewWalker(budget, cap) == [remaining |-> budget, exhausted |-> FALSE, cap |-> cap]

Out(g, n) == {i \in DOMAIN g.edges : g.edges[i].from = n}

Eligible(g, n, visited) == SetToSortSeq(Out(g, n) \ visited, <)

DiagramEntries(g) ==
    SetToSortSeq({n \in DOMAIN g.kind : g.kind[n] \in {"start", "timeEvent", "acceptEvent"}}, <)

-----------------------------------------------------------------------------
(* The budget *)

\* A refusal is sticky.
Spend(w, n) ==
    IF w.exhausted \/ w.remaining < n
    THEN [ok |-> FALSE, w |-> [w EXCEPT !.exhausted = TRUE]]
    ELSE [ok |-> TRUE,  w |-> [w EXCEPT !.remaining = @ - n]]

\* Once exploring has stopped, what is complete is still carried, up to cap.
Carry(w, assembled, n) ==
    LET s == Spend(w, n) IN [s EXCEPT !.ok = @ \/ assembled < w.cap]

-----------------------------------------------------------------------------
(* The walk *)

\* The loop that prefixes n to each of subs, until one is refused.
CarryUp(acc, n, subs) ==
    FoldLeft(LAMBDA a, sub :
               LET c == Carry(a.w, Len(a.out), 1 + Len(sub.seq))
               IN  IF a.stop THEN a
                   ELSE IF ~c.ok THEN [a EXCEPT !.w = c.w, !.stop = TRUE]
                   ELSE [a EXCEPT !.w = c.w, !.out = Append(@, [sub EXCEPT !.seq = <<n>> \o @])],
             acc, subs)

CrossProduct(w, partials, branch) ==
    LET pairs == FlattenSeq([p \in DOMAIN partials |-> [b \in DOMAIN branch |-> <<partials[p], branch[b]>>]])
        both(x, y) == [seq |-> x.seq \o y.seq, visited |-> x.visited \union y.visited]
        fold == FoldLeft(LAMBDA a, pb :
                  LET s == Spend(a.w, Len(pb[1].seq) + Len(pb[2].seq))
                  IN  IF s.ok THEN [w |-> s.w, out |-> Append(a.out, both(pb[1], pb[2]))]
                      ELSE [a EXCEPT !.w = s.w],
                [w |-> w, out |-> <<>>], pairs)
    IN  fold

Ends(g, n, visited) == g.kind[n] = "end" \/ Eligible(g, n, visited) = <<>>

\* A mistake for the checks to find: an empty branch is left out of the path.
SkipBranch(a, branch) ==
    IF branch.out = <<>> THEN [a EXCEPT !.w = branch.w] ELSE CrossProduct(branch.w, a.out, branch.out)

\* The fork's fold over one more branch: an empty one leaves no walk at all.
FoldBranch(a, branch) ==
    IF branch.out = <<>> THEN branch ELSE CrossProduct(branch.w, a.out, branch.out)

\* Where a walk may be: its walker, at a node, with the edges it has taken.
Standpoints(g) == [w : [remaining : Nat, exhausted : BOOLEAN, cap : Nat],
                   n : DOMAIN g.kind, visited : SUBSET DOMAIN g.edges]
Along(g, x, w, i) == [w |-> w, n |-> g.edges[i].to, visited |-> x.visited \union {i}]

\* The two ways on from where x is; walk says what comes of each edge.
BranchOverEdges(g, walk, x) ==
    FoldLeft(LAMBDA a, i :
               LET sub == walk[Along(g, x, a.w, i)]
               IN  IF a.stop THEN a ELSE CarryUp([a EXCEPT !.w = sub.w], x.n, sub.out),
             [w |-> x.w, out |-> <<>>, stop |-> FALSE], Eligible(g, x.n, x.visited))

WalkFork(g, walk, x) ==
    LET folded == FoldLeft(LAMBDA a, i : IF a.out = <<>> THEN a ELSE FoldBranch(a, walk[Along(g, x, a.w, i)]),
                           [w |-> x.w, out |-> <<[seq |-> <<>>, visited |-> x.visited]>>],
                           Eligible(g, x.n, x.visited))
    IN  CarryUp([w |-> folded.w, out |-> <<>>, stop |-> FALSE], x.n, folded.out)

WalkFrom(g, w, n, visited) ==
    LET walk[x \in Standpoints(g)] ==
          LET s == Spend(x.w, 1)
          IN  IF x.w.exhausted THEN [w |-> x.w, out |-> <<>>]
              ELSE IF Ends(g, x.n, x.visited)
              THEN [w |-> s.w, out |-> IF s.ok THEN <<[seq |-> <<x.n>>, visited |-> x.visited]>> ELSE <<>>]
              ELSE IF g.kind[x.n] = "fork" THEN WalkFork(g, walk, x)
              ELSE BranchOverEdges(g, walk, x)
    IN  walk[[w |-> w, n |-> n, visited |-> visited]]

\* boundedActivityPaths: every entry's walks, cut to cap at the end.
CutTo(walk, cap) ==
    [paths |-> SubSeq(walk.out, 1, IF Len(walk.out) > cap THEN cap ELSE Len(walk.out)), exhausted |-> walk.w.exhausted]

WalkAll(g, w) ==
    FoldLeft(LAMBDA a, e :
               LET r == WalkFrom(g, a.w, e, {})
               IN  [w |-> r.w, out |-> a.out \o [i \in DOMAIN r.out |-> r.out[i].seq]],
             [w |-> w, out |-> <<>>], DiagramEntries(g))

ActivityPaths(g, budget, cap) == CutTo(WalkAll(g, NewWalker(budget, cap)), cap)
-----------------------------------------------------------------------------
(* The paths that become scenarios.  Which nodes are inputs (classify.go,  *)
(* clientops.go and the dynamic views) is a parameter.                     *)

Events == {"timeEvent", "acceptEvent"}

\* buildGraph: the edges out of n by (to, guard).
SortedOut(g, n) ==
    SortSeq(SelectSeq(g.edges, LAMBDA e : e.from = n),
            LAMBDA e, f : e.to < f.to \/ (e.to = f.to /\ e.guard < f.guard))

\* Start nodes, then the event nodes without an in-edge.
Entries(g) ==
    LET starts == {n \in DOMAIN g.kind : g.kind[n] = "start"}
        events == {n \in DOMAIN g.kind : g.kind[n] \in Events /\ \A i \in DOMAIN g.edges : g.edges[i].to # n}
    IN  SetToSortSeq(starts, <) \o SetToSortSeq(events, <)

IsBranch(kind) == kind \in {"decision", "switch", "interruptEdge", "loop"}

WithGuard(p, kind, e) ==
    IF e.guard = 0 /\ ~IsBranch(kind) THEN p
    ELSE [p EXCEPT !.guards = Append(@, [at |-> e.from, guard |-> e.guard])]

-----------------------------------------------------------------------------
(* elementary and unrollOnce *)

\* A mistake for the checks to find: an end is walked past.
NoWayOn(g, n) == SortedOut(g, n) = <<>>

Terminal(g, n) == g.kind[n] = "end" \/ SortedOut(g, n) = <<>>

\* What leads to a node, and the guards taken on the way.
Approaches(g) ==
    LET noted == [at : DOMAIN g.kind, guard : {g.edges[i].guard : i \in DOMAIN g.edges}]
    IN  [nodes : Seq(DOMAIN g.kind), guards : Seq(noted)]

Walk(g, entry, start) ==
    LET walk[x \in [n : DOMAIN g.kind, before : Approaches(g)]] ==
          LET p == [x.before EXCEPT !.nodes = Append(@, x.n)]
              Follow(a, e) ==
                IF e.to \in Range(p.nodes)
                THEN [a EXCEPT !.backs = Append(@, [edge |-> e, prefix |-> p])]
                ELSE LET sub == walk[[n |-> e.to, before |-> WithGuard(p, g.kind[x.n], e)]]
                     IN  [paths |-> a.paths \o sub.paths, backs |-> a.backs \o sub.backs]
          IN  IF Terminal(g, x.n) THEN [paths |-> <<p>>, backs |-> <<>>]
              ELSE FoldLeft(Follow, [paths |-> <<>>, backs |-> <<>>], SortedOut(g, x.n))
    IN  walk[[n |-> entry, before |-> start]]

Elementary(g, entry) == Walk(g, entry, [nodes |-> <<>>, guards |-> <<>>])

Through(paths, n) == SelectSeq(paths, LAMBDA p : n \in Range(p.nodes))

\* A mistake for the checks to find: the back edge's guard is not noted.
SpliceUnguarded(p, b) ==
    LET vi == CHOOSE i \in DOMAIN p.nodes : p.nodes[i] = b.edge.to
        rest == SubSeq(p.nodes, vi, Len(p.nodes))
    IN  [nodes  |-> b.prefix.nodes \o rest,
         guards |-> b.prefix.guards \o SelectSeq(p.guards, LAMBDA x : x.at \in Range(rest))]

\* The prefix, the back edge, and the rest of path p from the edge's target.
SpliceLoop(p, b) ==
    LET vi == CHOOSE i \in DOMAIN p.nodes : p.nodes[i] = b.edge.to
        rest == SubSeq(p.nodes, vi, Len(p.nodes))
    IN  [nodes  |-> b.prefix.nodes \o rest,
         guards |-> Append(b.prefix.guards, [at |-> b.edge.from, guard |-> b.edge.guard])
                      \o SelectSeq(p.guards, LAMBDA x : x.at \in Range(rest))]

\* Once for each pair of nodes with a back edge, along the first path there is.
UnrollOnce(paths, backs) ==
    LET same(b, c) == b.edge.from = c.edge.from /\ b.edge.to = c.edge.to
        Unroll(a, i) ==
          LET through == Through(paths, backs[i].edge.to)
          IN  IF (\E j \in 1 .. i - 1 : same(backs[j], backs[i])) \/ through = <<>> THEN a
              ELSE Append(a, SpliceLoop(through[1], backs[i]))
    IN  FoldLeft(Unroll, <<>>, [i \in DOMAIN backs |-> i])

-----------------------------------------------------------------------------
(* stimuli and dropRedundantStart *)

\* guardCursor: the i-th visit of a node takes the i-th guard noted there.
GuardOfVisit(p, i) ==
    LET here   == SelectSeq(p.guards, LAMBDA x : x.at = p.nodes[i])
        visits == Len(SelectSeq(SubSeq(p.nodes, 1, i), LAMBDA n : n = p.nodes[i]))
    IN  IF visits <= Len(here) THEN here[visits].guard ELSE 0

Stimuli(g, inputs, p) ==
    LET visits == SelectSeq([i \in DOMAIN p.nodes |-> i], LAMBDA i : p.nodes[i] \in inputs)
        guard(i) == IF g.kind[p.nodes[i]] \in {"decision", "switch"} THEN GuardOfVisit(p, i) ELSE 0
    IN  [k \in DOMAIN visits |-> [node |-> p.nodes[visits[k]], guard |-> guard(visits[k])]]

\* deriveDiagram up to the drop: each entry's paths, then its unrolled loops.
Candidates(g) ==
    LET of(entry) == LET w == Elementary(g, entry) IN w.paths \o UnrollOnce(w.paths, w.backs)
        es == Entries(g)
    IN  FlattenSeq([i \in DOMAIN es |-> of(es[i])])

TailOfAny(tail, paths) == \E p \in paths : IsSuffix(tail, p)

Redundant(g, inputs, cands, p) ==
    LET events == {c.nodes : c \in {d \in Range(cands) : g.kind[d.nodes[1]] \in Events}}
    IN  /\ g.kind[p.nodes[1]] = "start" /\ events # {}
        /\ Stimuli(g, inputs, p) = <<>> \/ TailOfAny(Tail(p.nodes), events)

DropRedundantStart(g, inputs, cands) ==
    SelectSeq(cands, LAMBDA p : ~Redundant(g, inputs, cands, p))
=============================================================================
