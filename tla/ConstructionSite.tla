-------------------------- MODULE ConstructionSite --------------------------
(***************************************************************************)
(* A committed design under construction: the rows of its activities and   *)
(* the packages on disk, between two checks of them.  An activity builds   *)
(* one component: an attempt begins, its code lands, the row completes, or *)
(* the attempt fails or is skipped.  That is the server's and the workers' *)
(* doing, outside this repository; here it is what the row's fields, the   *)
(* layout rules and the generators of this repository say of it.  Besides, *)
(* someone edits the tree by hand (Drift).                                 *)
(***************************************************************************)
EXTENDS CodeAlignment, ActivityRows

CONSTANTS
    Design,     \* the committed system
    GoPackages, \* contract key -> the package it names, below the module
    Activities, \* [name, comp], comp the component it builds
    Troubled,   \* names of those that may fail or be skipped
    MaxBuilds,  \* bounds the attempts of an activity
    Strays,     \* packages that someone may add
    MaxDrift    \* bounds what is edited by hand

VARIABLES
    rows,   \* activity name -> its row, of those begun
    pkgs,   \* the packages on disk
    drift   \* how often the tree was edited by hand
siteVars == <<rows, pkgs, drift>>

ActivityOf(id) == {a \in Activities : a.comp = id}
\* Where a component's package is: its own, or the one its contract names.
Paths ==
    [id \in ToMatch(Design) |->
        LET c == Design.comps[id]
        IN  IF c.contract \in DOMAIN GoPackages
            THEN Module \o GoPackages[c.contract]
            ELSE Prefix \o <<Layers[CHOOSE i \in DOMAIN Layers : Layers[i].name = c.layer].dir, c.name>>]
OnDisk(path) == \E p \in pkgs : p.path = path

\* What the code of a component imports: what it calls below it, once built.
Needs(id) ==
    {r.to : r \in {x \in Design.rels : /\ x.from = id /\ Built(Design.comps[x.to])
                                       /\ RequiresImport(Design.comps[id], Design.comps[x.to], x.mode)}}

-----------------------------------------------------------------------------
(* The code that lands *)

Contract(id, port) ==
    [name |-> id, kind |-> "interface", refs |-> {}, methods |-> "Do" :> id, port |-> port, errs |-> TRUE]
Generated(name, decls) == [name |-> name, gen |-> TRUE, funcs |-> <<>>, registers |-> FALSE, decls |-> decls]
Written(name, funcs, decls) == [name |-> name, gen |-> FALSE, funcs |-> funcs, registers |-> FALSE, decls |-> decls]

\* A component: its generated contract, the file that implements it and, of a
\* Manager, a workflow in a file of its own; its scenarios and their hooks.
SourceOf(id, layer) ==
    {Generated(<<"contract">>, {Contract(id, layer.port)}), Written(<<Leaf(Paths[id]), layer.stereotype>>, <<>>, {})}
    \union (IF layer.name = "manager" THEN {Written(<<"sweep">>, <<[name |-> "sweep", entry |-> TRUE]>>, {})} ELSE {})
Runtime(layer) == IF layer.name = "manager" THEN <<"go.temporal.io", "sdk">> ELSE <<"context">>

CodeOf(id) ==
    LET layer == LayerOf(Paths[id])
    IN  [path |-> Paths[id],
         imports |-> {Paths[n] : n \in {x \in Needs(id) : OnDisk(Paths[x])}} \union {Runtime(layer)},
         files |-> SourceOf(id, layer),
         tests |-> {[name |-> <<layer.stereotype, "hooks">>, external |-> TRUE, imports |-> {Paths[id]}]}]

\* The test double that is generated beside a port.
FakeOf(id) ==
    [path |-> Paths[id] \o <<"fake">>, imports |-> {Paths[id]},
     files |-> {Generated(<<"fake">>, {})}, tests |-> {}]

\* A Manager's transport, generated when it is integrated.
TransportOf(id) ==
    {[path |-> Module \o r \o <<Design.comps[id].name>>, imports |-> {Paths[id]},
      files |-> {Generated(<<"routes">>, {})}, tests |-> {}] : r \in TransportRoots}

Landing(id) ==
    {CodeOf(id)} \union (IF LayerOf(Paths[id]).port # "" THEN {FakeOf(id)} ELSE {})
                 \union (IF Design.comps[id].kind = "manager" THEN TransportOf(id) ELSE {})

-----------------------------------------------------------------------------
(* The activities *)

Row(a) == RowOf(rows, a)
Tries(a) == {x.attempt : x \in Row(a).attempts}
Try(a) == CHOOSE x \in Row(a).attempts : \A n \in Tries(a) : n <= x.attempt
InFlight(a) == Tries(a) # {} /\ ~Row(a).completed /\ Try(a).outcome = ""
Puts(a, row) == rows' = [n \in DOMAIN rows \union {a.name} |-> IF n = a.name THEN row ELSE rows[n]]
Outcome(a, o) == (Row(a).attempts \ {Try(a)}) \union {[Try(a) EXCEPT !.outcome = o]}

\* What a component needs is done or left out before its own construction.
Ready(a) ==
    \A n \in Needs(a.comp) : \A b \in ActivityOf(n) : Completed(Row(b)) \/ Skipped(Row(b))

\* The first attempt, or another one after a failure.
Start(a) ==
    /\ Row(a).failure \/ Tries(a) = {}
    /\ Ready(a) /\ Cardinality(Tries(a)) < MaxBuilds
    /\ Puts(a, [NoRow EXCEPT !.attempts = Row(a).attempts \union
                   {[task |-> "construction", attempt |-> Cardinality(Tries(a)) + 1, outcome |-> ""]}])
    /\ UNCHANGED <<pkgs, drift>>

Land(a) ==
    /\ InFlight(a) /\ ~OnDisk(Paths[a.comp])
    /\ pkgs' = pkgs \union {p \in Landing(a.comp) : ~OnDisk(p.path)}
    /\ UNCHANGED <<rows, drift>>

Complete(a) ==
    /\ InFlight(a) /\ OnDisk(Paths[a.comp])
    /\ Puts(a, [Row(a) EXCEPT !.attempts = Outcome(a, "passed"), !.completed = TRUE])
    /\ UNCHANGED <<pkgs, drift>>

Abort(a) ==
    /\ InFlight(a) /\ a.name \in Troubled
    /\ Puts(a, [Row(a) EXCEPT !.attempts = Outcome(a, "failed"), !.completed = TRUE, !.failure = TRUE])
    /\ UNCHANGED <<pkgs, drift>>

\* An operator skips it; what has landed of it stays.
Skip(a) ==
    /\ InFlight(a) /\ a.name \in Troubled
    /\ Puts(a, [Row(a) EXCEPT !.attempts = Outcome(a, "skipped"), !.completed = TRUE])
    /\ UNCHANGED <<pkgs, drift>>

-----------------------------------------------------------------------------
(* Edits by hand *)

\* Packages that import one another do not build.
ReachesPath(q, p) ==
    LET next(S) == S \union {x.path : x \in {y \in pkgs : \E z \in pkgs : z.path \in S /\ y.path \in z.imports}}
        after[n \in 0..Cardinality(pkgs)] == IF n = 0 THEN {q.path} ELSE next(after[n - 1])
    IN  p.path \in after[Cardinality(pkgs)]

Import(p, q) == (pkgs \ {p}) \union {[p EXCEPT !.imports = @ \union {q.path}]}
Move(p, dir) == (pkgs \ {p}) \union {[p EXCEPT !.path[Len(Prefix) + 1] = dir]}
Copy(p, d) == (pkgs \ {p}) \union
    {[p EXCEPT !.files = {IF f.gen THEN f ELSE [f EXCEPT !.decls = {[d EXCEPT !.name = "Mine"]}] : f \in p.files}]}

Drift ==
    /\ drift < MaxDrift /\ pkgs # {} /\ drift' = drift + 1
    /\ \/ \E p \in Strays : ~OnDisk(p.path) /\ pkgs' = pkgs \union {p}
       \/ \E p, q \in pkgs : q.path \notin p.imports /\ ~ReachesPath(q, p) /\ pkgs' = Import(p, q)
       \/ \E p \in pkgs : pkgs' = pkgs \ {p}
       \/ \E p \in pkgs, i \in DOMAIN Layers :
             /\ LayerIndex(p.path) # 0 /\ ~OnDisk([p.path EXCEPT ![Len(Prefix) + 1] = Layers[i].dir])
             /\ pkgs' = Move(p, Layers[i].dir)
       \/ \E p, q \in pkgs : \E d \in Contracts(q) : p # q /\ pkgs' = Copy(p, d)
    /\ UNCHANGED rows

InitSite == rows = <<>> /\ pkgs = {} /\ drift = 0

NextSite ==
    \/ \E a \in Activities : Start(a) \/ Land(a) \/ Complete(a) \/ Abort(a) \/ Skip(a)
    \/ Drift

SiteSpec == InitSite /\ [][NextSite]_siteVars

-----------------------------------------------------------------------------
Pending == WithGeneratedClients(Design.comps, PendingOf(Activities, rows))
LeftOut == SkippedOf(Activities, rows)
Judged == CodeAccepted(Design, pkgs, GoPackages, Pending, LeftOut)

\* A package that carries a component's name below the layer, or is the one that
\* its contract names.
Mine(id, p) ==
    LET c == Design.comps[id]
    IN  /\ LayerOf(p.path).name = c.layer
        /\ \/ \E i \in DOMAIN Below(p.path) : i > 1 /\ Key(Below(p.path)[i]) = Key(c.name)
           \/ c.contract \in DOMAIN GoPackages /\ Realizes(p.path, GoPackages[c.contract])

\* Whatever is edited, a tree the check accepts is still the design's: imports within
\* it only lead down the layers, and between two components' packages only where
\* the design has a call; what is finished is there, unless there is no code at all;
\* every package is in a layer, and is some component's or generated transport, or
\* has the name of one in its layer.
DriftCaught ==
    Judged =>
      LET code == {p \in pkgs : ~GeneratedDouble(p)}
          comps == ToMatch(Design)
      IN  /\ \A p \in code : LayerIndex(p.path) # 0
          /\ \A p, q \in code : q.path \in p.imports =>
                /\ LayerIndex(p.path) < LayerIndex(q.path)
                /\ {p.path, q.path} \subseteq Range(Paths) =>
                      \E r \in Design.rels : /\ {r.from, r.to} \subseteq comps
                                             /\ Paths[r.from] = p.path /\ Paths[r.to] = q.path
          /\ pkgs # {} => \A id \in DoneOf(Activities, rows) : \E p \in code : Mine(id, p)
          /\ \A p \in code : Key(Leaf(p.path)) # "" => \E q \in code :
                /\ LayerOf(q.path) = LayerOf(p.path) /\ Key(Leaf(q.path)) = Key(Leaf(p.path))
                /\ (\E id \in comps : Mine(id, q)) \/ GeneratedTransport(q)

\* What it takes for that: a component is not called like the module, "internal" or
\* the directory of its layer; the package of a contract is some component's own; and
\* an activity builds a component that owes a package.
Owners(id) ==
    {own \in ToMatch(Design) : /\ Paths[own] = Paths[id] /\ LayerOf(Paths[own]).name = Design.comps[own].layer
                               /\ Key(Leaf(Paths[own])) = Key(Design.comps[own].name)}
IsPath(path) == path \in Seq(Range(path)) /\ path # <<>>
SiteLegal ==
    /\ IsPath(Module) /\ ~Temporal(Module)
    /\ \A k \in DOMAIN GoPackages : IsPath(GoPackages[k])
    /\ \A p \in Strays : IsPath(p.path) /\ DOMAIN p = {"path", "imports", "files", "tests"}
    /\ \A id \in ToMatch(Design) :
         LET c == Design.comps[id]
         IN  /\ \E i \in DOMAIN Layers : Layers[i].name = c.layer /\ Key(Layers[i].dir) # Key(c.name)
             /\ \A i \in DOMAIN Prefix : Key(Prefix[i]) # Key(c.name)
             /\ Owners(id) # {}
    /\ \A a \in Activities :
         /\ a.comp \in ToMatch(Design) /\ Built(Design.comps[a.comp]) /\ ~BrowserSurface(Design.comps[a.comp])
         /\ ~(Design.comps[a.comp].kind = "client" /\ Design.comps[a.comp].protocol = "rest")
         /\ a.comp \notin GeneratedClients(Design.comps)

\* While work is under way, has failed or was skipped, and nobody edits the tree by
\* hand, the check of the code against the design reports nothing. (If every Manager
\* is skipped, it misses the generated clients: they are never written then.)
NoFalseAlarm ==
    drift = 0 /\ (\E a \in Activities : Design.comps[a.comp].kind = "manager" /\ a.comp \notin LeftOut) => Judged

\* What it takes for that: names differ once they are normalized, and are no double's;
\* a component's package is in its layer; a call is declared of those whose packages
\* they are; and what owes a package is built by an activity or is generated transport.
Transports == {Key("web"), Key("mcp")}
SiteOrderly ==
    /\ KindIsLayer(Design) /\ "" \notin DOMAIN Design.comps /\ "" \notin DOMAIN GoPackages
    /\ \A r \in Design.rels : Known(Design, r.to)
    /\ \A id \in DOMAIN Design.comps :
         LET c == Design.comps[id]
         IN  /\ Key(c.name) \notin {"", Key("fake")}
             /\ \A other \in DOMAIN Design.comps : Key(Design.comps[other].name) = Key(c.name) => other = id
             /\ c.status = "external" => c.kind = "utility"
             /\ c.status = "planned" /\ c.kind = "client" => Key(c.name) \notin Transports
    /\ \A id \in {x \in ToMatch(Design) : Built(Design.comps[x])} :
         LET c == Design.comps[id]
         IN  /\ LayerIndex(Paths[id]) # 0 /\ LayerOf(Paths[id]).name = c.layer
             /\ \A own \in Owners(id) :
                  /\ Built(Design.comps[own])
                  /\ \A n \in Needs(id) : \A callee \in Owners(n) :
                        \E r \in Design.rels : r.from = own /\ r.to = callee
             /\ \/ ActivityOf(id) # {}
                \/ BrowserSurface(c)
                \/ c.kind = "client" /\ c.protocol = "rest"
                \/ id \in GeneratedClients(Design.comps) /\ Key(c.name) \in Transports
    /\ \A a, b \in Activities : a.name = b.name => a = b
    /\ "context" \notin Hosts /\ \E m \in Menu : IsPrefix(m, <<"go.temporal.io", "sdk">>)
    /\ MaxBuilds \in Nat

\* The check of the code against the design is right both ways: work under way,
\* failed or skipped raises no alarm; and a tree it accepts, whatever was edited, is
\* still the design's.
AlignmentHonest == NoFalseAlarm /\ DriftCaught
=============================================================================
