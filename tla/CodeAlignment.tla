--------------------------- MODULE CodeAlignment ---------------------------
(***************************************************************************)
(* The packages of a module: what framework-go/arch lets them look like,   *)
(* and how methodcheck (align.go, rules_conformance.go) holds the          *)
(* committed design against them.                                          *)
(*                                                                         *)
(* An import path is a sequence of segments; a package p has               *)
(*   p.path, p.imports : its import path, those of its production files;   *)
(*   p.files : its production files [name, gen, funcs, registers, decls],  *)
(*     name the words the file's name is made of, gen for a *.gen.go,      *)
(*     funcs a sequence of [name, entry], the functions that take a        *)
(*     workflow.Context (entry: name is what is left of ...Workflow),      *)
(*     decls its exported declarations [name, kind, refs, methods, port,   *)
(*     errs]: kind type, interface, func, value or method; refs the types  *)
(*     of the package it mentions (a type's methods' too), or the receiver *)
(*     of a method, or the type of a value; methods an interface's         *)
(*     signatures by name; port the suffix of its name, errs whether all   *)
(*     its methods return an error last;                                   *)
(*   p.tests : its test files [name, external, imports].                   *)
(* A component of the design also has contract (its contractKey, "" if     *)
(* absent) and generated (its constructionProfile); contracts maps a key   *)
(* to its goPackage, a path below the module (<<>> if absent).  Names and  *)
(* path segments are compared by the key a normalizer makes of them: two   *)
(* components of one layer with one key are taken for one.                 *)
(***************************************************************************)
EXTENDS SystemRules, SequencesExt, FiniteSetsExt

CONSTANTS
    Module,         \* the module's path, a sequence of segments
    Hosts,          \* the first segments with a dot: no standard library's
    Menu,           \* the dependencies that every application may have
    TemporalExempt, \* paths, below internal, that may import Temporal
    Surface,        \* path below internal -> what else it may export; a type's methods with it
    HooksExtras,    \* what else the hooks of a test may import
    Normalize       \* what the normalizer changes: name or segment -> key

\* MethodSpec's layers, top to bottom.
Layers == <<
    [name |-> "client",         dir |-> "client",         stereotype |-> "client",  port |-> ""],
    [name |-> "manager",        dir |-> "manager",        stereotype |-> "manager", port |-> ""],
    [name |-> "engine",         dir |-> "engine",         stereotype |-> "engine",  port |-> "Engine"],
    [name |-> "resourceAccess", dir |-> "resourceaccess", stereotype |-> "access",  port |-> "Access"],
    [name |-> "utility",        dir |-> "utility",        stereotype |-> "",        port |-> ""]>>

Prefix == Module \o <<"internal">>
Below(path) == SubSeq(path, Len(Prefix) + 1, Len(path))
Leaf(path) == path[Len(path)]

\* The index of the layer a path is in; 0 for none.
LayerNumber == [dir \in {Layers[i].dir : i \in DOMAIN Layers} |-> CHOOSE i \in DOMAIN Layers : Layers[i].dir = dir]
LayerIndex(path) ==
    IF /\ Len(path) > Len(Prefix) /\ SubSeq(path, 1, Len(Prefix)) = Prefix
       /\ path[Len(Prefix) + 1] \in DOMAIN LayerNumber
    THEN LayerNumber[path[Len(Prefix) + 1]]
    ELSE 0
LayerOf(path) == Layers[LayerIndex(path)]

\* A package of nothing but generated files called fake is a test double.
GeneratedDouble(p) == Leaf(p.path) = "fake" /\ \A f \in p.files : f.gen

Decls(p) == UNION {f.decls : f \in p.files}
GenDecls(p) == UNION {f.decls : f \in {x \in p.files : x.gen}}
HandDecls(p) == UNION {f.decls : f \in {x \in p.files : ~x.gen}}
Interfaces(p) == {d \in Decls(p) : d.kind = "interface"}

-----------------------------------------------------------------------------
(* arch.go *)

Temporal(ip) == ip[1] = "go.temporal.io"
Exempt(path) == \E e \in TemporalExempt : IsSuffix(e, path)

\* A mistake for the checks to find: a peer may be called.
UpwardOnly(p, ip) ==
    IF Temporal(ip) THEN LayerOf(p.path).name # "manager" /\ ~Exempt(p.path)
    ELSE LayerIndex(ip) # 0 /\ LayerIndex(ip) < LayerIndex(p.path)

\* Up and sideways are forbidden; Temporal is the Managers'.
BadImport(p, ip) ==
    IF Temporal(ip) THEN LayerOf(p.path).name # "manager" /\ ~Exempt(p.path)
    ELSE LayerIndex(ip) # 0 /\ LayerIndex(ip) <= LayerIndex(p.path)

Portless(p) ==
    /\ LayerOf(p.path).port # ""
    /\ LET ports == {d \in Interfaces(p) : d.port = LayerOf(p.path).port}
       IN  ports = {} \/ \E d \in ports : ~d.errs

Allowed == Menu \union {Module}
OffMenu(p) == {ip \in p.imports : ip[1] \in Hosts /\ ~\E m \in Allowed : IsPrefix(m, ip)}

Misbuilt(pkgs) ==
    {p \in pkgs : \/ OffMenu(p) # {}
                  \/ /\ ~GeneratedDouble(p)
                     /\ LayerIndex(p.path) = 0 \/ (\E ip \in p.imports : BadImport(p, ip)) \/ Portless(p)}

-----------------------------------------------------------------------------
(* filelayout.go: the files a component's package may have *)

ImplFile(p) == <<Leaf(p.path), LayerOf(p.path).stereotype>>

\* One workflow in a file of its own, named for it, in a Manager's package.
WorkflowFile(p, f) ==
    /\ LayerOf(p.path).name = "manager"
    /\ \E i \in DOMAIN f.funcs : /\ {j \in DOMAIN f.funcs : f.funcs[j].entry} = {i}
                               /\ f.name = <<f.funcs[i].name>>

BadFile(p, f) ==
    \/ f.registers
    \/ IF f.name = ImplFile(p) THEN f.funcs # <<>> ELSE f.funcs = <<>> \/ ~WorkflowFile(p, f)

\* Another component's package, through its public API.
ComponentPackage(ip) ==
    /\ LayerIndex(ip) # 0 /\ Len(Below(ip)) > 1
    /\ \A i \in DOMAIN Below(ip) : Below(ip)[i] \notin {"", "internal", "testdata"}
    /\ Leaf(ip) # "fake"

HooksMayImport(p, ip) ==
    \/ ip = p.path \/ ip[1] \notin Hosts \/ ComponentPackage(ip)
    \/ Leaf(ip) = "testinfra"
    \/ \E i \in DOMAIN ip : ip[i] = "scenariohost"
    \/ \E m \in HooksExtras : IsPrefix(m, ip)

BadTest(p, t) ==
    \/ t.name \notin {<<LayerOf(p.path).stereotype, "scenarios">>, <<LayerOf(p.path).stereotype, "hooks">>}
    \/ ~t.external
    \/ t.name = <<LayerOf(p.path).stereotype, "hooks">> /\ \E ip \in t.imports : ~HooksMayImport(p, ip)

BadLayout(pkgs) ==
    {p \in pkgs : /\ LayerIndex(p.path) # 0 /\ LayerOf(p.path).stereotype # ""
                  /\ (\E f \in p.files : ~f.gen /\ BadFile(p, f)) \/ (\E t \in p.tests : BadTest(p, t))}

-----------------------------------------------------------------------------
(* gensurface.go: nothing is exported beyond the generated contract *)

HasGenerated(p) == \E f \in p.files : f.gen

\* The types of the package that those the contract declares are made of.
TypeClosure(p, seeds) ==
    LET more(T) == T \union UNION {d.refs : d \in {x \in Decls(p) : x.name \in T /\ x.kind # "method"}}
        after[n \in 0..Cardinality(Decls(p))] == IF n = 0 THEN seeds ELSE more(after[n - 1])
    IN  after[Cardinality(Decls(p))]

GenNames(p) == {d.name : d \in {x \in GenDecls(p) : x.kind # "method"}}
OnSurface(p) ==
    LET types == {d.name : d \in {x \in Decls(p) : x.kind \in {"type", "interface"}}}
        more == IF Below(p.path) \in DOMAIN Surface THEN Surface[Below(p.path)] ELSE {}
    IN  GenNames(p) \union (types \intersect TypeClosure(p, GenNames(p))) \union more

Leaked(p) ==
    LET on == OnSurface(p)
        generated == UNION {DOMAIN d.methods : d \in {x \in GenDecls(p) : x.kind = "interface"}}
    IN  {d \in HandDecls(p) :
           CASE d.kind = "method" -> d.name \notin generated /\ d.refs \intersect on = {}
             [] d.kind = "value"  -> d.name \notin on /\ d.refs \intersect on = {}
             [] OTHER             -> d.name \notin on}

Overexposed(pkgs) == {p \in pkgs : HasGenerated(p) /\ Leaked(p) # {}}

-----------------------------------------------------------------------------
(* contractdup.go: nobody declares a contract again *)

Contracts(p) == {d \in GenDecls(p) : d.kind = "interface"}
SameContract(a, b) == DOMAIN a.methods # {} /\ a.methods = b.methods

Redeclared(pkgs) ==
    {p \in pkgs : \E a \in Interfaces(p) : \E q \in pkgs : \E b \in Contracts(q) :
        a.name \notin {d.name : d \in Contracts(p)} /\ SameContract(a, b)}

-----------------------------------------------------------------------------
ArchAccepted(pkgs) ==
    Misbuilt(pkgs) = {} /\ BadLayout(pkgs) = {} /\ Redeclared(pkgs) = {} /\ Overexposed(pkgs) = {}

-----------------------------------------------------------------------------
(* align.go, rules_conformance.go *)

Key(x) == IF x \in DOMAIN Normalize THEN Normalize[x] ELSE x

\* loadClassifiedPackages: what is in a layer and no generated double.
Classified(pkgs) == {p \in pkgs : ~GeneratedDouble(p) /\ LayerIndex(p.path) # 0}

\* Generated transport, under client/web and client/mcp, is nobody's own.
TransportRoots == {<<"internal", "client", "web">>, <<"internal", "client", "mcp">>}
GeneratedTransport(p) ==
    /\ \A f \in p.files : f.gen
    /\ \E r \in TransportRoots : \E i \in 2..(Len(p.path) - 2) : SubSeq(p.path, i, i + 2) = r

ToMatch(s) == {id \in DOMAIN s.comps : s.comps[id].kind # "resource" /\ Key(s.comps[id].name) # ""}

\* The deepest segment of the whole path that names a component of the layer.
Owner(s, p) ==
    LET keys == {Key(s.comps[id].name) : id \in {x \in ToMatch(s) : s.comps[x].layer = LayerOf(p.path).name}}
        is == {i \in DOMAIN p.path : Key(p.path[i]) \in keys}
    IN  IF is = {} THEN "" ELSE Key(p.path[Max(is)])

\* Where a package stands: its leaf's key and layer, by which packages and components
\* are told apart; whose it is; and the component it is by leaf and layer, the only
\* way that conformance knows one.
Placed(s, pkgs) ==
    {LET at == <<Key(Leaf(p.path)), LayerOf(p.path).name>>
     IN  [path |-> p.path, imports |-> p.imports, at |-> at, owner |-> Owner(s, p),
          transport |-> GeneratedTransport(p),
          comp |-> {id \in DOMAIN s.comps : at[1] # "" /\ <<Key(s.comps[id].name), s.comps[id].layer>> = at}] : p \in pkgs}

-----------------------------------------------------------------------------
(* Alignment, of the placed packages *)

Owned(s, placed, id) ==
    {x \in placed : x.at[2] = s.comps[id].layer /\ x.owner = Key(s.comps[id].name)}

Realizes(path, goPackage) == IsSuffix(goPackage, path)

\* A component with no package of its own joins the one its contract names.
Joins(s, contracts, id) ==
    LET k == s.comps[id].contract
    IN  k # "" /\ (k \in DOMAIN contracts => contracts[k] # <<>>)
Joined(s, placed, contracts, id) ==
    {x \in placed : /\ s.comps[id].contract \in DOMAIN contracts
                    /\ x.at[2] = s.comps[id].layer
                    /\ Realizes(x.path, contracts[s.comps[id].contract])}

Elsewhere(s, placed, id) == {x \in placed : x.at[1] = Key(s.comps[id].name)}

\* What a built component finds: its packages, those of its contract, or its
\* name in another layer.
Found(what, rule) == [rule |-> IF what = {} THEN "missing" ELSE rule, pkgs |-> what]
BuiltMatch(s, placed, contracts, id) ==
    LET own == Owned(s, placed, id)
    IN  CASE own # {}                                -> Found(own, "")
          [] own = {} /\ Joins(s, contracts, id)     -> Found(Joined(s, placed, contracts, id), "")
          [] OTHER                                   -> Found(Elsewhere(s, placed, id), "mismatch")

\* A planned component may have no package; an external one is a Utility. (That
\* nothing imports an external one is a warning.)
Match(s, placed, contracts, id) ==
    CASE s.comps[id].status = "planned"  -> [rule |-> IF Owned(s, placed, id) = {} THEN "" ELSE "stale",
                                             pkgs |-> Owned(s, placed, id)]
      [] s.comps[id].status = "external" -> [rule |-> IF s.comps[id].kind = "utility" THEN "" ELSE "external",
                                             pkgs |-> {}]
      [] OTHER                           -> BuiltMatch(s, placed, contracts, id)

\* A missing package is no error of a component that owes none: a browser surface,
\* the REST client, one still to come, one skipped by an operator (a warning).
OwesNone(s, id, pending, skipped) ==
    \/ BrowserSurface(s.comps[id])
    \/ s.comps[id].kind = "client" /\ s.comps[id].protocol = "rest"
    \/ id \in pending \union skipped

Misaligned(s, placed, contracts, pending, skipped) ==
    {id \in ToMatch(s) : LET found == Match(s, placed, contracts, id).rule
                         IN  found # "" /\ ~(found = "missing" /\ OwesNone(s, id, pending, skipped))}

\* Packages are accounted for by leaf and layer: one accounts for its namesakes.
Accounted(s, placed, contracts) ==
    {x.at : x \in (UNION {Match(s, placed, contracts, id).pkgs : id \in ToMatch(s)})
                  \union {y \in placed : y.transport}}

Orphaned(s, placed, contracts) ==
    LET accounted == Accounted(s, placed, contracts)
    IN  {x \in placed : x.at[1] # "" /\ x.at \notin accounted}

-----------------------------------------------------------------------------
(* Conformance *)

CodeEdges(placed) ==
    UNION {UNION {x.comp \X y.comp : y \in {z \in placed : z.path \in x.imports}} : x \in placed}

Undeclared(s, placed) ==
    {e \in CodeEdges(placed) : e[1] # e[2] /\ ~\E r \in s.rels : r.from = e[1] /\ r.to = e[2]}

\* The declared calls that the code makes by importing; one that it does not make
\* is a warning.
RequiresImport(f, t, mode) ==
    /\ mode = "sync"
    /\ IF t.kind = "utility" THEN f.kind \in CoreKinds
       ELSE <<f.kind, t.kind>> \in {<<"manager", "engine">>, <<"manager", "resourceAccess">>,
                                    <<"engine", "resourceAccess">>}

-----------------------------------------------------------------------------
\* What check.go's Check reports of the code, given the project's progress; before
\* there is any code it reports nothing.
CodeAccepted(s, all, contracts, pending, skipped) ==
    LET placed == Placed(s, Classified(all))
    IN  IF placed = {} THEN all = {}
        ELSE /\ ArchAccepted(all)
             /\ Misaligned(s, placed, contracts, pending, skipped) = {}
             /\ Orphaned(s, placed, contracts) = {}
             /\ Undeclared(s, placed) = {}
=============================================================================
