------------------------- MODULE DesignReview_proofs -------------------------
(***************************************************************************)
(* Proofs about DesignReview, for any seeds and any number of edits: what  *)
(* the layer rules make of a system of any size, what the deployment rules *)
(* make of any topology, and what the call-chain rules make of any chain.  *)
(***************************************************************************)
EXTENDS DesignReview, FiniteSetTheorems, SequenceTheorems, TLAPS

-----------------------------------------------------------------------------
(* The architecture.                                                       *)

\* What a synchronous call that no rule refuses can lead from and to, but for
\* the call up from an Engine to a Manager.
LEMMA LegalSync ==
  ASSUME NEW x, SystemShape(x), KindIsLayer(x), Illegal(x) = {},
         NEW r \in SyncCalls(x), ~EngineUp(x, r),
         x.comps[r.from].kind # "utility", x.comps[r.to].kind # "utility"
  PROVE  \/ x.comps[r.from].kind = "client" /\ x.comps[r.to].kind = "manager"
         \/ x.comps[r.from].kind = "manager" /\ x.comps[r.to].kind \in {"engine", "resourceAccess"}
         \/ x.comps[r.from].kind = "engine" /\ x.comps[r.to].kind = "resourceAccess"
         \/ x.comps[r.from].kind = "resourceAccess" /\ x.comps[r.to].kind = "resource"
<1> DEFINE caller == x.comps[r.from]
           callee == x.comps[r.to]
<1>1. r \in x.rels /\ r.mode = "sync" /\ Known(x, r.from) /\ Known(x, r.to)
  BY DEF SyncCalls
<1>2. EdgeLegal(caller, callee, "sync")
  BY <1>1 DEF Illegal
<1>3. caller.kind \in Kinds /\ caller.layer = caller.kind /\ callee.kind \in Kinds /\ callee.layer = callee.kind
  BY <1>1 DEF SystemShape, KindIsLayer, Known
<1>4. ~(caller.kind = "engine" /\ callee.kind = "manager")
  BY DEF EngineUp
<1> HIDE DEF caller, callee
<1>5. caller.kind # "utility" /\ callee.kind # "utility"
  BY DEF caller, callee
<1>6. /\ LayerRank("client") = 0 /\ LayerRank("manager") = 1 /\ LayerRank("engine") = 1
      /\ LayerRank("resourceAccess") = 2 /\ LayerRank("resource") = 3
  BY DEF LayerRank
<1>7. \/ caller.kind = "client" /\ callee.kind = "manager"
      \/ caller.kind = "manager" /\ callee.kind \in {"engine", "resourceAccess"}
      \/ caller.kind = "engine" /\ callee.kind = "resourceAccess"
      \/ caller.kind = "resourceAccess" /\ callee.kind = "resource"
  BY <1>2, <1>3, <1>4, <1>5, <1>6
  DEF Kinds, EdgeLegal, CallsUp, CallsSideways, SkipsLayer, ManagerSyncManager, ClientSkips, UtilityInvolved
<1> QED
  BY <1>7 DEF caller, callee

\* A system of any size whose relationships are legal has no cycle of blocked
\* callers below its Utilities: no Resource waits, so no ResourceAccess, and up.
LEMMA LayersSettle ==
  ASSUME NEW x, SystemShape(x), KindIsLayer(x), Illegal(x) = {}, NEW C \in SUBSET DOMAIN x.comps
  PROVE  ~BlockedDown(x, C)
<1> SUFFICES ASSUME BlockedDown(x, C) PROVE FALSE
  OBVIOUS
<1> DEFINE Of(a) == x.comps[a].kind
<1>1. \A a \in C : \E b \in C :
         \/ Of(a) = "client" /\ Of(b) = "manager"
         \/ Of(a) = "manager" /\ Of(b) \in {"engine", "resourceAccess"}
         \/ Of(a) = "engine" /\ Of(b) = "resourceAccess"
         \/ Of(a) = "resourceAccess" /\ Of(b) = "resource"
  <2> TAKE a \in C
  <2>1. PICK r \in SyncCalls(x) : r.from = a /\ r.to \in C /\ ~EngineUp(x, r)
    BY DEF BlockedDown
  <2>2. Of(a) # "utility" /\ Of(r.to) # "utility"
    BY <2>1 DEF BlockedDown
  <2> QED
    BY <2>1, <2>2, LegalSync
<1> HIDE DEF Of
<1>2. \A a \in C : Of(a) # "resource"
  BY <1>1
<1>3. \A a \in C : Of(a) # "resourceAccess"
  BY <1>1, <1>2
<1>4. \A a \in C : Of(a) # "engine"
  BY <1>1, <1>3
<1>5. \A a \in C : Of(a) # "manager"
  BY <1>1, <1>3, <1>4
<1>6. C = {}
  BY <1>1, <1>2, <1>3, <1>4, <1>5
<1> QED
  BY <1>6 DEF BlockedDown
-----------------------------------------------------------------------------
(* The deployment.                                                         *)

\* A list as long as the number of its values repeats none of them.
LEMMA NoneRepeated ==
  ASSUME NEW n \in Nat, NEW f, Cardinality({f[i] : i \in 1..n}) = n
  PROVE  \A i, j \in 1..n : f[i] = f[j] => i = j
<1> DEFINE T == {f[i] : i \in 1..n}
           g == [i \in 1..n |-> f[i]]
<1>1. g \in Surjection(1..n, T)
  BY DEF Surjection
<1>2. IsFiniteSet(1..n) /\ Cardinality(1..n) = n
  BY FS_Interval
<1>3. Cardinality(T) = Cardinality(1..n)
  BY <1>2
<1> HIDE DEF T
<1>4. g \in Injection(1..n, T)
  BY <1>1, <1>2, <1>3, FS_Surjection
<1> QED
  BY <1>4 DEF Injection, IsInjective

\* The last of one is that one.
LEMMA LastOfOne ==
  ASSUME NEW seq, NEW i \in Nat
  PROVE  LastOf(seq, {i}) = {seq[i]}
  BY DEF LastOf

LEMMA EnvironmentOfProfile ==
  ASSUME NEW x, TopologyShape(x), Cardinality(Profiles(x)) = Len(x.envs),
         NEW i \in DOMAIN x.envs, ~DevBoot(x, x.envs[i].profile)
  PROVE  EnvOf(x, x.envs[i].profile) = {x.envs[i]}
<1> DEFINE n == Len(x.envs)
           f == [j \in 1..n |-> x.envs[j].profile]
           same == {j \in DOMAIN x.envs : x.envs[j].profile = x.envs[i].profile}
<1>1. n \in Nat /\ DOMAIN x.envs = 1..n
  BY DEF TopologyShape
<1>2. Profiles(x) = {f[j] : j \in 1..n}
  BY <1>1 DEF Profiles
<1>3. \A j, k \in 1..n : f[j] = f[k] => j = k
  <2> HIDE DEF f, n
  <2>1. Cardinality({f[j] : j \in 1..n}) = n
    BY <1>2 DEF n
  <2> QED
    BY <1>1, <2>1, NoneRepeated
<1>4. same = {i}
  BY <1>1, <1>3
<1>5. EnvOf(x, x.envs[i].profile) = LastOf(x.envs, same)
  BY DEF EnvOf
<1>6. i \in Nat
  BY <1>1
<1> QED
  BY <1>4, <1>5, <1>6, LastOfOne

LEMMA ContainersByKey ==
  ASSUME NEW x, TopologyShape(x), Cardinality({y.key : y \in Containers(x)}) = Len(x.containers),
         NEW i \in DOMAIN x.containers, NEW j \in DOMAIN x.containers,
         x.containers[i].key = x.containers[j].key
  PROVE  i = j
<1> DEFINE n == Len(x.containers)
           f == [k \in 1..n |-> x.containers[k].key]
<1>1. n \in Nat /\ DOMAIN x.containers = 1..n
  BY DEF TopologyShape
<1>2. {y.key : y \in Containers(x)} = {f[k] : k \in 1..n}
  BY <1>1 DEF Containers
<1>3. f[i] = f[j]
  BY <1>1
<1> HIDE DEF f, n
<1>4. Cardinality({f[k] : k \in 1..n}) = n
  BY <1>2 DEF n
<1> QED
  BY <1>1, <1>3, <1>4, NoneRepeated

\* An environment that an accepted topology is held to has an expected profile.
LEMMA ExpectedProfile ==
  ASSUME NEW x, WrongProfiles(x) = {}, NEW i \in DOMAIN x.envs, ~DevBoot(x, x.envs[i].profile)
  PROVE  x.envs[i].profile \in {"cloud", "local", "test"}
<1>1. x.envs[i].profile \in Profiles(x)
  BY DEF Profiles
<1>2. x.envs[i].profile \in Expected(x.style)
  BY <1>1 DEF WrongProfiles
<1>3. Expected(x.style) \subseteq {"cloud", "local", "test"}
  <2>1. CASE x.style = "cloud"
    BY <2>1 DEF Expected
  <2>2. CASE x.style = "local"
    BY <2>2 DEF Expected
  <2>3. CASE x.style = "both"
    BY <2>3 DEF Expected
  <2>4. CASE x.style \notin {"cloud", "local", "both"}
    BY <2>4 DEF Expected
  <2> QED
    BY <2>1, <2>2, <2>3, <2>4
<1> QED
  BY <1>2, <1>3

\* Some container of the environment packages it, and no other one does.
LEMMA PackagedOnce ==
  ASSUME NEW y, NEW x, TopologyShape(x), DeploymentAccepted(y, x),
         Cardinality(Profiles(x)) = Len(x.envs),
         Cardinality({z.key : z \in Containers(x)}) = Len(x.containers),
         NEW i \in DOMAIN x.envs, ~DevBoot(x, x.envs[i].profile),
         NEW name \in Internal(y)
  PROVE  \E z \in Containers(x) :
            /\ name \in z.comps /\ z.key \in Instanced(x.envs[i])
            /\ \A w \in Containers(x) : name \in w.comps => w = z
<1> DEFINE env == x.envs[i]
<1>1. /\ x.envs # <<>>
      /\ WrongProfiles(x) = {} /\ NotCovered(y, x) = {} /\ MemberShared(x) = {}
  BY DEF DeploymentAccepted
<1>2. env \in EnvOf(x, env.profile) /\ env.profile \in {"cloud", "local", "test"}
  <2>1. EnvOf(x, env.profile) = {env}
    BY EnvironmentOfProfile
  <2>2. env.profile \in {"cloud", "local", "test"}
    BY <1>1, ExpectedProfile
  <2> QED
    BY <2>1, <2>2
<1>3. name \in Covered(x, env)
  BY <1>1, <1>2 DEF NotCovered
<1>4. PICK key \in Instanced(env) : \E z \in ContainerNamed(x, key) : name \in z.comps
  BY <1>3 DEF Covered
<1>5. PICK k \in DOMAIN x.containers : x.containers[k].key = key /\ name \in x.containers[k].comps
  BY <1>4 DEF ContainerNamed, LastOf
<1>6. \A j \in DOMAIN x.containers : name \in x.containers[j].comps => j = k
  <2> SUFFICES ASSUME NEW j \in DOMAIN x.containers, name \in x.containers[j].comps PROVE j = k
    OBVIOUS
  <2>1. x.containers[j].key = x.containers[k].key
    BY <1>1, <1>5 DEF MemberShared
  <2> QED
    BY <2>1, ContainersByKey
<1>7. x.containers[k] \in Containers(x)
  BY DEF Containers
<1>8. \A w \in Containers(x) : name \in w.comps => w = x.containers[k]
  BY <1>6 DEF Containers
<1> QED
  BY <1>4, <1>5, <1>7, <1>8

\* Where there is a gateway, each link of the front door's chain is realized.
LEMMA FrontDoorOpen ==
  ASSUME NEW y, NEW x, NEW env, MissingLinks(y, x, env) = {}, Holding(x, env, "gateway") # {},
         NEW a, NEW b, \E m \in 1..3 : FrontDoorChain[m] = <<a, b>>
  PROVE  \E e \in AllRelationships(y, x, env) : e.from \in Holding(x, env, a) /\ e.to \in Holding(x, env, b)
<1>1. DOMAIN FrontDoorChain = 1..3
  BY DEF FrontDoorChain
<1>2. PICK m \in 1..3 : FrontDoorChain[m] = <<a, b>>
  OBVIOUS
<1>3. PICK e \in AllRelationships(y, x, env) : m \in LinkOf(x, env, e)
  BY <1>1 DEF MissingLinks
<1>4. e.from \in Holding(x, env, FrontDoorChain[m][1]) /\ e.to \in Holding(x, env, FrontDoorChain[m][2])
  BY <1>3 DEF LinkOf
<1> QED
  BY <1>2, <1>4
-----------------------------------------------------------------------------
(* The call chains.                                                        *)

\* The library's order of finite sets stands in for induction along a chain.
LEMMA Least ==
  ASSUME NEW n \in Nat, NEW T \in SUBSET (1 .. n), T # {}
  PROVE  \E i \in T : \A j \in T : i <= j
<1> DEFINE S == 1 .. n
           Segments == {1 .. i : i \in T}
<1>1. IsFiniteSet(S)
  BY FS_Interval
<1>2. IsWellFoundedOn(StrictSubsetOrdering(S), SUBSET S)
  <2>1. FiniteSubsetsOf(S) = SUBSET S
    BY <1>1, FS_FiniteSubsetsOfFinite, Zenon
  <2> QED BY <2>1, FS_StrictSubsetOrderingWellFounded, Zenon
<1>3. Segments \subseteq SUBSET S /\ Segments # {}
  <2>1. \A i \in T : 1 .. i \subseteq S
    OBVIOUS
  <2> HIDE DEF S
  <2> QED BY <2>1
<1>4. PICK g \in Segments : \A r \in Segments : ~(<<r, g>> \in StrictSubsetOrdering(S))
  <2> HIDE DEF S, Segments
  <2> QED BY <1>2, <1>3, WFMin, Zenon
<1>5. PICK i \in T : g = 1 .. i
  OBVIOUS
<1>6. ASSUME NEW j \in T, j < i PROVE FALSE
  <2>1. 1 .. j \in Segments /\ 1 .. j \subseteq S /\ g \subseteq S
    BY <1>5
  <2>2. 1 .. j \subseteq g /\ i \in g /\ i \notin 1 .. j
    BY <1>5, <1>6
  <2>3. <<1 .. j, g>> \in StrictSubsetOrdering(S)
    BY <2>1, <2>2 DEF StrictSubsetOrdering
  <2> QED BY <1>4, <2>1, <2>3
<1> QED BY <1>6

Below == OfKind(s, "engine") \union OfKind(s, "resourceAccess") \union OfKind(s, "resource")
Leaders == OfKind(s, "manager") \union OfKind(s, "utility")
BothEnds(call) == {call.from, call.to}

\* What the rules say of one call of an accepted view: a call that nobody below
\* the Managers makes reaches below them only from a Manager or a Utility.
LEMMA CallFromAbove ==
  ASSUME SystemShape(s), CallShape(s, c) = {}, NEW v \in Views(s), v.uc \in DOMAIN c,
         ViewAccepted(s, v, c[v.uc]), NEW e \in StepCalls(v),
         e.from \notin Below, e.to \in Below
  PROVE  e.from \in Leaders
<1> DEFINE actors == c[v.uc].actors
<1>1. Endpoints(s, v, actors) = {} /\ ActorEdges(s, v, actors) = {}
  BY DEF ViewAccepted
<1>2. e.from \in Participants(v) /\ e.to \in Participants(v)
  BY DEF Participants
<1>3. /\ (e.from \in DOMAIN s.comps) # (e.from \in actors)
      /\ (e.to \in DOMAIN s.comps) # (e.to \in actors)
  BY <1>1, <1>2 DEF Endpoints, Ambiguous
<1>4. e.to \in DOMAIN s.comps /\ s.comps[e.to].kind \in {"engine", "resourceAccess", "resource"}
  BY DEF Below, OfKind
<1>5. e.to \notin actors
  BY <1>3, <1>4
<1>6. e.from \notin actors
  <2> SUFFICES ASSUME e.from \in actors PROVE FALSE
    OBVIOUS
  <2>1. e \in ActorEdges(s, v, actors)
    BY <1>4, <1>5 DEF ActorEdges, Known
  <2> QED
    BY <2>1, <1>1
<1>7. e.from \in DOMAIN s.comps
  BY <1>3, <1>6
<1>8. ~ClientSkips(s.comps[e.from], s.comps[e.to])
  <2>1. <<v, e>> \in UNION {{<<w, x>> : x \in StepCalls(w)} : w \in Views(s)}
    OBVIOUS
  <2>2. Known(s, e.from) /\ Known(s, e.to)
    BY <1>4, <1>7 DEF Known
  <2>3. <<v, e>>[2] = e
    OBVIOUS
  <2>4. EdgeLegal(s.comps[e.from], s.comps[e.to], e.mode)
    <3> SUFFICES ASSUME ~EdgeLegal(s.comps[e.from], s.comps[e.to], e.mode) PROVE <<v, e>> \in CallShape(s, c)
      OBVIOUS
    <3> QED
      BY <2>1, <2>2, <2>3, Zenon DEF CallShape
  <2> QED
    BY <2>4 DEF EdgeLegal
<1>9. s.comps[e.from].kind # "client"
  BY <1>4, <1>8 DEF ClientSkips
<1>10. s.comps[e.from].kind \in Kinds
  BY <1>7 DEF SystemShape
<1> QED
  BY <1>7, <1>9, <1>10 DEF Kinds, Leaders, Below, OfKind

\* A call that an actor roots at a Client is above the Managers.
LEMMA RootAbove ==
  ASSUME NEW v, NEW e \in StepCalls(v), NEW actors, Endpoints(s, v, actors) = {},
         ActorToClient(s, actors, e)
  PROVE  BothEnds(e) \intersect Below = {}
<1>1. e.from \in Participants(v)
  BY DEF Participants
<1>2. e.from \notin DOMAIN s.comps
  BY <1>1 DEF Endpoints, Ambiguous, ActorToClient
<1>3. s.comps[e.to].kind = "client"
  BY DEF ActorToClient
<1> QED
  BY <1>2, <1>3 DEF BothEnds, Below, OfKind

(* However long it is, a chain of an accepted view's calls of which each   *)
(* connects to an earlier one does nothing below the Managers before a     *)
(* Manager, or a Utility, takes part (checkCallChains, callConnects).      *)
THEOREM ConnectedChainIsLed ==
  ASSUME SystemShape(s), CallShape(s, c) = {}, NEW v \in Views(s), v.uc \in DOMAIN c,
         ViewAccepted(s, v, c[v.uc]), NEW entry,
         NEW chain \in Seq(StepCalls(v)), Unconnected(s, c[v.uc].actors, entry, chain) = {}
  PROVE  ManagerLeads(chain)
<1> DEFINE n == Len(chain)
           actors == c[v.uc].actors
           Led(i) == \E j \in 1..i : BothEnds(chain[j]) \intersect Leaders # {}
           Bad == {i \in 1..n : BothEnds(chain[i]) \intersect Below # {} /\ ~Led(i)}
<1>1. n \in Nat /\ DOMAIN chain = 1..n
  OBVIOUS
<1>2. \A i \in 1..n : chain[i] \in StepCalls(v)
  BY ElementOfSeq
<1>3. SUFFICES Bad = {}
  <2> SUFFICES ASSUME NEW i \in DOMAIN chain, BothEnds(chain[i]) \intersect Below # {}
               PROVE  Led(i)
    BY Zenon DEF ManagerLeads, BothEnds, Below, Leaders
  <2> QED
    BY <1>1, <1>3
<1>4. SUFFICES ASSUME Bad # {} PROVE FALSE
  OBVIOUS
<1>5. PICK i \in Bad : \A j \in Bad : i <= j
  <2>1. Bad \in SUBSET (1..n)
    OBVIOUS
  <2> HIDE DEF Bad, n
  <2> QED
    BY <1>1, <1>4, <2>1, Least
<1>6. i \in 1..n /\ BothEnds(chain[i]) \intersect Below # {} /\ ~Led(i)
  BY <1>5
<1>7. \A j \in 1..(i - 1) : BothEnds(chain[j]) \intersect Below = {}
  <2> SUFFICES ASSUME NEW j \in 1..(i - 1), BothEnds(chain[j]) \intersect Below # {} PROVE FALSE
    OBVIOUS
  <2>1. j \in 1..n /\ j < i
    BY <1>1, <1>6
  <2>2. ~Led(j)
    BY <1>6, <2>1
  <2>3. j \in Bad
    BY <2>1, <2>2
  <2> QED
    BY <1>1, <1>5, <1>6, <2>1, <2>3
<1> DEFINE e == chain[i]
           done == SubSeq(chain, 1, i - 1)
<1>8. e \in StepCalls(v)
  BY <1>2, <1>6
<1>9. CallConnects(s, actors, entry, done, e)
  BY <1>1, <1>6 DEF Unconnected
<1>10. BothEnds(e) \intersect Leaders = {}
  BY <1>1, <1>6
<1>11. CASE ActorToClient(s, actors, e)
  BY <1>6, <1>8, <1>11, RootAbove DEF ViewAccepted
<1>12. CASE RootsEntry(s, entry, e)
  BY <1>10, <1>12 DEF RootsEntry, BothEnds, Leaders, OfKind, Known
<1>13. CASE \E j \in DOMAIN done : e.from \in {done[j].from, done[j].to}
  <2>1. PICK j \in DOMAIN done : e.from \in BothEnds(done[j])
    BY <1>13 DEF BothEnds
  <2>2. j \in 1..(i - 1) /\ done[j] = chain[j]
    BY <1>1, <1>6, <2>1
  <2>3. e.from \notin Below
    BY <1>7, <2>1, <2>2
  <2>4. e.to \in Below
    BY <1>6, <2>3 DEF BothEnds
  <2>5. e.from \in Leaders
    BY <1>8, <2>3, <2>4, CallFromAbove
  <2> QED
    BY <1>10, <2>5 DEF BothEnds
<1> QED
  BY <1>9, <1>11, <1>12, <1>13 DEF CallConnects
-----------------------------------------------------------------------------
(* Every edit keeps the shape of what it edits.                            *)

Shaped == SystemShape(s) /\ TopologyShape(t)

LEMMA FunctionIsSeq ==
  ASSUME NEW R, NEW z, NEW n \in Nat, z \in [1..n -> R]
  PROVE  z \in Seq(R)
  OBVIOUS

LEMMA ListOfItsValues ==
  ASSUME NEW S, NEW z \in Seq(S)
  PROVE  z \in Seq(Range(z))
<1>1. Len(z) \in Nat /\ z \in [1..Len(z) -> S]
  BY LenProperties
<1>2. z \in [1..Len(z) -> Range(z)]
  BY <1>1 DEF Range
<1>3. \A n \in Nat : z \in [1..n -> Range(z)] => z \in Seq(Range(z))
  BY FunctionIsSeq
<1> QED
  BY <1>1, <1>2, <1>3

LEMMA EditedSeq ==
  ASSUME NEW z, z \in Seq(Range(z)), NEW i \in DOMAIN z, NEW v
  PROVE  [z EXCEPT ![i] = v] \in Seq(Range([z EXCEPT ![i] = v]))
<1> DEFINE w == [z EXCEPT ![i] = v]
           T == Range(z) \union {v}
<1>1. z \in Seq(T)
  BY ListOfItsValues
<1>2. w \in Seq(T)
  BY <1>1 DEF T
<1> HIDE DEF w, T
<1>3. w \in Seq(Range(w))
  BY <1>2, ListOfItsValues
<1> QED
  BY <1>3 DEF w

LEMMA ShortenedSeq ==
  ASSUME NEW z, z \in Seq(Range(z)), NEW i \in DOMAIN z
  PROVE  RemoveAt(z, i) \in Seq(Range(RemoveAt(z, i)))
<1>1. i \in 1..Len(z) /\ Len(z) \in Nat
  OBVIOUS
<1>2. SubSeq(z, 1, i - 1) \in Seq(Range(z)) /\ SubSeq(z, i + 1, Len(z)) \in Seq(Range(z))
  BY <1>1
<1>3. RemoveAt(z, i) \in Seq(Range(z))
  BY <1>2 DEF RemoveAt
<1> QED
  BY <1>3, ListOfItsValues

LEMMA ArchitectureShaped ==
  ASSUME SystemShape(s), NEW a, NEW b, NEW mode, ToggleRelationship(a, b, mode)
  PROVE  SystemShape(s')
<1>1. PICK v : s' = [s EXCEPT !.rels = v]
  BY DEF ToggleRelationship
<1>2. DOMAIN s' = DOMAIN s /\ s'.comps = s.comps
  BY <1>1 DEF SystemShape
<1> QED
  BY <1>2 DEF SystemShape

LEMMA RecastShaped ==
  ASSUME SystemShape(s), NEW id \in DOMAIN s.comps, NEW k \in Kinds, Recast(id, k)
  PROVE  SystemShape(s')
<1> DEFINE old == s.comps[id]
           new == [[old EXCEPT !.kind = k] EXCEPT !.layer = k]
<1>1. s' = [s EXCEPT !.comps = [@ EXCEPT ![id] = new]]
  BY DEF Recast, SystemShape
<1>2. DOMAIN s' = DOMAIN s /\ s'.comps = [s.comps EXCEPT ![id] = new]
  BY <1>1 DEF SystemShape
<1>3. DOMAIN new = DOMAIN old /\ new.kind = k
  BY DEF SystemShape
<1>4. {"kind", "layer"} \subseteq DOMAIN new /\ new.kind \in Kinds
  BY <1>3 DEF SystemShape
<1> HIDE DEF new
<1>5. \A x \in DOMAIN s'.comps : x \in DOMAIN s.comps /\ s'.comps[x] = IF x = id THEN new ELSE s.comps[x]
  BY <1>2
<1> QED
  BY <1>2, <1>4, <1>5 DEF SystemShape

LEMMA ViewsShaped ==
  ASSUME SystemShape(s), NEW v, s' = [s EXCEPT !.views = v]
  PROVE  SystemShape(s')
<1>1. DOMAIN s' = DOMAIN s /\ s'.comps = s.comps
  BY DEF SystemShape
<1> QED
  BY <1>1 DEF SystemShape

LEMMA EnvironmentsShaped ==
  ASSUME TopologyShape(t), NEW v, v \in Seq(Range(v)), t' = [t EXCEPT !.envs = v]
  PROVE  TopologyShape(t')
<1>1. DOMAIN t' = DOMAIN t /\ t'.containers = t.containers /\ t'.envs = v
  BY DEF TopologyShape
<1> QED
  BY <1>1 DEF TopologyShape

LEMMA ContainersShaped ==
  ASSUME TopologyShape(t), NEW v, v \in Seq(Range(v)), t' = [t EXCEPT !.containers = v]
  PROVE  TopologyShape(t')
<1>1. DOMAIN t' = DOMAIN t /\ t'.containers = v /\ t'.envs = t.envs
  BY DEF TopologyShape
<1> QED
  BY <1>1 DEF TopologyShape

LEMMA EnvironmentEdited ==
  ASSUME TopologyShape(t), NEW i \in DOMAIN t.envs,
         \/ \E link : ToggleLink(i, link)
         \/ DropEnvironment(i)
         \/ \E j : DropElement(i, j)
         \/ \E j, key : Rekey(i, j, key)
  PROVE  TopologyShape(t')
<1>1. t.envs \in Seq(Range(t.envs))
  BY DEF TopologyShape
<1>2. CASE DropEnvironment(i)
  <2>1. t' = [t EXCEPT !.envs = RemoveAt(t.envs, i)]
    BY <1>2 DEF DropEnvironment
  <2>2. RemoveAt(t.envs, i) \in Seq(Range(RemoveAt(t.envs, i)))
    BY <1>1, ShortenedSeq
  <2> QED
    BY <2>1, <2>2, EnvironmentsShaped
<1>3. CASE ~DropEnvironment(i)
  <2>1. PICK v : t' = [t EXCEPT !.envs[i] = v]
    <3>1. ASSUME NEW link, ToggleLink(i, link) PROVE \E v : t' = [t EXCEPT !.envs[i] = v]
      <4>1. t' = [t EXCEPT !.envs[i] = [t.envs[i] EXCEPT !.rels = Toggle(@, link)]]
        BY <3>1 DEF ToggleLink
      <4> QED
        BY <4>1
    <3>2. ASSUME NEW j, DropElement(i, j) PROVE \E v : t' = [t EXCEPT !.envs[i] = v]
      <4>1. t' = [t EXCEPT !.envs[i] = [t.envs[i] EXCEPT !.elements = RemoveAt(@, j)]]
        BY <3>2 DEF DropElement
      <4> QED
        BY <4>1
    <3>3. ASSUME NEW j, NEW key, Rekey(i, j, key) PROVE \E v : t' = [t EXCEPT !.envs[i] = v]
      <4>1. t' = [t EXCEPT !.envs[i] = [t.envs[i] EXCEPT !.elements[j].key = key]]
        BY <3>3 DEF Rekey
      <4> QED
        BY <4>1
    <3> QED
      BY <1>3, <3>1, <3>2, <3>3
  <2>2. t' = [t EXCEPT !.envs = [t.envs EXCEPT ![i] = v]]
    BY <2>1
  <2>3. [t.envs EXCEPT ![i] = v] \in Seq(Range([t.envs EXCEPT ![i] = v]))
    BY <1>1, EditedSeq
  <2> QED
    BY <2>2, <2>3, EnvironmentsShaped
<1> QED
  BY <1>2, <1>3

LEMMA RepackageShaped ==
  ASSUME TopologyShape(t), NEW i \in DOMAIN t.containers, NEW name, Repackage(i, name)
  PROVE  TopologyShape(t')
<1> DEFINE v == [t.containers[i] EXCEPT !.comps = Toggle(@, name)]
           z == [t.containers EXCEPT ![i] = v]
<1>1. t.containers \in Seq(Range(t.containers))
  BY DEF TopologyShape
<1>2. t' = [t EXCEPT !.containers = z]
  BY DEF Repackage
<1> HIDE DEF v
<1>3. z \in Seq(Range(z))
  BY <1>1, EditedSeq
<1> HIDE DEF z
<1> QED
  BY <1>2, <1>3, ContainersShaped

LEMMA RestyleShaped ==
  ASSUME TopologyShape(t), NEW style, Restyle(style)
  PROVE  TopologyShape(t')
<1>1. t' = [t EXCEPT !.style = style]
  BY DEF Restyle
<1>2. DOMAIN t' = DOMAIN t /\ t'.containers = t.containers /\ t'.envs = t.envs
  BY <1>1 DEF TopologyShape
<1> QED
  BY <1>2 DEF TopologyShape

LEMMA NextShaped == Shaped /\ [Next]_vars => Shaped'
<1> SUFFICES ASSUME SystemShape(s), TopologyShape(t), [Next]_vars PROVE SystemShape(s') /\ TopologyShape(t')
  BY DEF Shaped
<1>1. ASSUME NEW a, NEW b, NEW mode, ToggleRelationship(a, b, mode) PROVE SystemShape(s') /\ t' = t
  BY <1>1, ArchitectureShaped DEF ToggleRelationship
<1>2. ASSUME NEW id \in DOMAIN s.comps, NEW k \in Kinds, Recast(id, k) PROVE SystemShape(s') /\ t' = t
  BY <1>2, RecastShaped DEF Recast
<1>3. ASSUME NEW i, NEW j, NEW k, NEW call, InsertCall(i, j, k, call) PROVE SystemShape(s') /\ t' = t
  <2>1. PICK v : s' = [s EXCEPT !.views = v]
    BY <1>3 DEF InsertCall
  <2> QED
    BY <1>3, <2>1, ViewsShaped DEF InsertCall
<1>4. ASSUME NEW i, NEW j, NEW k, RemoveCall(i, j, k) PROVE SystemShape(s') /\ t' = t
  <2>1. PICK v : s' = [s EXCEPT !.views = v]
    BY <1>4 DEF RemoveCall
  <2> QED
    BY <1>4, <2>1, ViewsShaped DEF RemoveCall
<1>5. ASSUME NEW i \in DOMAIN t.envs,
             \/ \E link : ToggleLink(i, link)
             \/ DropEnvironment(i)
             \/ \E j : DropElement(i, j)
             \/ \E j, key : Rekey(i, j, key)
      PROVE  TopologyShape(t') /\ s' = s
  BY <1>5, EnvironmentEdited DEF ToggleLink, DropEnvironment, DropElement, Rekey
<1>6. ASSUME NEW i \in DOMAIN t.containers, NEW name, Repackage(i, name) PROVE TopologyShape(t') /\ s' = s
  BY <1>6, RepackageShaped DEF Repackage
<1>7. ASSUME NEW style, Restyle(style) PROVE TopologyShape(t') /\ s' = s
  BY <1>7, RestyleShaped DEF Restyle
<1>8. CASE Draw \/ Replan \/ UNCHANGED vars
  BY <1>8 DEF Draw, Replan, vars
<1>9. ASSUME NEW uc, NEW a, NEW b, ToggleFlow(uc, a, b) PROVE s' = s /\ t' = t
  BY <1>9 DEF ToggleFlow
<1>10. ASSUME NEW u, NEW n, NEW i, NEW label, Relabel(u, n, i, label) PROVE s' = s /\ t' = t
  BY <1>10 DEF Relabel
<1>11. ASSUME NEW i, NEW op, ToggleOp(i, op) PROVE s' = s /\ t' = t
  BY <1>11 DEF ToggleOp
<1>12. ASSUME NEW key, NEW i, NEW a, SkipScenario(key, i, a) PROVE s' = s /\ t' = t
  BY <1>12 DEF SkipScenario
<1>13. ASSUME NEW key, NEW i, Unbind(key, i) PROVE s' = s /\ t' = t
  BY <1>13 DEF Unbind
<1>14. ASSUME NEW key, NEW i, NEW j, NEW op, Rebind(key, i, j, op) PROVE s' = s /\ t' = t
  BY <1>14 DEF Rebind
<1>15. ASSUME NEW a, Integrate(a) PROVE s' = s /\ t' = t
  BY <1>15 DEF Integrate
<1> QED
  BY <1>1, <1>2, <1>3, <1>4, <1>5, <1>6, <1>7, <1>8, <1>9, <1>10, <1>11, <1>12, <1>13,
     <1>14, <1>15 DEF Next

LEMMA InitShaped == Init => Shaped
<1> SUFFICES ASSUME Init PROVE Shaped
  OBVIOUS
<1>1. (CHOOSE x \in SeedTopologies : TRUE) \in SeedTopologies
  BY SeedAssumption
<1>2. s = SeedSystem /\ t \in SeedTopologies
  BY <1>1 DEF Init
<1> QED
  BY <1>2, SeedAssumption DEF Shaped

(* Whatever edits were made, the architecture's components are of the six  *)
(* kinds, and its deployment is listed container by container and          *)
(* environment by environment.                                             *)
THEOREM StaysShaped == Spec => []Shaped
  BY InitShaped, NextShaped, PTL DEF Spec

(* However many components and edits, an architecture that no layer rule   *)
(* refuses never blocks on itself, but through a Utility or up from an     *)
(* Engine to a Manager (relDontRules, appCEdgeViolation).                  *)
THEOREM CallsAlwaysSettle == Spec => []CallsSettle
<1>1. Shaped => CallsSettle
  BY LayersSettle DEF Shaped, CallsSettle
<1> QED
  BY StaysShaped, <1>1, PTL

(* However many containers, environments and edits, what checkDeployment   *)
(* and checkDeploymentEdges accept packages each component once wherever   *)
(* it runs, and leads from a frontend through the gateway to what is       *)
(* behind it.                                                              *)
THEOREM AcceptedDeploysOnce == Spec => []DeployedOnce
<1>1. Shaped => DeployedOnce
  <2> SUFFICES ASSUME Shaped, DeploymentAccepted(s, t), Cardinality(Profiles(t)) = Len(t.envs),
                      Cardinality({x.key : x \in Containers(t)}) = Len(t.containers),
                      NEW i \in DOMAIN t.envs, ~DevBoot(t, t.envs[i].profile)
               PROVE  LET env == t.envs[i]
                          Linked(a, b) == \E e \in AllRelationships(s, t, env) : e.from = a /\ e.to = b
                          Is(position) == Holding(t, env, position)
                      IN  /\ \A name \in Internal(s) : \E x \in Containers(t) :
                               /\ name \in x.comps /\ x.key \in Instanced(env)
                               /\ \A y \in Containers(t) : name \in y.comps => y = x
                          /\ Is("gateway") # {} =>
                               /\ \E a \in Is("frontend"), b \in Is("gateway") : Linked(a, b)
                               /\ \A to \in {"idp", "app"} : \E a \in Is("gateway"), b \in Is(to) : Linked(a, b)
    BY DEF DeployedOnce
  <2>1. TopologyShape(t)
    BY DEF Shaped
  <2>2. \A name \in Internal(s) : \E x \in Containers(t) :
           /\ name \in x.comps /\ x.key \in Instanced(t.envs[i])
           /\ \A y \in Containers(t) : name \in y.comps => y = x
    BY <2>1, PackagedOnce
  <2>3. MissingLinks(s, t, t.envs[i]) = {}
    <3>1. t.envs # <<>>
      BY <2>1 DEF TopologyShape
    <3>2. t.envs[i] \in Judged(t)
      BY DEF Judged
    <3> QED
      BY <3>1, <3>2 DEF DeploymentAccepted, EnvAccepted
  <2>4. ASSUME Holding(t, t.envs[i], "gateway") # {},
               NEW a, NEW b, \E m \in 1..3 : FrontDoorChain[m] = <<a, b>>
        PROVE  \E e \in AllRelationships(s, t, t.envs[i]) :
                  e.from \in Holding(t, t.envs[i], a) /\ e.to \in Holding(t, t.envs[i], b)
    BY <2>3, <2>4, FrontDoorOpen
  <2>5. FrontDoorChain[1] = <<"frontend", "gateway">> /\ FrontDoorChain[2] = <<"gateway", "idp">>
        /\ FrontDoorChain[3] = <<"gateway", "app">>
    BY DEF FrontDoorChain
  <2>6. Holding(t, t.envs[i], "gateway") # {} =>
          /\ \E e \in AllRelationships(s, t, t.envs[i]) :
                e.from \in Holding(t, t.envs[i], "frontend") /\ e.to \in Holding(t, t.envs[i], "gateway")
          /\ \A b \in {"idp", "app"} : \E e \in AllRelationships(s, t, t.envs[i]) :
                e.from \in Holding(t, t.envs[i], "gateway") /\ e.to \in Holding(t, t.envs[i], b)
    BY <2>4, <2>5
  <2> QED
    BY <2>2, <2>6
<1> QED
  BY StaysShaped, <1>1, PTL
=============================================================================
