# Verification of archistrator-platform in TLA+

This directory holds TLA+ models of archistrator-platform, the TLC configurations that
check them on small instances, and theorems about them that TLAPS proves for every value of
the constants. The models are translated from the Go code; `PROJECT.json` maps every
definition to the lines it stands for.

    tlc -config LocalPush.cfg LocalPush.tla        check a run
    tlapm LocalPush_proofs.tla                     check the proofs of a module

Paths below are relative to the repository. `GH` is `framework-go-infrastructure-github`,
`SH` is `framework-go-scenariohost`, `MC` is `framework-go/methodcheck`, `AG` is
`framework-go-app-generator`.

## 1. The system

archistrator-platform is the framework that applications built with archistrator stand on.
It has four parts that meet in files and services rather than in memory:

    design     project document --> methodcheck rules --> accepted design
               accepted design  --> scenario derivation --> scenarios --> test plans (TP rules)
    building   method-assets: lifecycles, step manifests --> a worktree seated for one step
               code that lands  --> architecture rules, alignment with the design
    delivery   contracts, deployment --> appgen: composition root, workers, handlers, config
               deployment --> rungen: plan and launcher --> docker, Temporal, the server
    running    manager (Temporal workflow) --activity, retried by kind--> ResourceAccess
                 ResourceAccess --> GitStore --clone/commit/push--> git (local or remote)
                 ResourceAccess --> AppClient --REST--> GitHub: repositories, refs, trees,
                                                        pull requests, contents, runs
               scenarios --> scenario host --> system + Temporal dev server --> results.json

### 1.1 Inventory

| Component | State | Operations | Interacts with | What is hard | What makes it correct |
|---|---|---|---|---|---|
| Local repository lock, `GH/localrepolock.go` | a map from canonical path to a 1-slot channel | LockLocalRepo, unlock, PushLocal | writers of a local repository; symlinks | cancellation while waiting, a second unlock, spellings of one path | one holder per repository; no token lost or freed twice; waiters return |
| Git state store, `GH/gitdata.go`, `GH/pushclassify.go` | the branch; a caller's base token | ReadSubtree, CommitSubtree | the lock, git's receive-pack, users with plain git, the rail | push is the compare-and-swap; receive-pack writes the checkout before it swaps the ref; lost replies; crashes | an append-only log; a conflict is told only to a loser; the server never wedges a checkout itself |
| Pull request rail, `GH/github_pullrequest.go` | refs, pull requests, checks, protection at GitHub | CreateBranch ... ConfigureBranchProtection | GitHub, the session branch, Temporal's retries | several calls each, any of them lost, repeated or late | what was reported stays so; a status is about one head |
| Git-data trees converge, `GH/gittrees.go` | objects and one ref at GitHub | GetRepoTree, CommitFilesAtomic | other committers | a chain of calls that only the last makes visible; an unborn branch | whole writes over the current files |
| GitHub App client, `GH/github.go` | tokens | CreateOrgRepo, ListInstallationRepos, do | GitHub | partial creation; pages that shift | repeated creation heals; a listing is complete |
| Agentic repository client, `GH/agentic.go` | none | GetRepoContentsFile, PutRepoContentsFile | the contents API | read, compare, write against a blob | no lost update; a refusal means a race |
| Actions client, `GH/actions.go` | none | DispatchWorkflow, ListRunsByName, CancelRun | GitHub Actions | runs that appear late, a page of 100 | one run for one key |
| Git blob store, `GH/gitblob.go` | content-named branches | StoreOutput, reads | git | one content stored twice on different heads | one content, one address |
| Error model, `framework-go/resourceaccess`, `manager` | none | kinds, MapError, ClassifyStatus | every activity | a retry of what cannot succeed, none of what can | the kind decides |
| Scenario host, `SH/*.go` | verdicts, windows, findings, results.json | RunScenario, Record, Flush, replay gate, Main | dev server, system under test, the process before it | a watchdog racing the scenario, a lagging visibility store, killed processes | a verdict in the index is true of the code |
| Design rules, `MC/rules_*.go` | none | static architecture, views, call chains, diagrams, deployment | the project document | rules judged edge by edge that must hold of whole walks | what is accepted cannot block on itself, is judged on every path, is deployed once |
| Activity-diagram walks, `MC/activitypaths.go` | a work budget | activityPaths | the call-chain rules | exponential forks and decisions under a budget | exact while it holds, a part of the answer when not |
| Scenario derivation, `framework-go/scenario` | none | Derive, classify, client operations | the host, test plans | loops, parallel edges, several entries; names in labels | each path a real walk; no stimulus lost |
| Test plans, `MC/rules_testplan.go` | the recorded plans, the rows of activities | TP rules | contracts, scenarios, execution | plans recorded before the labels they prove were edited | every named operation is driven or waits |
| Activity lifecycles, `method-assets/lifecycles.go` | a ledger of attempts | validation, send-back routes | the server that walks them | re-opened gates under later passes | no pass rests on an earlier one |
| Architecture rules, `framework-go/arch` | none | layers, imports, ports, layout | Go packages | many local checks, one global shape | an accepted tree has the design's shape |
| Alignment, `MC/align.go`, `MC/rules_conformance.go` | none | packages against components and progress | rows of activities | progress that changes while code lands | no false alarm, nothing hidden |
| Method assets, `method-assets/*.go` | files, a manifest | Materialize, MaterializeStep, gen-stepmanifest | a worktree, a person's files | failed removals, interrupted writes, edited manifests | a seat is exactly what it asked for |
| Application generator, `AG/*` | generated files | four commands of appgen | contracts, deployment, hooks.go | each command may refuse and leave older output | the root always builds; nothing generated is unmounted |
| Project model, `framework-go-projectmodel` | none | legality, derivation of a deployment | every generator | two spellings of one name | generators agree |
| Generated scenario runtime, `AG/rungen` | containers, processes, ports | launch, wait, clean up | docker, the person | a start that fails half way; interrupts; stolen ports | nothing outlives it; ready means up |
| Push gate, `GH/pushgate` | none | Find | Go packages | a fixpoint over runner functions | every push is under the lock |
| Others (1.2) | | | | | |

### 1.2 The rest

Manager and engine frameworks, security and telemetry utilities, contract, HTTP and MCP
generators, Keycloak, LLM, PostgreSQL and Temporal resources, scaffold, web framework, ESLint
rules: pure functions of one request or one input, clients of single calls, or browser
code. Section 6 says why each stays out.

The hazards that follow from this are listed, each at its line, in `PROJECT.json`.

## 2. Modules

| Module | Models | Composes |
|---|---|---|
| `RepoLock` | what the lock promises | |
| `LocalRepoLock` | localrepolock.go, one action per point where goroutines interleave | refines `RepoLock` |
| `RefLog` | what GitStore promises: a log, each mutation appended once | |
| `LocalPush` | CommitSubtree and ReadSubtree under the lock, with receive-pack taken apart | refines `RefLog` |
| `AtomicFiles` | what CommitFilesAtomic promises of a branch's files | |
| `CommitFilesAtomic` | GetRepoTree's comparison and the chain of CommitFilesAtomic, retried | refines `AtomicFiles` |
| `ErrorKinds` | kinds, MapError, ClassifyStatus | |
| `PullRequestRail` | the rail's operations as retried activities, and GitHub as it serves them | `ErrorKinds` |
| `OrgCatalog`, `WorkflowSeat`, `RunDispatch`, `OutputStore`, `SessionBranch` | creation and listing, the contents file, dispatch, the blob store, GitStore on a branch that is born, merged and deleted | `ErrorKinds` |
| `HostedGitHub` | one installation with all five and a common budget of faults | the five above |
| `ScenarioHost` | the host, its watchdog, flushes, replay gate and processes over one dev server | |
| `DiagramWalks` | activitypaths.go, paths.go and derive.go as operators | |
| `DiagramPaths` | every small diagram, and reference definitions of its walks | `DiagramWalks` |
| `SystemRules`, `DesignRules` | the Error rules: architecture and views; call chains and deployment | `DiagramWalks` |
| `TestPlans` | scenarios with what they stimulate, plans, the TP rules | `DiagramWalks`, `ActivityRows` |
| `DesignReview` | a design under edits, on five desks | the rule modules, `DiagramPaths`, `TestPlans` |
| `Lifecycles` | the validator of task graphs; a walk along an accepted one | |
| `ActivityRows` | how the rules read an activity's ledger | |
| `CodeAlignment` | architecture rules; alignment with the design | `SystemRules` |
| `ConstructionSite` | rows and packages while a design is built | `CodeAlignment`, `ActivityRows` |
| `StepManifest`, `Seating` | the table of steps and its generator; materialize.go | |
| `Deployments` | project model, deployment, config and launcher plan | |
| `CompositionRoot` | composegen, client layer and workers | `Deployments` |
| `DevStack` | the generated launcher, docker, interrupts | |
| `Delivery` | the four commands while an application is built, then its local run | `CompositionRoot`, `DevStack` |
| `MC*` | instances; `MCConstruction` also composes walk, seat and site | |
| `*_proofs` | theorems | |

How state and actions correspond to the code:

**LocalRepoLock.** `slots` is the map, `full[s]` whether channel `s` holds its token, `at`
where a caller is in LockLocalRepo. `Call` canonicalises the path (a path resolves only
while its repository exists), `CheckCtx` is the early return, `Lookup` the map under its
mutex, `Send` and `GiveUpWaiting` the arms of the select, `Unlock` and `UnlockAgain` the calls of
the once-guarded closure.

**LocalPush.** An actor's name is its mutation; the managed subtree is the sequence of
mutations applied. `Read` is ReadSubtree with the caller's probe for its own mutation;
`Enter` takes the lock; `CloneAndCommit` is commitSubtree up to its push; `Advertise`,
`ReceiveCheck`, `ReadTree`, `RefCAS` are the push and receive-pack, external code modelled
from the header of localrepolock.go; `Reply` and `Return` the classified result and the
deferred unlock. `Abort`, `Crash` (receive-packs may survive it), `UserEdits` and
`UserCleans` disturb it. Outsiders push without the lock.

**PullRequestRail, CommitFilesAtomic.** `Step` is what an attempt of an operation does next,
each REST call a step; `NoAnswer` is a call that fails before it is served, after it, or is
left in `transit` for `ServeLate`; a failed attempt starts over if its kind is retried.

**HostedGitHub.** A crew of callers is at work; each component keeps its own variables and
its own `pc` per caller, and its steps are one REST or git call each. GitHub's part
(`CreateRun`, `ServeLate...`, deletions, foreign runs, the rail on the session branch) is
nobody's duty except that an accepted dispatch becomes a run.

**ScenarioHost.** A run's window is its number; `shown` is what the visibility store shows
of each execution and trails `state`. `RunScenario`, `BodyEnds`, `TerminatePass`, `Verdict`
are RunScenario's body and endings, `WatchdogFires/Records/Exits` the timer's function,
`FlushLists`, `Replay`, `FlushWrites` a flush, `Settle` and `ListingFails` its error paths,
`Boot` and `Exit` the process.

**The rule modules.** A rule is the set of what it reports; a design is accepted when all
are empty. A walker's budget is threaded through (`w`), and Go's early returns from a loop
are a `stop` flag of a fold. `DesignReview` edits one accepted design in place: the actions
are a person's edits, the properties say what any accepted result promises.

**TestPlans.** A name is the words Normalize keeps and the form they are spelled in, a
label the alternatives of its op clause. `Planned` is the plan recorded for today's
scenarios; the desk then edits labels and operations under it, skips or unbinds scenarios,
lets activities integrate and records anew.

**Lifecycles, ConstructionSite, Seating.** The walker, the workers and the person are not
in this repository: their actions are what the ledger's fields, the layout rules and the
manifest of this repository say of them. A dispatch that sends back is `held` until that gate
passes again, whether it depends on the gate or not (lifecycles.go:66-72; in the Service
lifecycle `integration` sends back to `stpReview`, which it does not depend on). `before` and
`Paths` are computed once, as the code does. A seat is taken apart at each write (`writeAssets`, `pruneOrphans`, `WriteManifest`).
`loose` is a history variable: files that a seat wrote and no manifest lists.

**Delivery, CompositionRoot.** A root is what the Go compiler looks at: imports,
statements with the names they define and read, constructor calls, Config fields, hooks and the
packages that their types name. Statements of one name must be the arms of one binding's
switch: another one defines the name again. A command replaces its files or refuses; nothing is deleted; hooks.go is seeded once.

**DevStack.** `stack` is the cleanup stack, `proc` and `container` what runs, `taken` the
ports that others took. An interrupt reaches the launcher alone or its children too.

## 3. Runs

| Run | Distinct states | Question it answers |
|---|---|---|
| `lock` | 32,232 | Does the lock refine `RepoLock` for the repositories that exist at the start, whatever is cancelled, spelled differently or unlocked twice, and do waiters return? |
| `push` | 232,750 | Is the branch a log under two writers, an outsider and two faults? Does the server never wedge a checkout itself, is a conflict told only to losers, does every writer get an answer? |
| `rail` | 673,610 | Does what was reported stay so, is a status about one commit, does every begun operation end? |
| `trees` | 183,747 | Do the files change by whole writes over the current ones, is a conflict true, does every converge end? |
| `github` | 70,443 | Is nothing half made in silence, a listing complete, a refusal a race, an answer one answer, a reported commit never lost nor applied twice, and does every call return? |
| `host` | 549,891 | Is a pass in the index a replayed pass, a timeout final, and does no scenario hang the process? |
| `host_washed` | finding | Can a re-run wash a non-deterministic history out of the index? |
| `design` | 41,890 | What does a design promise that passes every rule, after any two edits of an accepted one, and are both enumerations of a diagram's paths what declarative definitions say? |
| `construction` | 497,101 | Does no pass rest on a gate's earlier one, does work under way raise no alarm and an accepted tree keep the design's shape, is a seat exactly what it asked for? |
| `construction_stale` | finding | Can a re-open leave a stale pass behind in a lifecycle the validator accepts? |
| `delivery` | 23,321 | Does the composition root build and serve all that was generated whenever the commands ran, and does the launcher leave nothing behind, say ready only when it is, and end when interrupted? |
| `delivery_engine` | finding | Does the root build when an Engine takes a ResourceAccess? |

Every property of a passing run has a mutant in `PROJECT.json`: a plausible bug, written as
an operator beside the definition it replaces, under which TLC finds the property violated.

### 3.1 What the properties say

- `lock`: `ImplementsRepoLock`, `WaiterReturns`.
- `push`: `ImplementsRefLog`; `NoSelfInflictedWedge` (undisturbed, the checkout is the tip's
  between pushes and nobody is refused); `OnlyLosersConflict`; `EventuallyDecided`
  (committed and told so, or refused after somebody disturbed the checkout).
- `rail`: `Settled` (merged, closed and protected stay so), `RollupOfHead`,
  `EventuallyAnswered`.
- `trees`: `ReturnedIsReachable`, `ConflictMeansAdvanced`, `ImplementsAtomicFiles`,
  `EventuallyConverged`.
- `github`: `BareIsOwed` (a repository without its topics is somebody's reported error or
  unfinished call); `CatalogComplete` (a listing misses no more rows than were deleted);
  `RefusalMeansRace`; `OneAnswer` (one run for a token, one address for a content);
  `CommittedOnce`; `EveryCallReturns`, with the two exceptions of section 4.
- `host`: `PassMeansReplayed`, `TimeoutIsFinal`, `ScenarioEnds`.
- `design`: `WalksExact`, `BudgetSound` and `ScenariosFaithful` are about the two
  enumerations (below). `CallsSettle`: an accepted architecture never blocks on itself, but
  through a Utility or from an Engine up to a Manager. `ChainsSound`: what is judged of a
  call chain holds of every walk of it. `DeployedOnce`: every built component runs, packaged
  once, in every environment the style asks for, behind the gateway where there is one.
  `NothingUnproved`: whatever a label names is an operation that a plan drives or waits for.
- `construction`: `NoStalePass` (no pass rests on a gate's earlier one, no phase is open behind
  its gate, and the holds of tasks that sent back never stop the walk; below),
  `AlignmentHonest`, `SeatIsExact`, `SurfaceCloses` (a step
  finds its command, its charter, every skill that its skills link to, verbs served in its
  mode; and the committed table is the generator's), `ForeignKept` (a person's files stay).
- `delivery`: `LeftOnlyIfCutShort`, `ReadyMeansUp`, `InterruptEnds`, `RootBuilds`,
  `SurfacesServed`, `LauncherSuffices` (the server never runs without an input it needs).

`WalksExact`: `elementary` finds exactly the paths without a repeated node and
`activityPaths`, without forks, exactly the maximal walks that repeat no edge. `BudgetSound`:
a budget cuts the answer to a beginning, or with forks a part, of the full one, and a path
into a fork goes into every branch. `ScenariosFaithful`: at each visit of a decision the
guard played is the one taken, and what a dropped scenario would have played a kept one does.
`NoStalePass` claims fresh passes and closed phases where no work is used before its review
(`JudgedFirst`), and that some task can always go on there or where no two routes back cross
(`Uncrossed`): outside of both a walk can be stuck (section 4). That a ledger reads as
integrated only when every task is done, it claims of every accepted lifecycle.

### 3.2 Bounds, and why they are enough

- `lock`: two callers, two spellings of one repository and a repository created while the
  server runs. The lock tells callers apart only as holder and waiter.
- `push`: two writers, one outsider, two faults. Two faults are needed for a crash that
  leaves a receive-pack behind and a second cut.
- `rail`: four activities with four plans, at most two changes, three pull requests and two
  unanswered calls; the plans put each pair of operations that touch one object side by side.
- `trees`: two converges that share one of three files, one commit by somebody else and two
  calls without an answer, from an unborn branch.
- `github`: seven crews, each of those that meet in one component, one of a seat beside a
  store and one of three components; two faults (four on the session branch, where a birth,
  a merge, a deletion and a rebirth must fit), one deletion, one foreign run, pages of two
  rows over four repositories (100 in the code), so that a page boundary moves.
- `host`: two scenarios, three runs, two processes, one execution, two terminate tries.
- `design`: two edits. A rule fails by one; a pair of parts that hide each other's fault
  needs two. The seed passes every rule (an ASSUME) and holds each trigger, layer and edge
  kind. The drawn diagrams have five nodes and at most five of twelve edges, six assignments
  of kinds, budgets of 1, 6, 12 and 20 node ids and a cap of 2 (1,000,000 and 512 in the
  code). They have loops, parallel edges with different guards, an edge out of an end, an
  event with and without an in-edge, and forks inside loops.
- `construction`: two attempts a task over the Service lifecycle and the small graphs without
  a route back from the first pair, three where a walk might get stuck: the other lifecycle of
  the catalog with a route back, one with two routes that cross, and the rest of the 96 small
  graphs, of which the validator lets some pass; two builds an activity and one
  edit by hand over seven components with two owners of one package, a planned component and
  a generated client; three seats over two releases, of the steps of three tasks, with one
  file or manifest entry by hand, a removal that may fail and cuts at every write. The
  assets are those of method-assets, link by link; the second release renames a skill.
  `construction_stale` needs a third attempt.
- `delivery`: two applications that between them have both kinds of deployment, shared
  package leaves, hand-written constructors, dormant values and a registrar; two interrupts,
  since a second one during the cleanup is another case than the first.

Deadlock is not checked where the system may stop: callers that are done, a process that
exited, a design nobody edits. `lock` checks it. The runs of the delivery, design and
construction groups have no type invariant of their own among their properties: what they
enumerate is typed by their actions.

### 3.3 Fairness, and why the code justifies it

- Activities keep running and retryable errors are retried: Temporal's retry policy has no
  bound on attempts for them unless a preset sets one (`activityoptions.go`, zero by
  default). So the next step of a writer, client, converge or crew member is weakly fair.
- `SF` of entering the lock: blocked senders of a Go channel are served first in, first out.
- The callback under PushLocal returns: it is bounded by its context.
- GitHub creates the runs whose dispatch it accepted (`RunsCreated`).
- The host's own steps and its timer are weakly fair; the scenario's function may hang.
- The launcher goes on: each of its waits has a deadline, docker answers, a kill is final.
- Nothing obliges users, outsiders, the rail on the session branch, GitHub serving a late
  call, the visibility store, a person at appgen or an interrupt, or a fault.

## 4. Findings, and observations without a run

Three are violation runs; `PROJECT.json` quotes the line.

1. `host_washed`: a finding on a run that was re-run before its execution is listed matches
   no window, and the index keeps the pass.
2. `construction_stale`: lifecycles.go:389-392 says a re-open cannot leave a stale pass
   behind. A dependent that uses the source before its review keeps its pass.
3. `delivery_engine`: an Engine with dependencies is called without them by the root.

What follows came up while modelling and is described by the models, but no run states it.

*GitHub and git.* A checkout refusal met during another process's push clears itself, though
pushclassify.go:13-15 calls it permanent. An already merged pull request can be answered with
the terminal Conflict when a first, unanswered PUT is served between the retry's read and its
PUT (github_pullrequest.go:318 says otherwise). The rollup reads one page of check runs (:63).
Storing an output whose content is already on the default branch, with no branch of its own,
fails with a retryable error for ever; a submitter whose run other runs pushed off the page
waits for it, and a sibling run may outlive the submitter that would have cancelled it. A path that does not exist
yet when its lock key is computed keeps another key than the same path later.

*Paths.* `unrollOnce` dedupes loops by their two nodes: of two guarded back edges between
the same nodes only the first becomes a scenario. On loops the two enumerations differ by
design, so their agreement is stated for loop-free paths. The event path that a dropped start
path is the tail of may be a sibling with another guard; `ScenariosFaithful` states what holds.

*Design rules.* SKILL.md:312 asks Component.Layer to equal Component.Kind, which no rule
checks; an Engine may call a Manager of equal rank (rules_system.go:159); an event whose only
in-edge is its own loop is skipped as covered by a full path, though none covers it
(rules_callchain.go:583-584); actions on no path are judged by nothing; a Utility may call
anything in the rules while `arch` refuses its upward import. In a deployment two
environments of one profile, or containers of one key, are the last one's; replicas get each
other's derived edges, so that DEP-EDGE-ISOLATED passes vacuously; edges out of an end node
pass the rules and are never followed. The web-app prototype (deployment_baseline.go:45-60)
leaves its person without a relationship, which DEP-EDGE-ISOLATED reports, while
`TestWebAppBaseline_SatisfiesItsOwnRules` says it satisfies its rules: the seed adds the edge.

*Test plans.* A scenario's id is a number, so after an edit of the diagram a binding can
silently bind another path of the same number. A skip may wait for an activity that no plan
has. A single lower-case name that fails to resolve is taken for prose and loses its stimulus
unreported; only the first piece of an alternative is checked by TP-LABEL-OP; a contract
without a plan is held to no binding rule.

*Lifecycles.* lifecycles.go:389-392 refuses a route back to a gate that waits on its
source, for "the source could then never run", and looks at one route at a time. Two routes can do together what
neither does alone. Dispatch r is reviewed by rr; s and t wait for rr and are reviewed by rs
and rt; w waits for s and w2 for t, reviewed by gw and gw2; z waits for gw, gw2, rs and rt. s
sends back to gw2 and t to gw, and the validator accepts it. When all but z have passed, rs and
rt may still reject, since w and w2 use s and t before their review; s and t then both send
back, s holds for gw2, which waits for t, and t holds for gw, which waits for s. TLC finds this
walk with three attempts a task. `NoStalePass` therefore asks for `JudgedFirst` or `Uncrossed`
in that clause, and the theorem shows that either is enough: in the instance, `Crossed` has the
two routes without the early use, and the small graphs the early use without the ring.

*Construction.* ALIGN-EXTRA-PKG is masked when an orphan has the leaf and layer of a matched
package; conformance maps packages by exact leaf, alignment by the deepest segment; a caller
of a secondary component of a shared package is reported unless it declares the primary too;
a component's own sub-package is refused as sideways; a module path that contains a
component's name swallows strays. A skipped attempt keeps its component skipped for ever,
and with all Managers skipped their generated clients are still owed. `completed()` ignores
TailFailureDetail and `done()` does not. The file-layout check does not skip generated
doubles, and an alias of a foreign contract counts as redeclared. ValidateLifecycles does
not hold upstream routes to the stale-pass conditions. A seat cut short leaves files that no
manifest lists, so seats of other steps accumulate them though stepmanifest.go:274-277 says a
re-seat swaps; a crash inside the manifest's write leaves it corrupt, and deleting it as the
error advises adopts the current set's files only; a person's unlisted file at an asset's
path is overwritten though materialize.go:33 says such files are never touched, and a
person's own empty directories under .claude are removed.

*Delivery.* An interrupt during docker run leaves the container, though runtime.go:12-13 says
nothing outlives the command. A planned client alone in front of a Manager makes the root
import handlers that were not generated. Settings in a binding's scope become Config fields
that configgen never emits; a Manager without dependencies has its surfaces generated and not
mounted; of two MCP clients of one Manager one tool table is mounted. A component whose
contract lists Postgres and ExternalHTTP is bound once for each in a derived deployment
(deployment.go:314-325), so the root defines its local twice (emit_body.go:43-57, 80-81) and
never compiles, whatever is landed and run later. A registrar with arms in some profiles only
is nil in the others; of two declarations of one substrate the last wins; packages named like a
fixed import, and two managers of one leaf, collide; the local profile dials a Temporal
declared for the cloud only. Files that are no longer generated stay, and `-check` does not
report them.

## 5. Proofs

All theorems hold for every value of the constants that satisfies the named assumptions
(`RepoAssumption`, `PushAssumption`, `FilesAssumption`, `BranchAssumption`, `RailAssumption`,
`HostAssumption`, `CrewAssumption`, `SeatingAssumption`, `CandidatesAssumption`,
`SeedAssumption`): values that
must be distinct, bounds that are numbers, functions and sequences with their domains. TLC
evaluates each of them on the instance of the run.

**LocalPush_proofs**, the lock. `LockInvariant` is the inductive invariant `LockIInv`: distinct keys
have distinct channels, a caller that waits or holds has the channel of its key, callers of
a repository that existed at the start have its key, and a channel has at most one holder
and is full exactly while it has one. `MutualExclusion` alone is not inductive, since it says
nothing of channels. From it: `MutualExclusionHolds`, `TokenHasOwnerHolds`, and
`RefinesRepoLock`, a step-by-step refinement with `holders` as the callers in the callback.

**LocalPush_proofs**, the push. `IInv` = `TypeOK` and four parts: the log (a mutation in the tree is
there once; a commit about to be pushed does not repeat one), conflicts (an actor that lost
had a shorter base), the lock (who is between Enter and Return holds it, unless orphaned) and
the wedge (undisturbed, only the holder's tree may be in the checkout). From it:
`TypeCorrect`, `NoWedge`, `ConflictMeansStale`, `ConflictsAreBounded`, `RefinesRefLog`.

**CommitFilesAtomic_proofs.** `IInv` says that the branch never goes back (every head that was
read is still behind the tip), that every ref update made or under way was built on such a
head out of a set of files its converge found to differ, and that answers are true. The
lemmas about prefixes of sequences are stated once. From it: `TypeCorrect`, `ReturnedStays`,
`ConflictIsTrue`, `RefinesAtomicFiles`. The refinement needs the history variable `diffs`: a
late ref update may write a set of files that a later comparison has replaced.

**Delivery_proofs**, the launcher. `IInv` says that every process that lives, and a container
that runs or was asked for, is on the cleanup stack (but for a docker command cut short), that
docker rm removes the newest of what is on it, and that whatever the launcher has got past
waiting for has answered or lost its port. `LeftOnlyIfCutShort` speaks of the last state only,
so it needs the stack along the way. From it: `NothingLeft` and `ReadyIsHonest`, for every
application, every order of its construction, every plan and any number of interrupts. Of the
cleanup stack the lemmas `PushKeeps` and `PopKeeps` say what Append and Front leave on it.

`DInv` (`LaunchesWhatWasBuilt`) ties the launcher to what was built: the plan is the one of
the deployment in place, nothing is launched unless all four commands succeeded, and the
server is not started unless the person has supplied what the plan asks for. From it
`LauncherIsEnough`. Its hypothesis `AuthoredLocally` is real: an authored deployment has to
declare for the local profile what its local bindings use, and `validateBindings`
(framework-go-projectmodel/deployment.go:179-235) looks a key up without asking for which
profile it is declared. A derived deployment always does; that is a lemma.

**Delivery_proofs**, the root. `RootBuilds` speaks of the moment after the four commands, but
the root may be older than the rest: a refused command leaves what an earlier one wrote.
`RootInv` (`RootServed`) says what connects them: the root was composed from *some* set of
components that have landed, for which it was not refused, and each other command either
serves that set or has yet to run. It is inductive because what each command generates only
grows with the set (`ModelGrows`, `ClientsGrow` and their like). The rest is about one root:
every name it reads is defined before, each local is defined once (but by the arms of one
switch), is read, and is named like no package; every import, those that the types of the hooks
name included, is there under a name of its own; every call fits its constructor
(`RootResolves` and what it rests on). `SurfacesInv` (`RefusedForAReason`) adds that the
composition is the only command that refuses, and over what. From these `ServerAlwaysBuilds`
and `SurfacesAlwaysServed`.

Both have hypotheses about the projects, which the commands do not check. `WellMade` asks

- of the contracts (`WellContracted`): no component or package leaf is named like a local or an
  import of the root, no component like a package's leaf, packages of Managers do not share
  a leaf, an Engine takes nothing (finding 3), a Manager is generated and has a package;
- of a derived deployment (`BoundOnce`): nothing lists Postgres and ExternalHTTP both, which would
  bind it twice;
- of an authored one (`WellDeployed`): it is legal, binds a component at most once, declares
  what it uses, a Temporal for the Managers and the server's own settings, and gives an access
  what its constructor takes;
- of the hooks that appgen.json adds (`WellHooked`): their types name packages that the root
  knows by their leaf: of no component and told apart from the rest, or of the component the
  hook is for, when no other package has that leaf;
- that the two generators that go by the clients agree (`SurfacesAgree`:
  `webExposedManagerSet` counts clients of any status, clientgen's only built ones).

`WellSurfaced`: the complete project is not refused, every Manager takes something, and its tools
have one client. These are sufficient, not necessary; what they exclude is in section 4. MCDelivery's
ASSUME says that both applications of the run satisfy all of them.

**PullRequestRail_proofs.** `Settled` and `RollupOfHead` speak of the last answer, and nothing
in them says why an attempt was right to give it. `IInv` adds what GitHub keeps (`RemoteOK`;
`PullsFollow`: an open pull request proposes what its branch holds, a merged one is on the
base) and what each attempt relies on (`ClientOK`: a number it looked up is of a pull request
that exists; checks that it read as passed are those of the head it read). The lemma
`Settling`, an action property, carries an answer over every later step: a pull request that
was merged or closed stays so with its head, the base loses nothing, a passed check stays
passed, whatever is served late. From it: `TypeCorrect`, `ReportsStaySettled`,
`StatusIsOfOneHead`, `NothingIsUndone`, for any plans, any loss and any check runs.

**ScenarioHost_proofs.** `IInv` relates the dev server to the host: what a listing shows closed
is closed, only executions of this process are examined, and each once (`HistoryOK`); the
process goes on only after the watchdog was stopped in time (`WatchOK`); what was found of an
execution is charged to the scenario in whose window it began, and no window is given to one
that was examined before (`FindingsOK`); a flush goes through all that it listed and then
writes (`FlushOK`). From it: `TypeCorrect`, `PassesWereReplayed`, `TimeoutsAreFinal`, for any
number of scenarios, executions and processes.

**HostedGitHub_proofs.** The composition is proved by components: `CatalogInv`, `ListingInv`,
`SeatInv`, `RunsInv`, `StoreInv`, `SessionInv` are each kept by their own steps and left alone by those of
the others; their conjunction is `Invariant`. What they add to the properties: a repository
that is bare, or may come to be by a late call, is of a provisioner that has begun and has
not succeeded; a seat's put names the file it read, as the log had it then; while all runs
fit on a page whoever cancels has the oldest run of the token in sight and answers it; a
content's branch keeps its only commit; what is about to be pushed to the session holds its
mutation once, and what was acknowledged is in a branch or was dropped with one. The lemmas
are on appended and replaced elements and on prefixes. A listing is judged when it returns;
between its pages `ListingInv` counts the rows that were there all along, were not read, and
have a place among those already read: a creation moves rows back and adds none
(`CreationHidesNone`), a deletion adds at most the one row that moves over the edge
(`DeletionHidesOne`, since no two rows have one place), a page adds none and the last one
leaves no other missing (`PageHidesNone`). That every place up to the number of rows is
taken, so that a page is what its numbers say, follows from counting (`OrderIsByPlace`).
From it: `TypeCorrect`, `TopicsAreOwed`, `ListingsAreComplete`, `OnlyRacesAreRefused`,
`AnswersAgree`, `CommitsLandOnce`, for every crew and every page size.

**Construction_proofs**, seats. `SeatIsExact` speaks of seats that have returned; `SeatInv`
says where what seats left in the tree is known in between: in the manifest, in what the seat
under way has read of it, among what it writes, or in `loose` if a seat was cut short. From it
`SeatsAreExact`, and `ForeignIsKept`, which needs no more of a manifest than that its entries
outside `.claude` are refused, whatever someone wrote into it.

**Construction_proofs**, walks. `Upstream` recurses along the task list. There is no induction
over data here; its place takes the lemma `Least` (a set of numbers up to n has a least one, by
the library's well-founded order of finite sets): the least task without a solution, or without
a transitive upstream, has one. From the validator's checks follow the lemmas `ReviewsJudge`,
`SendBackIsSafe`, `GateIsLast`. `WalkInv` then says that what was tried has all before it
tried, and under `JudgedFirst` that whatever is under way or done stands on passes (`Grounded`)
and on the last of each (`Recent`); the lemma `Undisturbed` is what every step has to show:
nothing active stands on what the step changes. `HeldInv` is about the holds: whoever is held
is idle, its gate has not passed again, and under `JudgedFirst` no set of held tasks can each
wait for a gate behind another of them (`NoRing`). The last of any such set to send back waits
for none of the others: its gate stood then, so all that the gate waits for stood, and whoever
is held does not stand. Outside of `JudgedFirst`, `Uncrossed` gives `NoRing` by the lifecycle's
shape. A walk is never stuck because one of the held tasks waits for a gate with nothing held
before it, and the first listed task there that has not passed is begun or workable
(`FirstIsWorkable`), again by `Least`. From it `NoPassIsStale`, for lifecycles of any length.

While proving it one clause turned out to be too strong. "gate passed" means "phase complete",
says lifecycles.go:166-167. It does where no work is used before its review; without that a
rejection suffices to break it: in two phases p and q with tasks w (in p), b (in p,
after w), a review rb of b that is p's gate, and a review rw of w that is q's gate, rb passes
and rw then rejects w, so that p's gate has passed and w has not. `PhasesComplete` therefore
stands under `JudgedFirst`, and so does `NoPassLeftBehind`, of which `construction_stale` shows
the same.

**Construction_proofs**, sites. `AlignmentIsHonest` has two halves. One is `DriftCaught`
(`DriftIsCaught`): what the check accepts is still the design's, for any design, any plan, any
strays and any number of edits, of which the run makes one. The check works on sets of
components and of places (`Placed`); the lemmas go from the empty sets of its rules back to the
tree: `DownOnly` (imports lead down), `CallsDeclared` (an import between two components'
packages is a call of the design, since both have a leaf and layer that conformance knows),
`DoneIsThere` (what is done owes a package, and what a match finds is its own:
`OwnedIsMine`, by the deepest segment, or the contract's) and `NamesakesOnly`. The only invariant
needed is that paths stay paths (`PackagesOK`). The hypothesis is `SiteLegal`: no
component is named like the module, `internal` or its layer's directory, since then every
stray would pass for it; a contract's package is some component's own, by leaf and layer; and
activities build components that owe a package. The instance satisfies it (an ASSUME).

Proving it changed the property. It used to say that what is finished is there in any accepted
tree. With two edits that is false: before there is any code the check reports nothing
(align.go, no packages), and so it reports nothing either once somebody deletes
all of it. The one edit of the run never does. It also compared names as they are spelled where the code compares
normalized ones, and a contract's package by its full path where the code asks for a suffix.

The other half is `NoFalseAlarm` (`NoAlarmIsFalse`): work under way raises no alarm. Its
invariant, `SiteInv`, says while nobody edits the tree what every package is (`Planted`: the code
of a component that an activity builds, or generated beside one), that with the first Manager
there is transport (`Served`), and that what is completed has landed (`Landed`), which needs to
know what rows look like (`RowsOK`). `SiteStepKeeps` shows it inductive. That no check reports
anything then goes rule by rule: `Wellbuilt` (arch.go), `Wellfiled` (filelayout.go),
`Welldeclared` (gensurface.go, contractdup.go), `AllAligned`, `NoneOrphaned` (align.go) and
`NoneUndeclared` (rules_conformance.go), each for any number of components. The heart is
`BuiltIsFound`: a component whose package is on disk finds it, by name or by its contract, and one
whose package is not there is `missing`, which its row excuses, and never in another layer.
The hypotheses are `SiteLegal` and `SiteOrderly`: names differ once normalized
and none is a double's; a package is in its component's layer; a call of a component is declared
of the components whose packages they are; and whatever owes a package is built by an activity or is
generated transport. The instance satisfies both (an ASSUME). An alarm that is not false stays
outside: if every Manager is skipped nobody writes the generated clients, and
the check misses them; `NoFalseAlarm` therefore speaks of plans in which some Manager is not skipped.
What lands is what section 2 assumes of workers and generators, so the theorem says that the rules
agree with one another on it, not that a worker writes it.

**DesignReview_proofs.** `StaysShaped` is what every edit keeps. `CallsAlwaysSettle`: among
callers that all block on one another, but for the exempt calls, no Resource can wait, so no
ResourceAccess, and so on up the layers (`LayersSettle`, for systems of any size).
`AcceptedDeploysOnce` goes through the rules of the deployment, for topologies of any size.
`ConnectedChainIsLed` is the part of `ChainsSound` about `ManagerFirst`, for chains of any
length: the least call that touches something below the Managers before one took part would
connect to an earlier such call.

Only model-checked, and why:

- Every liveness property: fairness and ENABLED are out of the prover's reach.
- `WalksExact`, `BudgetSound`, `ScenariosFaithful`, `NothingUnproved`, and of `ChainsSound`
  that every step is judged: they say what a recursive function or a fold over a diagram
  computes for every input, which takes an induction over that data.
- `SurfaceCloses`, which is about one table of data.

## 6. Not modelled, and why

`PROJECT.json` lists every component with its reason. In short: the contract, HTTP, MCP and
test generators are functions from one input to one text (what the composition root refers
to of their output is in `CompositionRoot`); security decides one request at a time;
clients of single requests (Keycloak, LLM, PostgreSQL, Temporal headers) keep no state;
telemetry is no property of the system; the push gate reads syntax trees; scaffolding
renders templates once; the web framework is rendering around browser calls. Within modelled
components: contents of files, blobs and messages are names; hashes are structure; wall
clocks are order; warnings of rules, which never fail a verdict, and rules that compare texts
(glossary, volatilities, requirements, operational concepts) are left out; so are
provenance, titles and the canonical text of scenarios, and the dialect of browser steps. Three
answers are simpler than the code's: docker rm always removes what it is asked to (runtime.go:231
ignores its error); arch.go:342 and filelayout.go:285 match parts of a path where the model
compares it whole, and the opt-in encapsulation gate (check.go:186) is always on; a creation
of the seat's file that loses a race is answered like an update that does.

## 7. Plan

Done, most important first: the lock, the push, the trees converge, the rail, the
host, one installation at GitHub, delivery and construction, each with proofs; the design
rules, paths and test plans.

Next theorems: that a design which passes the static rules is `SiteOrderly` but for its
names; the step of `activityPaths` that `WalksExact` would need an induction for.

Next models: the push gate's fixpoint against a least fixed point; `OutputStore`'s reads
against its writers; the doubles' boot order and workers of the scenario host; warnings where
a waiver changes a verdict.
