---------------------------- MODULE MCConstruction ----------------------------
(***************************************************************************)
(* A plan under construction, looked at from three desks: one activity     *)
(* walks its lifecycle (Lifecycles), its steps are seated in a worktree *)
(* (Seating), or the activities build a design whose code is checked       *)
(* against it (ConstructionSite).  Nothing passes between them: the desk   *)
(* only says which of them a behaviour is about.                           *)
(*                                                                         *)
(* The instance for TLC: the two lifecycles of method-assets with a chain  *)
(* of gates, and a family of small ones, of which the validator refuses    *)
(* most; a design of one Manager and what it calls, with its generated     *)
(* clients, a second ResourceAccess in the first one's package, a planned  *)
(* log; and a worktree seated for the steps of three tasks, from the       *)
(* assets as the files of method-assets have them and from a later release.*)
(***************************************************************************)
EXTENDS Lifecycles, ConstructionSite, Seating

VARIABLE desk   \* "walk", "site" or "seat"
vars == <<desk, walkVars, siteVars, seatVars>>

NoWalk == l = [type |-> "", phases |-> <<>>, tasks |-> <<>>] /\ before = <<>> /\ ledger = <<>> /\ held = {}

Init ==
    /\ desk \in {"walk", "site", "seat"}
    /\ IF desk = "walk" THEN InitWalk ELSE NoWalk
    /\ InitSite
    /\ InitSeating

Next ==
    \/ desk = "walk" /\ NextWalk /\ UNCHANGED <<desk, siteVars, seatVars>>
    \/ desk = "site" /\ NextSite /\ UNCHANGED <<desk, walkVars, seatVars>>
    \/ desk = "seat" /\ NextSeating /\ UNCHANGED <<desk, walkVars, siteVars>>

Spec == Init /\ [][Next]_vars

-----------------------------------------------------------------------------
(* The instance *)

Dispatch(id, phase, deps, back) ==
    [id |-> id, kind |-> "dispatch", phase |-> phase, deps |-> deps, reviews |-> "", back |-> back, up |-> <<>>, filled |-> TRUE]
Review(id, phase, deps, of) ==
    [id |-> id, kind |-> "review", phase |-> phase, deps |-> deps, reviews |-> of, back |-> "", up |-> <<>>, filled |-> TRUE]
Phase(id, weight, gate) == [id |-> id, weight |-> weight, gate |-> gate]

Service == [type |-> "service",
    phases |-> <<Phase("requirements", 15, "srsReview"), Phase("design", 20, "designReview"), Phase("testPlan", 10, "stpReview"),
                 Phase("construction", 40, "codeReview"), Phase("integration", 15, "testing")>>,
    tasks |-> <<
        Dispatch("srs", "requirements", {}, ""), Review("srsReview", "requirements", {"srs"}, "srs"),
        Dispatch("detailedDesign", "design", {"srsReview"}, ""),
        Review("designReview", "design", {"detailedDesign"}, "detailedDesign"),
        Dispatch("construction", "construction", {"designReview"}, ""),
        Review("codeReview", "construction", {"construction"}, "construction"),
        Dispatch("integration", "integration", {"codeReview"}, "stpReview"),
        Dispatch("stp", "testPlan", {"designReview"}, ""), Review("stpReview", "testPlan", {"stp"}, "stp"),
        Review("testing", "integration", {"integration", "stpReview"}, "integration")>>]

MachineClientType == [type |-> "machineClient",
    phases |-> <<Phase("testPlan", 30, "stpReview"), Phase("integration", 70, "testing")>>,
    tasks |-> <<
        Dispatch("stp", "testPlan", {}, ""), Review("stpReview", "testPlan", {"stp"}, "stp"),
        Dispatch("integration", "integration", {"stpReview"}, "stpReview"),
        Review("testing", "integration", {"integration"}, "integration")>>]

\* A pair, a second pair that may wait for it, a third that may use either.
Small(db, drb, dc, backA, backB, backC) == [type |-> IF backA = "" THEN "small" ELSE "routed",
    phases |-> <<Phase("o", 20, "ra"), Phase("p", 20, "rb"), Phase("q", 60, "testing")>>,
    tasks |-> <<
        Dispatch("a", "o", {}, backA), Review("ra", "o", {"a"}, "a"),
        Dispatch("b", "p", db, backB), Review("rb", "p", drb, "b"),
        Dispatch("c", "q", dc, backC), Review("testing", "q", {"c", "rb"}, "c")>>]

\* Two dispatches, each of which may send back to the gate behind the other.
Crossed == [type |-> "crossed",
    phases |-> <<Phase("p", 50, "gw"), Phase("q", 50, "gx")>>,
    tasks |-> <<
        Dispatch("r", "p", {}, ""),
        Dispatch("s", "p", {"r"}, "gx"), Dispatch("w", "p", {"s"}, ""), Review("gw", "p", {"w"}, "w"),
        Dispatch("t", "q", {"r"}, "gw"), Dispatch("x", "q", {"t"}, ""), Review("gx", "q", {"x"}, "x")>>]

MCCandidates == {Service, MachineClientType, Crossed} \union
    {Small(db, drb, dc, ba, bb, bc) :
        db \in {{"a"}, {"ra"}}, drb \in {{"b"}, {"ra", "b"}},
        dc \in {{"ra"}, {"b"}, {"rb"}, {"ra", "rb"}},
        ba \in {"", "rb"}, bb \in {"", "ra"}, bc \in {"", "ra", "rb"}}

\* A source that is used before its review sends back what the review behind it needs.
MCEarly == {[Small({"ra"}, {"b"}, {"b"}, "", "ra", "") EXCEPT !.type = "early"]}

\* Two attempts show a stale pass; to be stuck may take a third.
MCMaxAttempts == [x \in {"service", "small"} |-> 2] @@ [x \in {"machineClient", "crossed", "routed", "early"} |-> 3]

-----------------------------------------------------------------------------
Part(name, k, ui, protocol) ==
    [name |-> name, stereotype |-> "", kind |-> k, layer |-> k, status |-> "", ui |-> ui, protocol |-> protocol,
     encap |-> TRUE, verbs |-> 4, contract |-> "", generated |-> FALSE]
Uses(a, b, mode) == [from |-> a, to |-> b, mode |-> mode, label |-> "", ambient |-> FALSE]

MCDesign == [
    comps |-> [
        web |-> Part("web", "client", "browser", ""),
        mcp |-> [Part("mcp", "client", "machine", "mcp") EXCEPT !.generated = TRUE],
        m1  |-> Part("m1", "manager", "", ""),
        m2  |-> Part("m2", "manager", "", ""),
        e1  |-> Part("e1", "engine", "", ""),
        ra  |-> [Part("ra", "resourceAccess", "", "") EXCEPT !.contract = "store"],
        ra2 |-> [Part("ra2", "resourceAccess", "", "") EXCEPT !.contract = "store"],
        db  |-> Part("db", "resource", "", ""),
        log |-> [Part("log", "utility", "", "") EXCEPT !.status = "planned"]],
    rels |-> {Uses("web", "m1", "sync"), Uses("mcp", "m2", "sync"), Uses("m1", "m2", "queued"), Uses("m1", "e1", "sync"),
              Uses("m2", "ra2", "sync"), Uses("m2", "ra", "sync"), Uses("e1", "ra", "sync"), Uses("ra", "db", "sync"), Uses("ra2", "db", "sync"),
              Uses("m1", "log", "sync")},
    views |-> <<>>]

MCModule == <<"example.org", "app">>
MCGoPackages == [store |-> <<"internal", "resourceaccess", "ra">>]
MCActivities == {[name |-> "build-" \o id, comp |-> id] : id \in {"m1", "m2", "e1", "ra", "ra2"}}
MCTroubled == {"build-e1"}
MCMenu == {<<"go.temporal.io">>}
MCHosts == {"example.org", "go.temporal.io"}
MCSurface == <<>>
MCNormalize == ("resourceaccess" :> "ra-layer")

Bare(path, imports) ==
    [path |-> Prefix \o path, imports |-> imports, files |-> {Generated(<<"x">>, {})}, tests |-> {}]
MCStrays == {
    Bare(<<"engine", "helper">>, {}), Bare(<<"common">>, {}),
    Bare(<<"client", "web", "hand">>, {}), Bare(<<"utility", "log">>, {}),
    Bare(<<"manager", "m1", "sub">>, {Prefix \o <<"engine", "e1">>}),
    Bare(<<"resourceaccess", "other", "ra">>, {})}

Tasked(command, worker, reviews, artifact) ==
    [command |-> command, worker |-> worker, reviews |-> reviews, artifact |-> artifact]
MCTasks ==
    ("missionDraft" :> Tasked(<<"mission", "draft">>, "system-architect", "", "Mission"))
    @@ ("stp" :> Tasked(<<"service", "test-plan">>, "test-engineer", "", "STP"))
    @@ ("stpReview" :> Tasked(<<"", "">>, "", "stp", ""))
MCOwn == {<<"skills", "grillme">>, <<"commands", <<"mission", "draft">>>>}
MCEntries == {<<"..", "outside">>, <<"commands", <<"dead", "">>>>}
MCStubborn == {<<"skills", "testing">>}

\* The design passes the rules of the static architecture, and the two lifecycles
\* pass as a catalog.
ASSUME StaticAccepted(MCDesign) /\ SiteLegal /\ SiteOrderly /\ ValidateLifecycles(<<Service, MachineClientType>>)

-----------------------------------------------------------------------------
(* The assets of method-assets as its files say it (the "Agent + skills"   *)
(* line of each command, the frontmatter of each charter, the links of     *)
(* each skill), and a later release of them.                               *)

MCLinks ==
       ("method" :> {"activity-list", "architecture", "business-alignment", "compressed-solution", "core-use-cases", "decompressed-solution", "doctrine", "handoff", "layers", "network-draft", "normal-solution", "operational-concepts", "planning-assumptions", "project-design-standard-check", "project-tracking", "requirements-analysis", "review-routing", "risk-modeling", "scope-change", "sdp-review", "service-contract", "subcritical-solution", "system-design-standard-check", "testing", "volatility-identification"})
    @@ ("activity-list" :> {"compressed-solution", "handoff", "network-draft", "planning-assumptions", "review-routing", "testing"})
    @@ ("architecture" :> {"doctrine", "layers"})
    @@ ("business-alignment" :> {"requirements-analysis"})
    @@ ("code-health" :> {})
    @@ ("compressed-solution" :> {"activity-list", "risk-modeling", "subcritical-solution"})
    @@ ("core-use-cases" :> {"architecture", "volatility-identification"})
    @@ ("decompressed-solution" :> {"doctrine", "layers", "risk-modeling", "sdp-review"})
    @@ ("doctrine" :> {})
    @@ ("handoff" :> {"compressed-solution", "doctrine", "project-tracking", "review-routing", "scope-change", "service-contract"})
    @@ ("layers" :> {"architecture", "operational-concepts"})
    @@ ("network-draft" :> {"activity-list", "normal-solution", "risk-modeling"})
    @@ ("normal-solution" :> {"activity-list", "decompressed-solution", "network-draft", "risk-modeling", "subcritical-solution"})
    @@ ("operational-concepts" :> {"architecture", "system-design-standard-check"})
    @@ ("planning-assumptions" :> {"activity-list", "risk-modeling", "sdp-review"})
    @@ ("project-design-standard-check" :> {"doctrine", "system-design-standard-check"})
    @@ ("project-state" :> {"business-alignment", "project-design-standard-check"})
    @@ ("project-tracking" :> {"doctrine", "scope-change"})
    @@ ("requirements-analysis" :> {"business-alignment", "volatility-identification"})
    @@ ("review-routing" :> {"handoff", "scope-change", "service-contract"})
    @@ ("risk-modeling" :> {"decompressed-solution", "doctrine", "sdp-review"})
    @@ ("scope-change" :> {"activity-list", "architecture", "compressed-solution", "decompressed-solution", "doctrine", "handoff", "network-draft", "normal-solution", "planning-assumptions", "project-design-standard-check", "project-tracking", "risk-modeling", "sdp-review", "service-contract", "subcritical-solution"})
    @@ ("sdp-review" :> {"project-design-standard-check", "risk-modeling"})
    @@ ("service-contract" :> {"architecture", "doctrine", "handoff", "layers", "scope-change"})
    @@ ("subcritical-solution" :> {"compressed-solution", "network-draft", "normal-solution"})
    @@ ("system-design-standard-check" :> {"doctrine", "layers"})
    @@ ("testing" :> {"activity-list", "handoff", "review-routing"})
    @@ ("volatility-identification" :> {"architecture", "core-use-cases", "requirements-analysis"})
MCCommands ==
       (<<"activity-list", "draft">> :> [line |-> TRUE, agent |-> "system-architect", seeds |-> {"activity-list", "network-draft", "project-state"}])
    @@ (<<"add-use-case", "">> :> [line |-> FALSE, agent |-> "", seeds |-> {}])
    @@ (<<"compressed-solution", "draft">> :> [line |-> TRUE, agent |-> "system-architect", seeds |-> {"compressed-solution", "network-draft", "project-state"}])
    @@ (<<"core-use-cases", "critique">> :> [line |-> TRUE, agent |-> "product-manager", seeds |-> {"core-use-cases", "project-state"}])
    @@ (<<"core-use-cases", "draft">> :> [line |-> TRUE, agent |-> "system-architect", seeds |-> {"core-use-cases", "project-state"}])
    @@ (<<"decompressed-solution", "draft">> :> [line |-> TRUE, agent |-> "system-architect", seeds |-> {"decompressed-solution", "network-draft", "project-state"}])
    @@ (<<"deployment", "construction">> :> [line |-> TRUE, agent |-> "junior-developer", seeds |-> {"layers", "project-state"}])
    @@ (<<"deployment", "detailed-design">> :> [line |-> TRUE, agent |-> "project-manager", seeds |-> {"planning-assumptions", "project-state"}])
    @@ (<<"deployment", "integration">> :> [line |-> TRUE, agent |-> "system-architect", seeds |-> {"project-state"}])
    @@ (<<"design-answer", "pm">> :> [line |-> TRUE, agent |-> "product-manager", seeds |-> {"method"}])
    @@ (<<"design-answer", "">> :> [line |-> TRUE, agent |-> "system-architect", seeds |-> {"method"}])
    @@ (<<"documentation", "construction">> :> [line |-> TRUE, agent |-> "system-architect", seeds |-> {"project-state"}])
    @@ (<<"documentation", "detailed-design">> :> [line |-> TRUE, agent |-> "system-architect", seeds |-> {"architecture", "project-state"}])
    @@ (<<"documentation", "integration">> :> [line |-> TRUE, agent |-> "system-architect", seeds |-> {"project-state"}])
    @@ (<<"frontend", "construction">> :> [line |-> TRUE, agent |-> "junior-developer", seeds |-> {"layers", "project-state"}])
    @@ (<<"frontend", "detailed-design">> :> [line |-> TRUE, agent |-> "ui-designer", seeds |-> {"project-state", "review-routing"}])
    @@ (<<"frontend", "integration">> :> [line |-> TRUE, agent |-> "system-architect", seeds |-> {"layers", "project-state", "testing"}])
    @@ (<<"frontend", "requirements">> :> [line |-> TRUE, agent |-> "ui-designer", seeds |-> {"core-use-cases", "project-state"}])
    @@ (<<"frontend", "test-plan">> :> [line |-> TRUE, agent |-> "test-engineer", seeds |-> {"project-state", "testing"}])
    @@ (<<"glossary", "critique">> :> [line |-> TRUE, agent |-> "product-manager", seeds |-> {"project-state", "requirements-analysis"}])
    @@ (<<"glossary", "draft">> :> [line |-> TRUE, agent |-> "system-architect", seeds |-> {"project-state", "requirements-analysis"}])
    @@ (<<"implement-project", "">> :> [line |-> FALSE, agent |-> "", seeds |-> {}])
    @@ (<<"mission", "critique">> :> [line |-> TRUE, agent |-> "product-manager", seeds |-> {"business-alignment", "project-state"}])
    @@ (<<"mission", "draft">> :> [line |-> TRUE, agent |-> "system-architect", seeds |-> {"business-alignment", "project-state"}])
    @@ (<<"network", "draft">> :> [line |-> TRUE, agent |-> "system-architect", seeds |-> {"network-draft", "project-state"}])
    @@ (<<"normal-solution", "draft">> :> [line |-> TRUE, agent |-> "system-architect", seeds |-> {"network-draft", "normal-solution", "project-state"}])
    @@ (<<"operational-concepts", "draft">> :> [line |-> TRUE, agent |-> "system-architect", seeds |-> {"operational-concepts", "project-state"}])
    @@ (<<"planning-assumptions", "draft">> :> [line |-> TRUE, agent |-> "system-architect", seeds |-> {"network-draft", "planning-assumptions", "project-state"}])
    @@ (<<"project-design", "">> :> [line |-> FALSE, agent |-> "", seeds |-> {}])
    @@ (<<"risk-model", "draft">> :> [line |-> TRUE, agent |-> "system-architect", seeds |-> {"network-draft", "project-state", "risk-modeling"}])
    @@ (<<"scrubbed-requirements", "critique">> :> [line |-> TRUE, agent |-> "product-manager", seeds |-> {"project-state", "requirements-analysis"}])
    @@ (<<"scrubbed-requirements", "draft">> :> [line |-> TRUE, agent |-> "system-architect", seeds |-> {"project-state", "requirements-analysis"}])
    @@ (<<"sdp-review", "">> :> [line |-> FALSE, agent |-> "", seeds |-> {}])
    @@ (<<"service", "construction">> :> [line |-> TRUE, agent |-> "junior-developer", seeds |-> {"layers", "project-state"}])
    @@ (<<"service", "detailed-design">> :> [line |-> TRUE, agent |-> "senior-developer", seeds |-> {"project-state", "service-contract"}])
    @@ (<<"service", "integration">> :> [line |-> TRUE, agent |-> "system-architect", seeds |-> {"layers", "project-state", "testing"}])
    @@ (<<"service", "requirements">> :> [line |-> TRUE, agent |-> "senior-developer", seeds |-> {"project-state", "service-contract"}])
    @@ (<<"service", "test-plan">> :> [line |-> TRUE, agent |-> "test-engineer", seeds |-> {"project-state", "testing"}])
    @@ (<<"standard-check", "draft">> :> [line |-> TRUE, agent |-> "system-architect", seeds |-> {"project-state", "system-design-standard-check"}])
    @@ (<<"subcritical-solution", "draft">> :> [line |-> TRUE, agent |-> "system-architect", seeds |-> {"network-draft", "project-state", "subcritical-solution"}])
    @@ (<<"system", "critique">> :> [line |-> TRUE, agent |-> "system-architect", seeds |-> {"architecture", "layers", "project-state"}])
    @@ (<<"system-design", "">> :> [line |-> FALSE, agent |-> "", seeds |-> {}])
    @@ (<<"system", "draft">> :> [line |-> TRUE, agent |-> "system-architect", seeds |-> {"architecture", "project-state"}])
    @@ (<<"testing-harness", "construction">> :> [line |-> TRUE, agent |-> "test-engineer", seeds |-> {"project-state", "testing"}])
    @@ (<<"testing-harness", "detailed-design">> :> [line |-> TRUE, agent |-> "test-engineer", seeds |-> {"project-state", "testing"}])
    @@ (<<"testing-harness", "integration">> :> [line |-> TRUE, agent |-> "qa-engineer", seeds |-> {"project-state", "testing"}])
    @@ (<<"testing-perf", "construction">> :> [line |-> TRUE, agent |-> "test-engineer", seeds |-> {"project-state", "testing"}])
    @@ (<<"testing-perf", "detailed-design">> :> [line |-> TRUE, agent |-> "test-engineer", seeds |-> {"project-state", "testing"}])
    @@ (<<"testing-perf", "integration">> :> [line |-> TRUE, agent |-> "qa-engineer", seeds |-> {"project-state", "testing"}])
    @@ (<<"testing-qa", "construction">> :> [line |-> TRUE, agent |-> "qa-engineer", seeds |-> {"project-state", "testing"}])
    @@ (<<"testing-qa", "detailed-design">> :> [line |-> TRUE, agent |-> "qa-engineer", seeds |-> {"project-state", "testing"}])
    @@ (<<"volatilities", "critique">> :> [line |-> TRUE, agent |-> "system-architect", seeds |-> {"project-state", "volatility-identification"}])
    @@ (<<"volatilities", "draft">> :> [line |-> TRUE, agent |-> "system-architect", seeds |-> {"project-state", "volatility-identification"}])
MCCharters ==
       ("junior-developer" :> [model |-> "sonnet", builtin |-> {"Read", "Grep", "Glob", "Bash", "Edit", "Write"},
          verbs |-> {"getCommittedSlot", "getDraftSlot", "getReviewThread", "getCritique", "listResearchSources", "getResearchSource", "projectStateReadProject", "recordPhaseArtifact", "publishDraft", "respondToReviewComment"}])
    @@ ("product-manager" :> [model |-> "opus", builtin |-> {"Read", "Grep", "Glob", "Bash"},
          verbs |-> {"getCommittedSlot", "getDraftSlot", "getReviewThread", "getCritique", "listResearchSources", "getResearchSource", "projectStateReadProject", "setCritiqueVerdict", "respondToReviewComment", "publishDraft"}])
    @@ ("project-manager" :> [model |-> "fable", builtin |-> {"Read", "Grep", "Glob", "Bash", "Edit", "Write"},
          verbs |-> {"getCommittedSlot", "getDraftSlot", "getReviewThread", "getCritique", "listResearchSources", "getResearchSource", "projectStateReadProject", "putDraftModel", "recordPhaseArtifact", "publishDraft", "estimationComputeEarnedValue", "estimationComputeNetwork", "estimationEstimateForOption", "interventionDecideOnVariance"}])
    @@ ("qa-engineer" :> [model |-> "sonnet", builtin |-> {"Read", "Grep", "Glob", "Bash", "Edit", "Write"},
          verbs |-> {"getCommittedSlot", "getDraftSlot", "getReviewThread", "getCritique", "listResearchSources", "getResearchSource", "projectStateReadProject", "recordTestingState", "recordPhaseArtifact", "publishDraft", "respondToReviewComment"}])
    @@ ("senior-developer" :> [model |-> "opus", builtin |-> {"Read", "Grep", "Glob", "Bash", "Edit", "Write"},
          verbs |-> {"getCommittedSlot", "getDraftSlot", "getReviewThread", "getCritique", "listResearchSources", "getResearchSource", "projectStateReadProject", "recordServiceContract", "recordPhaseArtifact", "publishDraft", "respondToReviewComment"}])
    @@ ("system-architect" :> [model |-> "opus", builtin |-> {"Read", "Grep", "Glob", "Bash", "Edit", "Write"},
          verbs |-> {"getCommittedSlot", "getDraftSlot", "getReviewThread", "getCritique", "listResearchSources", "getResearchSource", "projectStateReadProject", "projectStateListProjects", "designSessionReadProjectOnBranch", "putDraftModel", "setCritiqueVerdict", "recordServiceContract", "recordPhaseArtifact", "publishDraft", "respondToReviewComment", "estimationComputeNetwork", "estimationEstimateForOption", "estimationDerivePlan", "reviewProposeReviews"}])
    @@ ("test-engineer" :> [model |-> "sonnet", builtin |-> {"Read", "Grep", "Glob", "Bash", "Edit", "Write"},
          verbs |-> {"getCommittedSlot", "getDraftSlot", "getReviewThread", "getCritique", "listResearchSources", "getResearchSource", "projectStateReadProject", "listComponentScenarios", "recordTestingState", "recordPhaseArtifact", "publishDraft", "respondToReviewComment"}])
    @@ ("ui-designer" :> [model |-> "opus", builtin |-> {"Read", "Grep", "Glob", "Bash", "Edit", "Write"},
          verbs |-> {"getCommittedSlot", "getDraftSlot", "getReviewThread", "getCritique", "listResearchSources", "getResearchSource", "projectStateReadProject", "recordPhaseArtifact", "publishDraft", "respondToReviewComment"}])
    @@ ("ux-reviewer" :> [model |-> "sonnet", builtin |-> {"Read", "Grep", "Glob", "Bash"},
          verbs |-> {"getCommittedSlot", "getDraftSlot", "getReviewThread", "getCritique", "listResearchSources", "getResearchSource", "projectStateReadProject", "respondToReviewComment"}])
MCFirst == [commands |-> MCCommands, charters |-> MCCharters, links |-> MCLinks,
            shared |-> {"webapp-deployment-prototype", "platform-runtime-doctrine"}]
\* A later release: a skill is renamed, one is split off and linked to, a command is gone.
MCSecond == [MCFirst EXCEPT
    !.commands = [s \in DOMAIN @ \ {<<"glossary", "critique">>} |->
                     [@[s] EXCEPT !.seeds = {IF x = "layers" THEN "the-layers" ELSE x : x \in @}]],
    !.links = [s \in (DOMAIN @ \ {"layers"}) \union {"the-layers", "naming"} |->
                  CASE s = "the-layers" -> @["layers"] \union {"naming"}
                    [] s = "naming" -> {"testing"}
                    [] OTHER -> {IF x = "layers" THEN "the-layers" ELSE x : x \in @[s]}]]
MCReleases == <<MCFirst, MCSecond>>
=============================================================================
