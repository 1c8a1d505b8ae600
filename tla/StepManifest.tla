---------------------------- MODULE StepManifest ----------------------------
(***************************************************************************)
(* method-assets/stepmanifest.gen.go and stepmanifest.go: what a           *)
(* dispatched step may use.  A command's slug is <<stem, suffix>>, as      *)
(* <<"service", "test-plan">>; a step's manifest is a record [agent, mode, *)
(* model, skills, builtin, verbs], its tools apart as those of the CLI and *)
(* those of the state server (verbs, without the server's prefix); a       *)
(* skill's name is without "the-method-".                                  *)
(***************************************************************************)
EXTENDS TLC, Naturals, FiniteSets

\* The skills and tools that the rows of the table share.
DesignSkills == {"architecture", "business-alignment", "core-use-cases", "doctrine", "layers", "operational-concepts",
                 "project-design-standard-check", "project-state", "requirements-analysis",
                 "system-design-standard-check", "volatility-identification"}
PlanSkills == DesignSkills \union
    {"activity-list", "compressed-solution", "decompressed-solution", "handoff", "network-draft", "normal-solution",
     "planning-assumptions", "project-tracking", "review-routing", "risk-modeling", "scope-change", "sdp-review",
     "service-contract", "subcritical-solution", "testing"}
AnswerSkills == (PlanSkills \ {"project-state"}) \union {"method"}

Reading == {"Bash", "Glob", "Grep", "Read"}
Editing == Reading \union {"Edit", "Write"}
Reads == {"getCommittedSlot", "getResearchSource", "listResearchSources", "projectStateReadProject", "publishDraft"}
SlotReads == Reads \union {"getCritique", "getDraftSlot", "getReviewThread"}
BuildVerbs == Reads \union {"getOperatorNotes", "recordPhaseArtifact", "run_checks"}

Manifest(agent, model, mode, skills, builtin, verbs) ==
    [agent |-> agent, mode |-> mode, model |-> model, skills |-> skills, builtin |-> builtin, verbs |-> verbs]

DesignDraft == Manifest("system-architect", "opus", "draft", DesignSkills, Editing,
    SlotReads \union {"projectStateListProjects", "putDraftModel", "respondToReviewComment", "run_checks"})
PlanDraft == [DesignDraft EXCEPT !.skills = PlanSkills,
    !.verbs = @ \union {"designSessionReadProjectOnBranch", "estimationComputeNetwork", "estimationDerivePlan",
                        "estimationEstimateForOption", "reviewProposeReviews"}]
ArchitectCritique == Manifest("system-architect", "opus", "critique", DesignSkills, Editing,
    SlotReads \union {"projectStateListProjects", "run_checks", "setCritiqueVerdict"})
ManagerCritique == Manifest("product-manager", "opus", "critique", DesignSkills, Reading,
    SlotReads \union {"run_checks", "setCritiqueVerdict"})

Build(agent, model, skills, more) == Manifest(agent, model, "construct", skills, Editing, BuildVerbs \union more)
Junior == Build("junior-developer", "sonnet", DesignSkills, {})
Senior == Build("senior-developer", "opus", PlanSkills, {"recordServiceContract"})
Architect == Build("system-architect", "opus", DesignSkills, {"projectStateListProjects", "recordServiceContract"})
Tester == Build("test-engineer", "sonnet", PlanSkills, {"listComponentScenarios", "recordTestingState"})
QA == Build("qa-engineer", "sonnet", PlanSkills, {"recordTestingState"})
Designer(skills) == Build("ui-designer", "opus", skills, {})
Integrator == [Architect EXCEPT !.skills = PlanSkills, !.verbs = @ \union {"reportPlanDefect"}]

-----------------------------------------------------------------------------
(***************************************************************************)
(* The table, one definition for the commands of one stem.                 *)
(***************************************************************************)
Of(stem, suffix, row) == <<stem, suffix>> :> row

ActivityListSteps == Of("activity-list", "draft", PlanDraft)
CompressedSteps == Of("compressed-solution", "draft", PlanDraft)
CoreUseCaseSteps == Of("core-use-cases", "critique", ManagerCritique) @@ Of("core-use-cases", "draft", DesignDraft)
DecompressedSteps == Of("decompressed-solution", "draft", PlanDraft)
DeploymentSteps ==
    Of("deployment", "construction", Junior) @@ Of("deployment", "integration", Architect)
    @@ Of("deployment", "detailed-design", Build("project-manager", "fable", PlanSkills, {}))
AnswerSteps ==
    Of("design-answer", "", Manifest("system-architect", "opus", "answer", AnswerSkills, Editing,
                                SlotReads \union {"projectStateListProjects", "respondToReviewComment"}))
    @@ Of("design-answer", "pm", Manifest("product-manager", "opus", "answer", AnswerSkills, Reading,
                                     SlotReads \union {"respondToReviewComment"}))
DocumentationSteps ==
    Of("documentation", "construction", Architect) @@ Of("documentation", "detailed-design", Architect)
    @@ Of("documentation", "integration", Architect)
FrontendBuildSteps == Of("frontend", "construction", Junior) @@ Of("frontend", "detailed-design", Designer(PlanSkills))
FrontendTestSteps ==
    Of("frontend", "integration", Integrator) @@ Of("frontend", "requirements", Designer(DesignSkills))
    @@ Of("frontend", "test-plan", Tester)
GlossarySteps == Of("glossary", "critique", ManagerCritique) @@ Of("glossary", "draft", DesignDraft)
MissionSteps == Of("mission", "critique", ManagerCritique) @@ Of("mission", "draft", DesignDraft)
NetworkSteps == Of("network", "draft", PlanDraft)
NormalSteps == Of("normal-solution", "draft", PlanDraft)
ConceptsSteps == Of("operational-concepts", "draft", DesignDraft)
AssumptionsSteps == Of("planning-assumptions", "draft", PlanDraft)
RiskSteps == Of("risk-model", "draft", PlanDraft)
RequirementsSteps ==
    Of("scrubbed-requirements", "critique", ManagerCritique) @@ Of("scrubbed-requirements", "draft", DesignDraft)
ServiceBuildSteps ==
    Of("service", "construction", Junior) @@ Of("service", "detailed-design", Senior)
    @@ Of("service", "integration", Integrator)
ServicePlanSteps == Of("service", "requirements", Senior) @@ Of("service", "test-plan", Tester)
StandardCheckSteps == Of("standard-check", "draft", DesignDraft)
SubcriticalSteps == Of("subcritical-solution", "draft", PlanDraft)
SystemSteps ==
    Of("system", "critique", ArchitectCritique)
    @@ Of("system", "draft", [DesignDraft EXCEPT !.verbs = @ \union {"reportUpstreamDefect"}])
HarnessSteps == Of("testing-harness", "construction", Tester) @@ Of("testing-harness", "detailed-design", Tester)
HarnessIntegration == Of("testing-harness", "integration", QA)
PerfSteps == Of("testing-perf", "construction", Tester) @@ Of("testing-perf", "detailed-design", Tester)
PerfIntegration == Of("testing-perf", "integration", QA)
QASteps == Of("testing-qa", "construction", QA) @@ Of("testing-qa", "detailed-design", QA)
VolatilitiesSteps == Of("volatilities", "critique", ArchitectCritique) @@ Of("volatilities", "draft", DesignDraft)

stepManifests ==
    ActivityListSteps @@ CompressedSteps @@ CoreUseCaseSteps @@ DecompressedSteps @@ DeploymentSteps @@ AnswerSteps
    @@ DocumentationSteps @@ FrontendBuildSteps @@ FrontendTestSteps @@ GlossarySteps @@ MissionSteps @@ NetworkSteps
    @@ NormalSteps @@ ConceptsSteps @@ AssumptionsSteps @@ RiskSteps @@ RequirementsSteps @@ ServiceBuildSteps
    @@ ServicePlanSteps @@ StandardCheckSteps @@ SubcriticalSteps @@ SystemSteps @@ HarnessSteps
    @@ HarnessIntegration @@ PerfSteps @@ PerfIntegration @@ QASteps @@ VolatilitiesSteps

-----------------------------------------------------------------------------
(***************************************************************************)
(* Reading a table.  A file of the .claude tree is <<directory, name>> or, *)
(* a skill's, <<"skills", skill, file>>.                                   *)
(***************************************************************************)
\* The tools of the CLI that a dispatch may switch off; no charter grants one.
scopableBuiltinTools ==
    {"Artifact", "CronCreate", "CronDelete", "CronList", "DesignSync", "EnterWorktree", "ExitWorktree", "ListAgents",
     "Monitor", "NotebookEdit", "PushNotification", "RemoteTrigger", "ReportFindings", "ScheduleWakeup", "SendMessage",
     "SendUserFile", "Task", "TaskCreate", "TaskGet", "TaskList", "TaskOutput", "TaskStop", "TaskUpdate", "Workflow"}

DisallowedBuiltinTools(table, command) ==
    IF command \in DOMAIN table THEN scopableBuiltinTools \ table[command].builtin ELSE {}

inStepScope(p, command, m) ==
    CASE p[1] = "commands" -> p[2] = command
      [] p[1] = "agents" -> p[2] = m.agent
      [] p[1] = "skills" -> p[2] \in m.skills
      [] OTHER -> TRUE

\* The part of the tree files a step needs; the empty set is the error.
ClaudeFilesFor(files, table, command) ==
    IF command \in DOMAIN table THEN {p \in files : inStepScope(p, command, table[command])} ELSE {}

-----------------------------------------------------------------------------
(***************************************************************************)
(* method-assets/cmd/gen-stepmanifest: a table of manifests from the       *)
(* assets of a release.  The assets are a record                           *)
(*   commands : slug -> [line, agent, seeds], what the command's "Agent +  *)
(*     skills" line says ("" and no line when it is not there),            *)
(*   charters : agent -> [builtin, verbs, model], from its frontmatter,    *)
(*   links    : skill -> the names its files link to,                      *)
(*   shared   : the names of the files outside the three directories.      *)
(***************************************************************************)

orchestrationCommands == {<<"system-design", "">>, <<"project-design", "">>, <<"add-use-case", "">>,
                          <<"implement-project", "">>, <<"sdp-review", "">>}

modeFor(slug) ==
    CASE slug[1] = "design-answer" -> "answer"
      [] slug[2] \in {"critique", "draft"} -> slug[2]
      [] OTHER -> "construct"

\* The modes that serve a composed verb.
JobModes == {"draft", "critique", "answer", "construct"}
composedVerbModes ==
    [v \in {"listResearchSources", "getResearchSource", "getCommittedSlot", "publishDraft"} |-> JobModes]
    @@ [v \in {"getDraftSlot", "getCritique", "getReviewThread"} |-> JobModes \ {"construct"}]
    @@ [v \in {"recordServiceContract", "recordPhaseArtifact", "recordTestingState", "reportPlanDefect",
               "getOperatorNotes"} |-> {"construct"}]
    @@ [v \in {"putDraftModel", "reportUpstreamDefect"} |-> {"draft"}]
    @@ ("setCritiqueVerdict" :> {"critique"}) @@ ("respondToReviewComment" :> {"draft", "answer"})
    @@ ("run_checks" :> JobModes \ {"answer"})

modeImplicitVerbs(mode) ==
    CASE mode = "construct" -> {"getOperatorNotes", "run_checks"}
      [] mode = "answer" -> {}
      [] OTHER -> {"run_checks"}

commandVerbs(slug) ==
    CASE slug \in {<<"service", "integration">>, <<"frontend", "integration">>} -> {"reportPlanDefect"}
      [] slug = <<"system", "draft">> -> {"reportUpstreamDefect"}
      [] OTHER -> {}

projectDesignVerbs ==
    {"estimationComputeNetwork", "estimationEstimateForOption", "estimationDerivePlan", "estimationComputeEarnedValue",
     "designSessionReadProjectOnBranch", "interventionDecideOnVariance", "reviewProposeReviews"}
projectDesignCommands ==
    {<<stem, "draft">> : stem \in {"planning-assumptions", "activity-list", "network", "normal-solution",
        "subcritical-solution", "compressed-solution", "decompressed-solution", "risk-model"}}

toolAllowed(verb, mode, slug) ==
    IF verb \in DOMAIN composedVerbModes THEN mode \in composedVerbModes[verb]
    ELSE slug \in projectDesignCommands \/ verb \notin projectDesignVerbs

-----------------------------------------------------------------------------
\* The links between seated skills: not to the skill itself or a name of none.
skillLinks(a, s) == {t \in a.links[s] : t \in DOMAIN a.links /\ t # s}

\* The seeds and what they link to.  A mistake for the checks to find, in place of
\* the closure: no further.
OneStep(a, seeds) == seeds \union UNION {skillLinks(a, s) : s \in seeds \intersect DOMAIN a.links}

closeOver(a, seeds) ==
    LET within[n \in 0..Cardinality(DOMAIN a.links)] ==
            IF n = 0 THEN seeds ELSE OneStep(a, within[n - 1])
    IN  within[Cardinality(DOMAIN a.links)]

manifestFor(a, slug) ==
    LET c == a.commands[slug]
        charter == a.charters[c.agent]
        mode == modeFor(slug)
    IN  Manifest(c.agent, charter.model, mode, closeOver(a, c.seeds), charter.builtin,
            {v \in charter.verbs : toolAllowed(v, mode, slug)} \union modeImplicitVerbs(mode) \union commandVerbs(slug))

Dispatchable(a) == DOMAIN a.commands \ orchestrationCommands

\* The commands that stop the generator, which then writes no table.
Refused(a) ==
    {slug \in Dispatchable(a) :
        LET c == a.commands[slug]
        IN  ~c.line \/ c.agent = "" \/ c.agent \notin DOMAIN a.charters \/ a.charters[c.agent].model = ""}

GeneratedTable(a) == [slug \in Dispatchable(a) |-> manifestFor(a, slug)]

\* methodassets.ClaudeFiles: every file of the release, a skill's body for its directory.
ClaudeFiles(a) ==
    {<<"commands", slug>> : slug \in DOMAIN a.commands} \union {<<"agents", x>> : x \in DOMAIN a.charters}
    \union {<<"skills", s>> : s \in DOMAIN a.links} \union {<<"method-assets", f>> : f \in a.shared}
=============================================================================
