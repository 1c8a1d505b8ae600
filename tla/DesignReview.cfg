SPECIFICATION Spec
CONSTANTS
  SeedSystem <- MCSystem
  SeedUseCases <- MCUseCases
  SeedTopologies <- MCTopologies
  Calls <- MCCalls
  Links <- MCLinks
  SeedProject <- MCProject
  Labels <- MCLabels
  Ops <- MCOps
  Activities = {"a1"}
  EditModes = {"sync", "queued"}
  MaxEdits = 2
  Flows <- MCFlows
  MaxEdges = 5
  Kindings <- MCKindings
  InputSets = {{2}, {3}}
  Budgets = {1, 6, 12, 20}
  Cap = 2
  Plenty = 100000
  PathBudget = 100000
  PathCap = 512
INVARIANTS NothingUnproved WalksExact ScenariosFaithful BudgetSound CallsSettle ChainsSound DeployedOnce
CHECK_DEADLOCK FALSE
