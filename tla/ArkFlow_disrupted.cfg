CONSTANTS
  Pod = {w1}
  Prompt <- MCPrompt
  Subtask = sub
  Result = {"yes", "no"}
  Output = {"yes", "no"}
  Empty = ""
  JSONOutput = {"yes"}
  MaxUsage = 0
  MaxRetries = 1
  TasksMayFail = TRUE
  InitialPods = {w1}
  MaxTasks = 4
  MaxSubmissions <- NoSubtasks
  MaxDisruptions = 1
  NSteps = 2
  DependsOn <- Chain
  HasSchema = {}
  IfHolds <- IfFirstSaidNo
  InputFails <- NoneOfData
  LoopHolds <- LoopOnSelf
  MaxIterations <- LoopOnce
  MaxTokens = 0
  TimeoutSeconds = 0
  MaxStart = 0
  Gates = {"open"}
  StaleReads = TRUE
SPECIFICATION Spec
INVARIANTS TypeOK OwnAnswer DependenciesDone
PROPERTIES EndIsFinal TaskKeptUntilAnswered
CHECK_DEADLOCK FALSE
