CONSTANTS
  Pod = {w1}
  Prompt <- MCPrompt
  Subtask = sub
  Result = {"yes", "no"}
  Output = {"yes", "no"}
  Empty = ""
  JSONOutput = {"yes"}
  MaxUsage = 0
  MaxRetries = 0
  TasksMayFail = FALSE
  InitialPods = {w1}
  MaxTasks = 3
  MaxSubmissions <- NoSubtasks
  MaxDisruptions = 2
  NSteps = 3
  DependsOn <- CycleBehind
  HasSchema = {}
  IfHolds <- AllData
  InputFails <- NoneOfData
  LoopHolds <- NoneOfData
  MaxIterations <- NoLoops
  MaxTokens = 0
  TimeoutSeconds = 1
  MaxStart = 2
  Gates = {"open", "agents", "template", "deleted"}
  StaleReads = TRUE
SPECIFICATION Spec
INVARIANTS CycleNeverRuns
CHECK_DEADLOCK FALSE
