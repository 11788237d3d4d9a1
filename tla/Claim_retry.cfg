CONSTANTS
  Pod = {w1}
  Prompt <- MCPrompt
  Subtask = sub
  Result = {"yes"}
  Output = {"yes", "no"}
  Empty = ""
  JSONOutput = {"yes"}
  MaxUsage = 0
  MaxRetries = 1
  TasksMayFail = TRUE
  InitialPods = {w1}
  MaxTasks = 3
  MaxSubmissions <- NoSubtasks
  MaxDisruptions = 0
  NSteps = 2
  DependsOn <- Chain
  HasSchema = {}
  IfHolds <- AllData
  InputFails <- NoneOfData
  LoopHolds <- NoneOfData
  MaxIterations <- NoLoops
  MaxTokens = 0
  TimeoutSeconds = 0
  MaxStart = 0
  Gates = {"open"}
  StaleReads = FALSE
SPECIFICATION Spec
PROPERTIES RetryReachesStep
CHECK_DEADLOCK FALSE
