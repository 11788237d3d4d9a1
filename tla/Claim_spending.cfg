CONSTANTS
  Pod = {w1}
  Prompt <- MCPrompt
  Subtask = sub
  Result = {"yes", "no"}
  Output = {"yes", "no"}
  Empty = ""
  JSONOutput = {"yes"}
  MaxUsage = 1
  MaxRetries = 0
  TasksMayFail = FALSE
  InitialPods = {w1}
  MaxTasks = 3
  MaxSubmissions <- NoSubtasks
  MaxDisruptions = 0
  NSteps = 2
  DependsOn <- Chain
  HasSchema = {}
  IfHolds <- AllData
  InputFails <- NoneOfData
  LoopHolds <- LoopOnSelf
  MaxIterations <- LoopOnce
  MaxTokens = 2
  TimeoutSeconds = 0
  MaxStart = 0
  Gates = {"open"}
  StaleReads = FALSE
SPECIFICATION Spec
INVARIANTS SpendingWithinBudget
CHECK_DEADLOCK FALSE
