CONSTANTS
  Pod = {w1}
  Prompt <- MCPrompt
  Subtask = sub
  Result = {"yes"}
  Output = {"yes", "no"}
  Empty = ""
  JSONOutput = {"yes"}
  MaxUsage = 1
  MaxRetries = 0
  TasksMayFail = FALSE
  InitialPods = {w1}
  MaxTasks = 2
  MaxSubmissions <- NoSubtasks
  MaxDisruptions = 1
  NSteps = 1
  DependsOn <- Chain
  HasSchema = {}
  IfHolds <- AllData
  InputFails <- NoneOfData
  LoopHolds <- NoneOfData
  MaxIterations <- NoLoops
  MaxTokens = 1
  TimeoutSeconds = 1
  MaxStart = 0
  Gates = {"open", "agents", "template", "no queue", "deleted"}
  StaleReads = TRUE
SPECIFICATION Spec
INVARIANTS ConditionSaysHow
PROPERTIES FlowEnds
CHECK_DEADLOCK FALSE
