CONSTANTS
  Pod = {w1}
  Prompt <- MCPrompt
  Subtask = sub
  Result = {"yes", "no"}
  Output = {"yes", "no"}
  Empty = ""
  JSONOutput = {"yes"}
  MaxUsage = 1
  MaxRetries = 0
  TasksMayFail = FALSE
  InitialPods = {w1}
  MaxTasks = 6
  MaxSubmissions <- OneSubtask
  MaxDisruptions = 0
  NSteps = 3
  DependsOn <- Join
  HasSchema = {1}
  IfHolds <- IfOthersDisagree
  InputFails <- FailOnNo
  LoopHolds <- LoopOnSelf
  MaxIterations <- LoopOnce
  MaxTokens = 2
  TimeoutSeconds = 0
  MaxStart = 0
  Gates = {"open"}
  StaleReads = FALSE
SPECIFICATION Spec
INVARIANTS SuccessIsComplete ParsedOutputCurrent NoDuplicateWork NeverStuck
PROPERTY AnswerReachesStep
CHECK_DEADLOCK FALSE
