CONSTANTS
  Pod = {w1, w2}
  Prompt = {ask, sub}
  Subtask = sub
  Result = {answer}
  MaxUsage = 0
  MaxRetries = 1
  TasksMayFail = TRUE
  InitialPods = {}
  MaxTasks = 4
  MaxSubmissions <- Once
  MaxDisruptions = 2
SPECIFICATION QueueSpec
INVARIANTS QueueTypeOK OneOutcome NothingLost RetriesCounted
PROPERTIES SettlesTasks EveryTaskRead EveryTaskSettled
CHECK_DEADLOCK FALSE
