CONSTANTS
  NSteps = 2
  DependsOn <- Chain
  Modes = {"sync", "sse"}
  Chunks <- TwoThenNone
  Retries = 1
  Capacity = 1
  MaxDisruptions = 1
SPECIFICATION Spec
INVARIANTS TypeOK StreamConserved CompletionIsComplete LastWordIsTrue
PROPERTY AnswerComes
CHECK_DEADLOCK FALSE
