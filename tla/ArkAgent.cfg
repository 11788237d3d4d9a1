\* Two flows that together, or one alone, reach the limit.
CONSTANTS
  Flow = {1, 2}
  Tokens <- OneAndTwo
  Limits = {0, 2}
  Replicas = {1}
  Text = {"p", "q"}
  FirstText = "p"
  Settings = {"s"}
  Memory = {"redis"}
  FirstRefs <- OnlyMemory
  Window = 1
  MaxTime = 3
  MaxDisruptions = 1
SPECIFICATION Spec
INVARIANTS TypeOK BudgetAtRest TemplateAtRest
PROPERTY BudgetFollowed
CHECK_DEADLOCK FALSE
