CONSTANTS
  NSteps = 3
  Output = {"yes", "no"}
  Empty = ""
  JSONOutput = {"yes"}
  HasSchema = {1}
  Graphs <- MCGraphs
  Conditions <- MCConditions
  Loops <- MCLoops
  Limits <- MCLimits
  MaxUsage = 1
  MaxTime = 2
  Name = {"a", "b", "c"}
  MaxSteps = 3
SPECIFICATION CLISpec
INVARIANTS TypeOK FreshInputs StopsForAReason ColorsTellPath VerdictIsRight ExitTellsTruth
PROPERTY CommandReturns
CHECK_DEADLOCK FALSE
