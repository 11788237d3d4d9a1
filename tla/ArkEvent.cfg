\* A trigger of any kind with two targets, due twice.
CONSTANTS
  Triggers <- AllTriggers
  Targets <- TwoTargets
  Due = {1, 2}
  Lookback = 2
  Request = {r1}
  MaxDelay = 1
  MaxTime = 3
  MaxFires = 2
  MaxDisruptions = 1
SPECIFICATION Spec
INVARIANTS TypeOK FiredMeansDispatched OncePerOccasion
PROPERTY NothingMissed
CHECK_DEADLOCK FALSE
