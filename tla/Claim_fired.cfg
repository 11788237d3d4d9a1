\* The count of fires of a webhook trigger, with no error and no stale read.
CONSTANTS
  Triggers <- OneWebhook
  Targets <- OneTarget
  Due = {}
  Lookback = 1
  Request = {r1}
  MaxDelay = 1
  MaxTime = 1
  MaxFires = 4
  MaxDisruptions = 0
SPECIFICATION Spec
PROPERTY CountKept
CHECK_DEADLOCK FALSE
