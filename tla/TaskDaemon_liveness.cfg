CONSTANTS
  t1 = t1
  t2 = t2
  t3 = t3
  t4 = t4
  w1 = w1
  w2 = w2
  NoTask = NoTask
  Task = {t1, t2}
  Worker = {w1, w2}
  Prio = {0}
  KindOf <- MCKindOf
  Cap <- MCCap
  DependsOn <- MCDependsOn
  MaxDepth = 2
  MaxRetries = 1
  GetSuspends = TRUE
  LiveEviction = FALSE
  Retention = FALSE
  Retryable = {}
  MaxFaults = 0
  MaxCrashes = 1
SPECIFICATION FairSpec
CHECK_DEADLOCK FALSE
PROPERTIES EventuallySettled QueuedWorkIsNotLost
