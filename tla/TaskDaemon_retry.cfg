CONSTANTS
  t1 = t1
  t2 = t2
  t3 = t3
  t4 = t4
  w1 = w1
  w2 = w2
  NoTask = NoTask
  Task = {t1, t2}
  Worker = {w1, w2}
  Prio = {0}
  KindOf <- MCKindOf
  Cap <- MCCap
  DependsOn <- MCDependsOn
  MaxDepth = 1
  MaxRetries = 1
  GetSuspends = FALSE
  LiveEviction = TRUE
  Retention = TRUE
  Retryable = {t1}
  MaxFaults = 0
  MaxCrashes = 0
SPECIFICATION SpecReprioritize
CHECK_DEADLOCK FALSE
INVARIANTS RetriedIsScheduled
