CONSTANTS
  t1 = t1
  t2 = t2
  t3 = t3
  t4 = t4
  w1 = w1
  w2 = w2
  NoTask = NoTask
  Task = {t1, t2}
  Worker = {w1, w2}
  Prio = {0, 1}
  KindOf <- MCKindOf
  Cap <- MCCap
  DependsOn <- MCDependsOn
  MaxDepth = 1
  MaxRetries = 1
  GetSuspends = TRUE
  LiveEviction = TRUE
  Retention = TRUE
  Retryable = {t1}
  MaxFaults = 2
  MaxCrashes = 1
SPECIFICATION Spec
SYMMETRY Symmetry
CHECK_DEADLOCK FALSE
INVARIANTS TypeOK ExclusiveExecution OneEntryPerTask StoreAgrees NoSilentRerun RetryBudget NothingStranded RoomForRequeue
PROPERTIES CompletedIsFinal KeepsPromise
