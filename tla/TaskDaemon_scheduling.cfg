CONSTANTS
  t1 = t1
  t2 = t2
  t3 = t3
  t4 = t4
  w1 = w1
  w2 = w2
  NoTask = NoTask
  Task = {t1, t2, t3, t4}
  Worker = {w1, w2}
  Prio = {0, 1}
  KindOf <- MCKindOf
  Cap <- MCCap
  DependsOn <- MCDependsOn
  MaxDepth = 2
  MaxRetries = 0
  GetSuspends = TRUE
  LiveEviction = TRUE
  Retention = FALSE
  Retryable = {}
  MaxFaults = 0
  MaxCrashes = 0
SPECIFICATION SpecLater
SYMMETRY Symmetry
CHECK_DEADLOCK FALSE
INVARIANTS DependenciesMet KindCapRespected RoomForRequeue
PROPERTIES UrgentFirst
