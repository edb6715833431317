CONSTANTS
  NoTask = NoTask
  NoMachine = NoMachine
  Task = {t1, t2}
  Machine = {m1, m2}
  Capacity <- OneSlotEach
  MaxDepth = 2
  HealthRoute = FALSE
  Retryable = {}
  MaxTroubles = 0
SPECIFICATION FairSpec
CHECK_DEADLOCK FALSE
PROPERTIES EventuallyPlaced
