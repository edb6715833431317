CONSTANTS
  NoTask = NoTask
  NoMachine = NoMachine
  Task = {t1, t2}
  Machine = {m1, m2}
  Capacity <- OneSlotEach
  MaxDepth = 2
  HealthRoute = TRUE
  Retryable = {t1}
  MaxTroubles = 2
SPECIFICATION Spec
CHECK_DEADLOCK FALSE
INVARIANTS TypeOK PlacementIsReal DoublePlacementIsExplained CapacityRespected
PROPERTIES CancelIsKept
