CONSTANTS
  l1 = l1
  l2 = l2
  p1 = p1
  p2 = p2
  p3 = p3
  k1 = k1
  k2 = k2
  m1 = m1
  m2 = m2
  m3 = m3
  Event = {"e1", "e2"}
  Route = 3
  Applies <- MCApplies
  Allowed = {"e1"}
  Key = {k1, k2}
  HasKey = {k1}
  MaxHookTroubles = 3
  Asker = {l1, l2}
  Forge <- MCForge
  Labelled <- MCLabelled
  BatchFile <- MCBatchFile
  Rival <- MCRival
  ListTop = 3
  MaxStories = 1
  MaxBatch = 3
  MaxNumber = 3
  MaxAsks = 2
  MaxDoorTroubles = 1
  Subject = {"s", "t"}
  RoleAsked = {"viewer", "developer"}
  MaxTokens = 4
  MaxRevokes = 1
  Issue = {1, 2, 3}
  RepoCount = 2
  RepoOf <- MCRepoOf
  Wanted = {1, 2, 3}
  ListLimit = 1
  MaxTroubles = 2
  Trigger = {"often", "junk", "range"}
  CronOf <- MCCronOf
  MinutesPerHour = 1
  HoursPerDay = 2
  TicksPerMinute = 2
  MaxWall = 5
  MaxSlips = 1
  Client = {m1, m2}
  FeedMax = 1
  FeedQueue = 1
  MaxEvents = 3
  MaxConnects = 2
  Runner = {m1, m2}
  Backend = {"claude", "ollama"}
  Loadable = {"claude", "ollama"}
  Setting = {"first", "second"}
  Config <- MCConfig
  Asked <- MCAsked
  MaxCost = 1
  MonthTicks = 3
  TaskCost <- MCTaskCost
  Dollar = 62
  MaxLimit = 90
  MaxSize = 3
  MaxNow = 3
  MaxTaken = 3
  Watcher = {m1, m2}
  MaxFailures = 3
  MaxStoreFaults = 3
  GhCall = {"a", "b", "d"}
  Op <- MCOp
  Awaits = {"b"}
  PerWindow = 1
  WindowLength = 3
  Cap = 2
  Tries = 2
  Ceiling = 2
  MaxLate = 1
  MaxTime = 4
  Holder = {m1, m2}
  TokenLife = 4
  Margin = 1
  MaxDelay = 1
  MaxHour = 7
  Launcher = {l1, l2}
  Pid = {p1, p2, p3}
  SecretKey = {k1, k2}
  WithUv = FALSE
  Keyring = TRUE
  KeyVariable = FALSE
  MaxLaunches = 2
  MaxCrashes = 1
  MaxReuses = 1
  MaxEdits = 1
  Owner = {l1, l2}
  SessionEvent = {p1, p2, p3}
  ChatClient = {k1, k2}
  Message = {m1, m2, m3}
  MaxTears = 2
SPECIFICATION ServicesSpec
CHECK_DEADLOCK FALSE
INVARIANTS ServicesTypeOK RequestsAreHonoured WhatIsKeptIsTrue
PROPERTIES ServicesMoveOn
