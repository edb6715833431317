CONSTANTS
  s1 = s1
  s2 = s2
  c1 = c1
  c2 = c2
  c3 = c3
  g1 = g1
  g2 = g2
  g3 = g3
  PoolCaller = {c1, c2}
  Targets = {1, 3}
  FirstCount = 3
  QueueDepth = 1
  MaxWorkers = 5
  MaxWork = 2
  MaxScalings = 2
  Submitter = {s1, s2}
  Reprioritizer = {c1}
  OldTask = c2
  HandoffDepth = 2
  Call = {c1, c2, c3}
  Limits = {1, 2}
  DefaultLimit = 1
  MaxAttempts = 2
  MaxChanges = 2
  GateCount = 4
  PanelGate = 2
  RequiredGate = {1, 2, 4}
  WaivedGate = {1}
  ContinueOn = FALSE
  Critic = {c1, c2, c3}
  RequiredCritic = {c1, c2}
  TimedCritic = {c1, c3}
  MissingCritic = {}
  PolicyBlocks = {"p0", "p1"}
  OptionalBlocks = FALSE
  Gate = {g1, g2, g3}
  Required = {g1, g2}
  Check = {g1, g2}
  Metadata <- MCMetadata
  Output <- MCOutput
  SummaryUnits = 3
  Stored = TRUE
  Adapter = {"edit", "odd", "codex"}
  Wrapper = {"codex"}
  Declared <- MCDeclared
  Plugins <- MCPlugins
  AgentCaller = {c1}
  MaxAgentRuns = 2
  Operator = {s1, s2}
  PoolKey = {"k", "l"}
  MaxConns = 3
  Language = {"python", "javascript", "typescript", "go", "rust", "java"}
  Declarations <- MCDeclarations
  Lengths = {0, 9000}
  MaxChars = {1000, 32000}
  Scores <- MCScores
  FileCount = 4
  FirstSizes <- MCFirstSizes
  TextCandidate = {1, 2, 3}
  WithNul = {2}
  MaxFileBytes = 2
  MaxTotalBytes = 3
  MaxEdits = 2
SPECIFICATION ExecutionSpec
CHECK_DEADLOCK FALSE
INVARIANTS ExecutionTypeOK WorkIsHandedOnce VerdictsAreEarned TextsAreFaithful
PROPERTIES WorkEnds
