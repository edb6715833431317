CONSTANTS
  e1 = e1
  e2 = e2
  p1 = p1
  p2 = p2
  w1 = w1
  w2 = w2
  i1 = i1
  b1 = b1
  s1 = s1
  s2 = s2
  MaxEntries = 5
  MaxWounds = 2
  HttpRequest = {1, 2, 3}
  Part = 2
  AuthBurst = 2
  AuthRate = 1
  GroupBurst = 2
  GroupRate = 1
  WindowLimit = 2
  Window = 2
  MaxTicks = 3
  NodeCount = 2
  MaxSessions <- MCMaxSessions
  StaleAfter <- MCStaleAfter
  Scale = 10
  MaxClock = 2
  MaxFlying = 1
  NoBudget = NoBudget
  BackendCount = 3
  Provider = {"cloud", "local"}
  ProviderOf <- MCProviderOf
  Cost <- MCCost
  Budget <- MCBudget
  Local = {"local"}
  Unusable = {}
  PreferLocal = TRUE
  HardBudget = TRUE
  TaskMax = 2
  MonthMax = 6
  Quota <- MCQuota
  MaxSpend = 6
  Editor = {e1, e2}
  Proposal = {p1, p2}
  Memory = {1, 2}
  Carries <- MCCarries
  Supersedes <- MCSupersedes
  Tokens <- MCTokens
  MaxItems = 2
  TokenBudget = 1
  MaxLines = 2
  MaxDeaths = 1
  WorkItem = {i1}
  Writer = {w1, w2}
  MaxCheckpoints = 2
  MaxWriterDeaths = 1
  Artifact = {b1}
  Place = {p1, p2}
  Other <- MCOther
  MaxExports = 1
  MaxRestores = 2
  ToolCall = {"hooked", "unknown", "denied", "suggested"}
  Unknown = {"unknown"}
  SpecOf <- MCSpecOf
  Policy <- MCPolicy
  ApprovalTier <- MCApprovalTier
  PreHooks <- MCPreHooks
  PostHooks <- MCPostHooks
  Commands = 2
  Starter = {s1, s2}
  Creator = {e1}
  Custom <- MCGraphs
  MaxRetries = 1
  MaxStarts = 2
  MaxCreations = 2
  MaxLosses = 1
  Annealer = {e1, e2}
  RawLog = {p1, p2, i1}
  MaxBroken = 1
  Text = {b1}
  Candidate = {b1, s1, s2}
  Embedder = {w1, w2}
  Model <- MCModel
  MaxAge = 1
  FtsOf <- MCFts
  CosineOf <- MCCos
  FtsWeight = 3
  EmbeddingWeight = 7
  MemoryTask = {s1, s2}
  Related <- MCRelated
  Limit = 1
  PadCap = 1
  MaxRunAttempts = 2
  MaxMemoryTroubles = 2
  Plan <- MCPlan
  Earlier <- MCEarlier
  MaxTries = 2
  MaxOthers = 1
  KnownRole = {"architect", "validator"}
  KnownBackend = {"plain", "tools"}
  ToolRole = {"architect"}
  ToolBackend = {"tools"}
  EnabledBackend <- MCEnabled
  Content <- MCContent
  DefaultRole = "validator"
  Folder <- MCFolder
  Value = {"text", "three", "half", "yes"}
  KindOf <- MCKindOf
  Builtin = {"audit", "review"}
  TemplateFolder <- MCTemplateFolder
  MonthlyLimit <- MCMonthlyLimit
  PerTaskLimit = {3}
  Webhook = TRUE
  WarnPercent = 110
  Debounce = 2
  MonthHours = 3
  TierModel <- MCTierModel
  DefaultModel = "sonnet"
  CallPrice <- MCCallPrice
  Spending = {2}
  MaxHour = 4
  MaxSpent = 5
  Catalogue <- MCCatalogue
  Required <- MCRequired
  Profiles <- MCProfiles
  RoutingPolicy <- MCRoutingPolicy
  Signature <- MCSignature
  ServerOf <- MCServerOf
  Offers <- MCOffers
  FullName <- MCFullName
  BuiltinTool = {"read"}
  Loop = {"l1", "l2"}
  HookTask = {"t"}
  LocalTask = {"u"}
  HookFile <- MCHookFile
  GlobalHooks <- MCGlobalHooks
  MaxRuns = 2
  Scenario <- MCScenario
  Ask <- MCAsk
  Weights <- MCWeights
  Tries = 3
SPECIFICATION StoresSpec
CHECK_DEADLOCK FALSE
INVARIANTS StoresTypeOK HistoryIsKept ChoicesAreSound
PROPERTIES RecordsMoveLegally
