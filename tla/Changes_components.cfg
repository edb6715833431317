CONSTANTS
  a1 = a1
  a2 = a2
  a3 = a3
  a4 = a4
  x1 = x1
  f1 = f1
  s1 = s1
  s2 = s2
  o1 = o1
  o2 = o2
  t1 = t1
  t2 = t2
  l1 = l1
  l2 = l2
  NoSession = NoSession
  Act = {a1, a2, a3, a4}
  ActTask = {x1}
  File = {f1}
  TaskOf <- MCTaskOf
  ToolOf <- MCToolOf
  FileOf <- MCFileOf
  OutOfBounds = {a4}
  DryRun = {}
  Wired = {a1, a2, a4}
  Tiers = {"full-auto", "auto-edit"}
  MaxMishaps = 1
  Session = {s1, s2}
  Original = {s1}
  Owner = {o1, o2}
  MaxLeases <- MCMaxLeases
  MaxNotes = 1
  MaxCuts = 1
  Ttl = {1}
  MaxInstant = 2
  IssueTask = {t1, t2}
  Implementing = {t1, t2}
  DryTask = {}
  HasTests = TRUE
  MaxDiffRetries = 1
  MaxTestRetries = 1
  MaxAnswers = 3
  MaxRuns = 2
  Loop = {l1, l2}
  Streamed = {l2}
  Enforced = {l1, l2}
  TurnCost = {1, 2}
  MonthlyLimit = 3
  StoryLimit = 3
  TaskLimit = 2
  MaxTurns = 3
  KeepRecent <- MCKeepRecent
  MaxLost = 1
  MaxPrunes = 1
  LocalTurns = 4
  LocalKeep = 2
  MaxCalls = 2
  CloseWindow = 0
  MaxSecond = 1
  MaxHead = 2
  MaxMoves = 2
  MaxPasses = 1
  FilePath = {"p1", "p2"}
  BodyLine = {"minus", "separator", "head"}
  MaxBlocks = 2
SPECIFICATION ChangesSpec
CHECK_DEADLOCK FALSE
SYMMETRY Symmetry
INVARIANTS ChangesTypeOK EffectsAreAccounted SessionsAreContinued ChangesAreJudged
PROPERTIES ChangesStand
