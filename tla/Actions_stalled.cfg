CONSTANTS
  Act = {a1, a2}
  ActTask = {x1}
  File = {f1}
  TaskOf <- OneTask
  ToolOf <- AllCommands
  FileOf <- OneFile
  OutOfBounds = {}
  DryRun = {}
  Wired = {}
  Tiers = {"suggest"}
  MaxMishaps = 1
SPECIFICATION ActionSpec
CHECK_DEADLOCK FALSE
PROPERTIES SideEffectsEndRetries
