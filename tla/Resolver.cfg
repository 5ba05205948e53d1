SPECIFICATION Spec
CONSTANTS
  Absent = Absent
  Caller = {"refresh", "rules"}
  Evaluator = {"refresh"}
  Letters = {"a", "/"}
  MaxGlob = 4
  MaxPath = 4
  ScanCap = 2
  Regexps = {"key"}
  Global <- MCGlobal
  Content <- MCContent
  Diffs <- MCDiffs
  Changes <- MCChanges
  Globs <- MCGlobs
  Paths <- MCPaths
  MaxEdits = 2
  MaxTroubles = 1
INVARIANTS
  RulesInForce
  StampTells
  FailsClosed
  GlobsExact
  ParseExact
PROPERTIES
  EditTaken
