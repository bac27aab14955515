SPECIFICATION AllSpec
CONSTANTS
  Char <- MCChar
  NL = "nl"
  Texts <- MCTexts
  Codes = {0, 1, 7}
  NoText = NoText
  Bool = Bool
  MaxSteps = 3
  MaxNest = 2
  MaxLines = 4
  MaxClicks = 2
  Cmds = {c1, c2, c3}
  Names = {n1, n2}
  Registry <- MCRegistry
  Manifests <- MCManifests
  MaxEdits = 1
  Absent = Absent
  Broken = Broken
SYMMETRY StoreSymmetry
INVARIANTS
  NextEvalPrints
  StdoutAsWritten
  QuestionMarkIsReported
  PromptTruthful
  LinesAccounted
  SameAsCommandLine
  InstalledPair
  SessionMatchesManifest
PROPERTIES
  ReadyMeansInstalled
  RemovedCompletely
