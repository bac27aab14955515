SPECIFICATION Spec
CONSTANTS
  Char <- MCChar
  NL = "nl"
  Texts <- MCTexts
  Codes = {0, 1, 7}
  NoText = NoText
  Bool = Bool
  MaxSteps = 2
  MaxNest = 1
INVARIANTS
  ExitKeepsOutput
