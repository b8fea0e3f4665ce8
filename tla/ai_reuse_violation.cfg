SPECIFICATION Spec
CONSTANTS
  august = august
  en = en
  fr = fr
  edited = edited
  spare = spare
  Callers = {c1, c2}
  Questions <- OneQuestion
  Reviews <- TwoLanguages
  AnalysisBodies <- Nothing
  NarrativeBodies <- TwoBodies
  Fenced <- OneSpare
  BuiltIn = BuiltIn
  PromptFor <- EditedEnglish
  Locked = TRUE
  Plain <- OneKind
  Budget = 2
  Estimates = {1, 2}
  Prices = {1}
  MaxPrice = 1
  DailyCap = 2
  MayCrash = FALSE
  MaxRuns = 3
SYMMETRY CallerSymmetry
INVARIANTS ReusedFindingsAreKept
CHECK_DEADLOCK FALSE
