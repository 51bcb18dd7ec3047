CONSTANTS
  Chars <- CharsDef
  Contents <- ContentsDef
  Answers <- AnswersDef
  NL = "nl"
  MaxEdits = 2
  None = None
SPECIFICATION Spec
INVARIANTS EditLandsOnBest BlockReadAsWritten
CHECK_DEADLOCK FALSE
