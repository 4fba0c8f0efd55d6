SPECIFICATION Spec
CONSTANTS
  Precision = 24
  MinExp <- MCMinExp
  MaxExp = 128
  INT_MAX = 33554431
  Char <- MCChar
  Session <- MCSession
CHECK_DEADLOCK FALSE
PROPERTIES
  OnlyValueChanges
