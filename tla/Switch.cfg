SPECIFICATION FairSpec
CONSTANTS
  N = 4
  Depth = 2
  Windows <- MCHarmless
INVARIANTS
  EachOnce
  ContextKept
PROPERTIES
  RotatesAtOnce
  RunsAgain
