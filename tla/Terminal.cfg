SPECIFICATION FairSpec
CONSTANTS
  Key <- MCKeys
  MaxKeys = 4
  SCREEN_WIDTH = 4
  SCREEN_HEIGHT = 2
  Prompt <- MCPrompt
  Output <- MCOutput
  N = 4
INVARIANTS
  OnScreen
  NoKeyTwice
  LineShown
PROPERTIES
  EnterEnds
