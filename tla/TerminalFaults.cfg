SPECIFICATION Spec
CONSTANTS
  Key <- MCKeys
  MaxKeys = 3
  SCREEN_WIDTH = 8
  SCREEN_HEIGHT = 3
  Prompt <- MCPrompt
  Output <- MCOutput
  N = 4
INVARIANTS
  InBuffer
  CursorShown
PROPERTIES
  NoKeyLost
