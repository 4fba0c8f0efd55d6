SPECIFICATION Spec
CONSTANTS
  MAX_TASKS = 4
  Creates = 5
  Finishing = {1, 2, 3}
  Rounds = 1
  SleepTicks = {1}
  MAX_TASK_TIME = 3
  Horizon = 3
  Calm <- MCNowhereCalm
CHECK_DEADLOCK FALSE
INVARIANTS
  LocksHeld
PROPERTIES
  ReusedOnlyGone
