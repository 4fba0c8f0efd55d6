SPECIFICATION Spec
CONSTANTS
  MAX_TASKS = 4
  Creates = 3
  Finishing = {1, 2, 3}
  Rounds = 1
  SleepTicks = {4}
  MAX_TASK_TIME = 9
  Horizon = 8
  Calm <- MCAllButTwo
CHECK_DEADLOCK FALSE
INVARIANTS
  StartsAtEntry
  EndsWhenDone
