SPECIFICATION Spec
CONSTANTS
  MAX_TASKS = 4
  Creates = 3
  Finishing = {1, 2, 3}
  Rounds = 2
  SleepTicks = {1}
  MAX_TASK_TIME = 2
  Horizon = 1
  Calm <- MCUpdatesCalm
CHECK_DEADLOCK FALSE
INVARIANTS
  TypeOK
  LocksAccounted
  CountExact
  PausedOnlyLate
