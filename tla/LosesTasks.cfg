SPECIFICATION FairSpec
CONSTANTS
  MAX_TASKS = 4
  Creates = 3
  Finishing = {1, 2, 3}
  Rounds = 2
  SleepTicks = {36, 37}
  MAX_TASK_TIME = 2
  Horizon = 1
  Calm <- MCAllCalm
CHECK_DEADLOCK FALSE
PROPERTIES
  TestEnds
