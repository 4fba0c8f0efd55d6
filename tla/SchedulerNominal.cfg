SPECIFICATION FairSpec
CONSTANTS
  MAX_TASKS = 4
  Creates = 3
  Finishing = {1, 2, 3}
  Rounds = 11
  SleepTicks = {36}
  MAX_TASK_TIME = 1800
  Horizon = 1800
  Calm <- MCAllCalm
PROPERTIES
  TestEnds
