SPECIFICATION FairSpec
CONSTANTS
  MAX_TASKS = 4
  Creates = 3
  Finishing = {}
  Rounds = 1
  SleepTicks = {36}
  MAX_TASK_TIME = 1800
  Horizon = 1800
  Calm <- MCAllCalm
CHECK_DEADLOCK FALSE
PROPERTIES
  KeepsRunning
