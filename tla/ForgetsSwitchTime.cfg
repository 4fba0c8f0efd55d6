SPECIFICATION FairSpec
CONSTANTS
  MAX_TASKS = 4
  Creates = 3
  Finishing = {}
  Rounds = 1
  SleepTicks = {1}
  MAX_TASK_TIME = 6
  Horizon = 5
  Calm <- MCAllCalm
CHECK_DEADLOCK FALSE
PROPERTIES
  SwitchTimeRecorded
