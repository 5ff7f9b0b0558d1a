CONSTANTS
  OS_MAX_TASKS = 2
  Depth = 3
SPECIFICATION SwitchSpec
CHECK_DEADLOCK FALSE
INVARIANT ResumesWhereItLeft
