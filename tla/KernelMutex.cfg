CONSTANT OS_MAX_TASKS = 2
SPECIFICATION MutexSpec
INVARIANT WokenTaskOwnsTheMutex
CHECK_DEADLOCK FALSE
