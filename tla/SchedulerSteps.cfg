CONSTANT OS_MAX_TASKS = 3
SPECIFICATION StepsSpec
CHECK_DEADLOCK FALSE
INVARIANT NoTaskStranded
