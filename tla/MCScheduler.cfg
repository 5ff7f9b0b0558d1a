CONSTANT OS_MAX_TASKS = 4
SPECIFICATION FairSpec
INVARIANTS
  QueueHoldsTheRunnable
  ListIsOneCycle
PROPERTIES
  OnlyReadyTasksGetTheCpu
  ImplementsRoundRobin
  ReadyTasksGetTheCpu
