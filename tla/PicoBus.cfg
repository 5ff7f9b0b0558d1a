CONSTANTS
  Keys = 3
  Accesses = 5
  FIFO = 2
SPECIFICATION FairSpec
CHECK_DEADLOCK FALSE
INVARIANTS
  TypeOK
  AnswersMatch
  AtMostOneBehind
  KeysNeverRepeat
PROPERTIES
  EveryAccessEnds
  EveryKeyArrives
