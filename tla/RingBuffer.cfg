CONSTANTS
  Size = 4
  Bytes = {a, lf, cr}
  LF = lf
  CR = cr
  NoByte = none
SPECIFICATION FairSpec
INVARIANTS
  ReaderIsSafe
PROPERTIES
  ImplementsFifo
  OldestByteIsRead
