CONSTANTS
  Servers = {s1, s2}
  Addresses = {a1, a2}
  FALLBACK = fixed
  Calls = 2
  Buffer = 2
SPECIFICATION FairSpec
CHECK_DEADLOCK FALSE
INVARIANTS
  AddressIsLeased
PROPERTIES
  EveryCallEnds
  CalmCallSucceeds
