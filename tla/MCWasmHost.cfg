CONSTANTS
  bad = bad
  c1 = c1
  c2 = c2
  Client = {bad, c1, c2}
  Poison = {bad}
  MaxFaults = 1
SPECIFICATION FairSpec
INVARIANTS
  OnlyOwnedLives
  RestartsCounted
  RebuildsAreCaused
  BystandersFailForCause
PROPERTIES
  RefusalStays
  EveryInvocationEnds
CHECK_DEADLOCK FALSE
