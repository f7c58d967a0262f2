CONSTANTS
  s1 = s1
  s2 = s2
  c1 = c1
  c2 = c2
  Session = {s1, s2}
  Client = {c1, c2}
  Mutating = {"think", "advance"}
  ReadOnly = {"probe"}
  Needs <- MCNeeds
  Slow = {"think"}
  MaxCalls <- Sequential
  MaxFaults = 0
SPECIFICATION Spec
INVARIANTS
  JournalReplays
CHECK_DEADLOCK FALSE
