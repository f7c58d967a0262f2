CONSTANTS
  c1 = c1
  c2 = c2
  ship = ship
  Call = {c1, c2}
  Subject = {s1}
  Operation = {ship}
  Authority <- MCAuthority
  Clock <- MCClock
  MaxRestarts = 1
  Nil = Nil
SPECIFICATION FairSpec
INVARIANTS
  AnswersTruthful
  OutcomesClose
  StandingEarned
PROPERTIES
  ImplementsReceiptedDo
  EveryCallEnds
CHECK_DEADLOCK FALSE
