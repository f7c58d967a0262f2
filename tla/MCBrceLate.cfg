CONSTANTS
  c1 = c1
  c2 = c2
  ship = ship
  Call = {c1, c2}
  Subject = {s1}
  Operation = {ship}
  Authority <- MCAdmitted
  Clock <- MCClock
  MaxRestarts = 0
  Nil = Nil
SPECIFICATION Spec
INVARIANTS
  RefusedStandingStays
CHECK_DEADLOCK FALSE
