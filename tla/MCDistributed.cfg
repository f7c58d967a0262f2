CONSTANTS
  t1 = t1
  t2 = t2
  n1 = n1
  n2 = n2
  Task = {t1, t2}
  Layers <- MCLayers
  Nodes <- TwoNodes
  Foreign = {n2}
  MaxCrash = 2
SPECIFICATION FairSpec
INVARIANTS
  ConfirmedIsDone
  OriginCloses
  AmbiguityKept
  OnlyMirrorDeniesFalsely
PROPERTIES
  RemoteKeepsContract
  EveryDispatchEnds
CHECK_DEADLOCK FALSE
