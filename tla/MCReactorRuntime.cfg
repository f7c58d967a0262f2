SPECIFICATION FairSpec
CONSTANTS
  Task = {"a", "b", "c", "d"}
  Candidate <- MCCandidate
  MaxConcurrency = 2
  MaxFaults = 2
INVARIANTS
  AliveMeansAll
PROPERTIES
  LayersExact
  RunsPartialOrder
  EveryExecutionEnds
