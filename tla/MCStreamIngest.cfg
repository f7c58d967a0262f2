SPECIFICATION FairSpec
CONSTANTS
  Agent = {"a1", "a2"}
  Run = {"r1", "r2"}
  Activity <- MCActivity
  Stage <- MCStage
  Kind <- MCKind
  Refusing = {"REFUSED_X"}
  DefaultFlow <- MCDefaultFlow
  Ingester = {"p1", "p2"}
  Subject = {"s1", "s2"}
  EventsOf <- MCEventsOf
  Envelope <- MCEnvelope
  Flow <- MCFlow
  MaxCalls <- MCMaxCalls
  MaxFaults = 1
  MaxResets = 1
INVARIANTS
  TablesExact
  ReceiptsAreBacked
  CopiesAreExplained
PROPERTY EveryIngestEnds
