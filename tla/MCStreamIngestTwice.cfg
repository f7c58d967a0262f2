SPECIFICATION Spec
CONSTANTS
  Agent = {"a1", "a2"}
  Run = {"r1", "r2"}
  Activity <- MCActivity
  Stage <- MCStage
  Kind <- MCKind
  Refusing = {"REFUSED_X"}
  DefaultFlow <- MCDefaultFlow
  Ingester = {"p1", "p2"}
  Subject = {"s1", "s2"}
  EventsOf <- MCEventsOf
  Envelope <- MCEnvelope
  Flow <- MCFlow
  MaxCalls <- MCMaxCalls
  MaxFaults = 0
  MaxResets = 0
INVARIANT IngestIdempotent
