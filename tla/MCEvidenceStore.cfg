\* Two hashes are the fewest with a parent link, a replacement and a bystander.
\* Four calls of two callers over a buffer of one overfill it by two.
CONSTANTS
  Hash = {h1, h2}
  SubjectHash = {s1, s2}
  Body = {b1, b2}
  Nil = Nil
  Caller = {c1, c2}
  Cap = 1
  MaxCalls = 4
  MaxDeaths = 1
SPECIFICATION Spec
INVARIANTS
  IndexesExact
  NewestKept
  OverflowIsNoticed
  SilentOnlyAtTheEdges

