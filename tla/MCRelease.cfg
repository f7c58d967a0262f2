\* Two runs of the relay over two receipt writes; two verifications of crowns of
\* two rails, with thresholds of two where the scripts have five, two and three.
CONSTANTS
  sha1 = sha1  sha2 = sha2  early = early  late = late
  path1 = path1  n1 = n1  n2 = n2  n3 = n3
  Emitter = {e1, e2}
  Command <- Commands
  FileName <- Joined
  Receipt <- Receipts
  Output = {path1}
  Nil = Nil
  Missing = Missing
  Torn = Torn
  MaxReceipts = 2
  MaxCrashes = 1
  h1 = h1  h2 = h2  h3 = h3  v1 = v1  v2 = v2
  tarball = tarball  logText = logText  pool = pool  result1 = result1  result2 = result2  log1 = log1  replay1 = replay1
  Host = {h1, h2, h3}
  EvidencePath = {pool, result1, result2, log1, replay1}
  Commit = {v1, v2}
  TreeOf <- Trees
  Listing <- Listings
  Request <- Requests
  RailOrder <- Rails
  RequiredSabotage <- Sabotage
  Foreign <- Others
  FirstFile <- EvidenceFiles
  MinAttestations = 2
  MinHosts = 2
  MinRegions = 2
  MinDomains = 2
  MinCerts = 2
  Unset = Unset
  NoObject = NoObject
  NoFile = NoFile
  Partial = Partial
  MaxQualifications = 2
  MaxVerifications = 2
  MaxChanges = 1
  MaxManifest = 2
SPECIFICATION Spec
INVARIANTS
  SpoolIsWhole
  ObservationsAreReceipted
  ReportsAreTrue
  VerdictExact
  PublishedIsEarned
  QualifiedTopologySatisfiesCrown
CHECK_DEADLOCK FALSE
