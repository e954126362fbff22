CONSTANTS
  d1 = d1
  d2 = d2
  NoDomain = NoDomain
  Domain = {d1, d2}
  Domains <- MCDomains
  MaxRounds = 1
  Http = {h1}
  Https = {s1, s2}
  Local = {local}
SPECIFICATION FairMainSpec
INVARIANTS
  MainTypeOK
  ChallengesAreRemoved
  PublishedWhileValidating
  ResultIsAwaited
PROPERTIES
  CertificatesWereObtained
  ReloadsEnd
  HttpIsAccepted
  HttpsWaitsForHandshakesOnly
CHECK_DEADLOCK FALSE
