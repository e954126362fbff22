CONSTANTS
  a1 = a1
  a2 = a2
  t1 = t1
  t2 = t2
  Address = {a1}
  Target = {t1, t2}
  Client = {k1}
  TomlConfigs <- MCSingleAndOff
  Behaviour <- MCLateBehaviours
  MaxLoads = 2
SPECIFICATION FairSpec
INVARIANTS
  NoLostHealthUpdate
PROPERTIES
  CellsShowLastVerdict
  RequestsGetPastTheFilter
  HealthConverges
  DeadServersEventuallyAvoided
  DisabledChecksEventuallyStop
