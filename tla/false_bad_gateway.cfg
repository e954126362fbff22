CONSTANTS
  a1 = a1
  a2 = a2
  t1 = t1
  t2 = t2
  Address = {a1}
  Target = {t1, t2}
  Client = {k1}
  TomlConfigs <- MCSingleOnly
  Behaviour <- MCThreeBehaviours
  MaxLoads = 1
SPECIFICATION Spec
INVARIANTS
  WorkingServerIsUsed
