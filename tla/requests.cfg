CONSTANTS
  a1 = a1
  a2 = a2
  t1 = t1
  t2 = t2
  Address = {a1, a2}
  Target = {t1, t2}
  Client = {k1}
  TomlConfigs <- MCPairOnly
  Behaviour <- MCFailingBehaviours
  MaxLoads = 1
SPECIFICATION Spec
INVARIANTS
  TypeOK
  NoFalseBadGateway
  SelectionJustified
PROPERTIES
  ImplementsHealthFilter
  ScanGoesForward
