CONSTANTS
  plain = plain
  acme = acme
  bad = bad
  broken = broken
  Content = {plain, acme, bad, broken}
  Kind <- MCKind
  OtherEvents = {"Chmod"}
  MaxEdits = 2
  MaxEvents = 2
SPECIFICATION Spec
INVARIANTS
  FailedReloadKeepsOld
CHECK_DEADLOCK FALSE
