CONSTANTS
  plain = plain
  acme = acme
  bad = bad
  broken = broken
  Content = {plain, acme, bad, broken}
  Kind <- MCKind
  OtherEvents = {"Chmod"}
  MaxEdits = 3
  MaxEvents = 2
SPECIFICATION FairSpec
INVARIANTS
  TypeOK
  ChangesAreNotForgotten
PROPERTIES
  ChangesAreApplied
CHECK_DEADLOCK FALSE
