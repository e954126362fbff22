CONSTANTS
  a1 = a1
  a2 = a2
  a3 = a3
  Address = {a1, a2, a3}
  Addresses <- MCAddresses
  Request = {r1}
  MaxConnections = 2
  UsizeModulus = 8
SPECIFICATION Spec
INVARIANTS
  AlwaysSelects
