CONSTANTS
  a1 = a1
  a2 = a2
  Address = {a1, a2}
  Addresses <- MCAddresses
  Request = {r1}
  MaxConnections = 2
  UsizeModulus = 8
SPECIFICATION StickySpec
PROPERTIES
  InnerSelectsLeast
