CONSTANTS
  a1 = a1
  a2 = a2
  a3 = a3
  root = root
  below = below
  Address = {a1, a2, a3}
  Lists <- MCLists
  Request = {r1, r2}
  Directory = {root, below}
  Above <- MCAbove
  Inner = {"RoundRobin", "IPHash", "Random"}
  Hash = 5
SPECIFICATION SessionSpec
INVARIANTS
  TypeOK
  EachOncePerTurn
  SessionTypeOK
PROPERTIES
  ForwardedToWorking
  SessionsSettle
