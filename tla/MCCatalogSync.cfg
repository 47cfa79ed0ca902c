SPECIFICATION Spec
CONSTANTS
  a = a
  b = b
  n1 = n1
  n2 = n2
  Absent = Absent
  Malformed = Malformed
  Oversized = Oversized
  Clipped = Clipped
  NoList = NoList
  Worker = worker
  Commands = {deploy}
  Coins <- MCCoins
  Names <- MCNames
  Lists <- MCLists
INVARIANT
  TypeOK
PROPERTIES
  UndisturbedRunMirrors
  Converges
