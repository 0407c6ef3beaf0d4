SPECIFICATION TokenSpec
CONSTANTS
  Fresh = Fresh  Gone = Gone
  Code = {k1, k2}
  Family = {f1, f2}
  Pair = {p1, p2, p3}
  Client = {cl1, cl2}
  read = read  write = write
  Scopes <- MCScopes
  Secret = {x1, x2}
  CodeTTL = 1
  AccessTTL = 1
  RefreshTTL = 2
  MaxWait = 1
  MaxTime = 3
SYMMETRY TokenSymmetry
INVARIANTS
  TokenTypeOK
  OneHolder
  RevocationIsFinal
  ReplayIsDetectable
  GrantIsNotExceeded
PROPERTIES
  SessionsLast
