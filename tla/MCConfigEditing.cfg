SPECIFICATION EditingSpec
CONSTANTS
  c1 = c1  c2 = c2  s1 = s1  s2 = s2  s3 = s3  usd = usd
  NoPres = NoPres  NoBase = NoBase  NotRead = NotRead
  Cat = {c1, c2}
  Sem = {s1, s2, s3}
  Currency = {usd}
  Pres = {1, 2}
  MaxVersions = 3
  Editor = {ed1, ed2}
  Rules <- MCRules
  CurrencyOf <- MCCurrencyOf
SYMMETRY EditorSymmetry
INVARIANTS
  VersionOrder
  RowsForEveryCategory
PROPERTIES
  PendingIsIsolated
  VersionsAreHistory
  ImplementsRegister
