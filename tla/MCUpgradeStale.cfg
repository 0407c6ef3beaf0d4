SPECIFICATION UpgradeSpec
CONSTANTS
  c1 = c1  s1 = s1  acc1 = acc1  usd = usd  p = p  a = a  b1 = b1  b2 = b2
  NoPres = NoPres  NoBase = NoBase  NoSource = NoSource  NoTx = NoTx
  NoRun = NoRun  NoBatch = NoBatch  NoSync = NoSync
  Cat = {c1}
  Sem = {s1}
  Currency = {usd}
  Account = {acc1}
  Source = {p, a}
  Pres = {1, 2}
  Run = {r1, r2, r3}
  MaxVersions = 1
  MaxBatches = 1
  Rules <- MCRules
  CurrencyOf <- MCCurrencyOf
  Requests <- MCRequests
  Batches <- MCBatches
  Scaled <- MCScaled
SYMMETRY RunSymmetry
INVARIANTS
  StaleIncrementalIsRejected
