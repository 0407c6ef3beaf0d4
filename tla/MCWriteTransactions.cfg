SPECIFICATION TxnSpec
CONSTANTS
  c1 = c1  c2 = c2  s1 = s1  s2 = s2  acc1 = acc1  usd = usd
  p = p  a = a  b1 = b1  b2 = b2
  NoPres = NoPres  NoBase = NoBase  NoSource = NoSource  NoTx = NoTx
  NoRun = NoRun  NoBatch = NoBatch  NoSync = NoSync  NoTxn = NoTxn
  Cat = {c1, c2}
  Sem = {s1, s2}
  Currency = {usd}
  Account = {acc1}
  Source = {p, a}
  Pres = {1, 2}
  Run = {r1, r2}
  MaxVersions = 3
  MaxBatches = 1
  Rules <- MCRules
  CurrencyOf <- MCCurrencyOf
  Requests <- MCRequests
  Batches <- MCBatches
SYMMETRY RunSymmetry
INVARIANTS
  TxnTypeOK
  NoStatementRefused
PROPERTIES
  Spec
