SPECIFICATION Spec
CONSTANTS
  c1 = c1  c2 = c2  s1 = s1  s2 = s2  acc1 = acc1  acc2 = acc2
  usd = usd  eur = eur  p = p  a = a  o = o  b1 = b1  b2 = b2  b3 = b3
  NoPres = NoPres  NoBase = NoBase  NoSource = NoSource  NoTx = NoTx
  NoRun = NoRun  NoBatch = NoBatch  NoSync = NoSync
  Cat = {c1, c2}
  Sem = {s1, s2}
  Currency = {usd, eur}
  Account = {acc1, acc2}
  Source = {p, a, o}
  Pres = {1}
  Run = {r1, r2, r3}
  MaxVersions = 2
  MaxBatches = 2
  Rules <- MCRules
  CurrencyOf <- MCCurrencyOf
  Requests <- MCRequests
  Batches <- MCBatches
SYMMETRY RunSymmetry
INVARIANTS
  TypeOK
  PublishedTogether
  LedgerInScope
  CommitChain
  RebuildIsClean
  StagingMatchesBatches
PROPERTIES
  RunHistoryIsStable
  CommitIsVisible
  ImplementsStore
  ConfigSpec
