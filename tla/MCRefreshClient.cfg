SPECIFICATION ClientSpec
CONSTANTS
  c1 = c1  s1 = s1  s2 = s2  acc1 = acc1  usd = usd
  p = p  a = a  b1 = b1  b2 = b2  x1 = x1  x2 = x2
  NoPres = NoPres  NoBase = NoBase  NoSource = NoSource  NoTx = NoTx
  NoRun = NoRun  NoBatch = NoBatch  NoSync = NoSync
  NoKey = NoKey  NoRequest = NoRequest
  Cat = {c1}
  Sem = {s1, s2}
  Currency = {usd}
  Account = {acc1}
  Source = {p, a}
  Pres = {1}
  Run = {r1, r2, r3, r4, r5, r6, r7, r8, r9}
  MaxVersions = 2
  MaxBatches = 2
  Client = {x1, x2}
  Rules <- MCRules
  CurrencyOf <- MCCurrencyOf
  Requests <- MCRequests
  Batches <- MCBatches
  Feed <- MCFeed
  Accounts <- MCAccounts
INVARIANTS
  ToldIsPublished
PROPERTIES
  RefusalsHaveReasons
  EveryRefreshCommits
