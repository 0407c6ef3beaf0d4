SPECIFICATION LoopSpec
CONSTANTS
  acc = acc  p = p  q = q  r = r  usd = usd  c = c
  NoSource = NoSource  NoTx = NoTx
  earlier = earlier  current = current
  Account = {acc}
  Source = {p, q, r}
  Cat = {c}
  Currency = {usd}
  Run = {earlier, current}
  Stagings <- MCStagings
  Ledgers <- MCLedgers
INVARIANTS
  OrderDoesNotMatter
  OldRowsKept
\* The loop ends when every staged row has been handled.
CHECK_DEADLOCK FALSE
