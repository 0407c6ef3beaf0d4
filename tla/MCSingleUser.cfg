SPECIFICATION UserSpec
CONSTANTS
  NoScope = NoScope  NoRun = NoRun  NoCfg = NoCfg  NoSync = NoSync
  Run = {r1, r2, r3}
  Requests <- MCRequests
  Batch = {b1, b2}
  Cfg = {g1}
  Sem = {s1}
  Scope = {"personal", "family"}
  MaxMigrations = 3
SYMMETRY RunSymmetry
CHECK_DEADLOCK FALSE
INVARIANTS
  RetriesAreAnswered
  NothingStagedIsLost
  ScopesAreNotMixed
