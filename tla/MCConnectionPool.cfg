SPECIFICATION PoolSpec
CONSTANTS
  Nobody = Nobody
  Rest = {e1, e2, e3}
  Tool = {t1, t2}
  Token = {o1}
  Workers = 2
CHECK_DEADLOCK FALSE
INVARIANTS
  PoolTypeOK
  ConnectionIsAccounted
  HeldAtWorkOrAnswered
PROPERTIES
  EveryRequestEnds
