\* An institution with a sound and an unsound transaction, retries and restarts; one worker.
CONSTANTS
  i1 = i1  t1 = t1  t2 = t2
  r1 = r1  r2 = r2  r3 = r3
  NoCap = NoCap
  Institutions = {i1}
  Requests = {r1, r2}
  Txs = {t1, t2}
  InstOf <- MCOneInst
  GoodTxs = {t1}
  Policies <- MCPolicies
  StartPolicies <- MCNoneAtStart
  TokenTicks = 2
  MaxU64 = 20
  Workers = 1
  MonthTicks = 2
  MaxTime = 3
SPECIFICATION FairSpec
INVARIANTS
  TypeOK
  RateBound
  LandedBilled
  BilledOnce
PROPERTIES
  BilledWithinCap
  EveryRequestEnds
CHECK_DEADLOCK FALSE
