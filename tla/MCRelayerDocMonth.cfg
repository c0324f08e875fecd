\* What README and comments say of the cap.
CONSTANTS
  i1 = i1  t1 = t1  t2 = t2
  r1 = r1  r2 = r2  r3 = r3
  NoCap = NoCap
  Institutions = {i1}
  Requests = {r1, r2, r3}
  Txs = {t1, t2}
  InstOf <- MCOneInst
  GoodTxs = {t1}
  Policies <- MCOnePolicy
  StartPolicies <- MCOneStart
  TokenTicks = 2
  MaxU64 = 20
  Workers = 2
  MonthTicks = 2
  MaxTime = 3
SYMMETRY Symmetry
SPECIFICATION Spec
PROPERTIES
  DocCapIsMonthly
CHECK_DEADLOCK FALSE
