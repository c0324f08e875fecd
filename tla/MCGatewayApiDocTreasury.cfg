\* Lists of at most one record and counts of two, and three records to list and count.
CONSTANTS
  i1 = i1  i2 = i2  h1 = h1  h2 = h2  h3 = h3
  NoInst = NoInst  NaN = NaN  None = None
  Institutions = {i1, i2}
  Headers = {h1, h2, h3}
  KeyOf <- MCKeyOf
  Byte = 4
  Base = 3
  Stealths <- MCStealths
  Amounts <- MCAmounts
  Exact = 4
  Words = {"pending", "approved"}
  DefaultCount = 2
  MaxLimit = 1
  Limits <- MCLimits
  Life = 1
  Stores = {"memory", "postgres"}
  MaxId = 3
  MaxTime = 1
SPECIFICATION Spec
INVARIANTS
  DocTreasuryRoutes
CHECK_DEADLOCK FALSE
