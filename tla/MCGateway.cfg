\* A payment, a release and a refund call for it, deposits no pass gets over, either store.
CONSTANTS
  d1 = d1  o1 = o1  s1 = s1  c1 = c1  c2 = c2
  NoRecord = NoRecord
  Deposits = {d1}
  Oracles = {o1}
  Quorums = {1}
  Stealths = {s1}
  StealthOf <- MCOne
  Calls = {c1, c2}
  CallOf <- MCCalls
  Stores = {"memory", "postgres"}
  MaxCopies = 1
SPECIFICATION FairSpec
INVARIANTS
  TypeOK
  RecordsWereTrue
  AgreedWithCause
PROPERTIES
  CatchesUp
CHECK_DEADLOCK FALSE
