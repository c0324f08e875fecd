\* What the gateway answers to a release call.
CONSTANTS
  d1 = d1  o1 = o1  s1 = s1  c1 = c1  c2 = c2
  NoRecord = NoRecord
  Deposits = {d1}
  Oracles = {o1}
  Quorums = {1}
  Stealths = {s1}
  StealthOf <- MCOne
  Calls = {c1}
  CallOf <- MCRelease
  Stores = {"memory", "postgres"}
  MaxCopies = 1
SPECIFICATION Spec
PROPERTIES
  DocTracksRelease
CHECK_DEADLOCK FALSE
