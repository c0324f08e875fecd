\* Hashes into the group of three elements.
CONSTANTS
  i1 = i1  i2 = i2
  noPoint = noPoint
  Order = 3
  Nonces = {0, 1}
  Tags = {0, 1}
  NoPoint = noPoint
  Institutions = {i1, i2}
  SpendKey <- MCSpend
  ViewKey <- MCView
  SliceFiles <- MCFiles
  OffsetHashes <- MCOffsets
  TagHashes <- MCTags
  MaxDeposits = 2
SPECIFICATION Spec
INVARIANTS
  TypeOK
  OwnIsFound
  FoundIsSpendable
CHECK_DEADLOCK FALSE
