\* Two addresses, two keys, two wallets: one tab.
CONSTANTS
  k1 = k1  k2 = k2  p1 = p1  p2 = p2  w1 = w1
  None = None  NoWallet = NoWallet  NoKey = NoKey
  Payments = {p1, p2}
  Keys = {k1, k2}
  Wallets = {w1}
  MaxPolls = 2
  Moves <- MCMoves
SPECIFICATION FairSpec
INVARIANTS
  TypeOK
  OneCall
  KeyFits
  NeverStuck
PROPERTIES
  ShownFits
  BusyEnds
  StatusCatchesUp
CHECK_DEADLOCK FALSE
