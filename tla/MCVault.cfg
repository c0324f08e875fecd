\* A vault of one oracle with two deposits, or of several oracles with one.
CONSTANTS
  v1 = v1  p1 = p1  p2 = p2  o1 = o1  o2 = o2  o3 = o3
  alice = alice  bank = bank  usdc = usdc  NativeMint = NativeMint
  Authorities = {v1}
  Payments = {p1, p2}
  Oracles = {o1, o2, o3}
  Wallets = {alice, bank}
  Mints = {usdc}
  TransferFee <- MCFee
  OracleLists <- MCLists
  Thresholds = {0, 1, 2, 3, 4}
  Amounts = {1, 3}
  ExpireArgs = {1, 2, 3}
  RefundAddrs <- MCAnyRefunds
  ReleaseAuthorities = {bank}
  TransferAmounts = {2}
  MaxOracles = 3
  MinExpire = 1
  MaxExpire = 2
  DepositRent = 3
  WalletRent = 2
  InitLamports <- MCFunds
  InitTokens <- MCTokens
  MaxTime = 3
SPECIFICATION Spec
CONSTRAINT Scenarios
SYMMETRY MCPayments
INVARIANTS
  TypeOK
  VerdictBacked
  AttestedOnceInTime
  NoMinorityVerdict
  Solvent
  SettlementEnabled
PROPERTIES
  ImplementsLifecycle
  FundsLeaveBySettlement
  NativeForGood
CHECK_DEADLOCK FALSE
