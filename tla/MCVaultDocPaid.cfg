\* What the design says of a settled deposit.
CONSTANTS
  v1 = v1  p1 = p1  p2 = p2  o1 = o1  o2 = o2  o3 = o3
  alice = alice  bank = bank  usdc = usdc  NativeMint = NativeMint
  Authorities = {v1}
  Payments = {p1}
  Oracles = {o1}
  Wallets = {alice, bank}
  Mints = {usdc}
  TransferFee <- MCFee
  OracleLists <- MCOneOracle
  Thresholds = {1}
  Amounts = {1, 3}
  ExpireArgs = {1}
  RefundAddrs <- MCWalletRefunds
  ReleaseAuthorities = {bank}
  TransferAmounts = {2}
  MaxOracles = 1
  MinExpire = 1
  MaxExpire = 2
  DepositRent = 3
  WalletRent = 2
  InitLamports <- MCFunds
  InitTokens <- MCTokens
  MaxTime = 1
SPECIFICATION Spec
PROPERTIES
  DocSettledMeansPaid
CHECK_DEADLOCK FALSE
