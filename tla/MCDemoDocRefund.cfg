\* What the page says of a refund: its own calls, two wallets of a customer.
CONSTANTS
  p1 = p1  p2 = p2  o1 = o1  o2 = o2  o3 = o3  w1 = w1  w2 = w2  r1 = r1  r2 = r2  r3 = r3
  None = None  NoWallet = NoWallet  DemoWallet = DemoWallet
  Payments = {p1}
  Oracles = {o1, o2}
  DemoOracles <- MCDemoOracles
  Quorum = 2
  Wallets = {w1, w2}
  Requests = {r1, r2}
SYMMETRY Symmetry
SPECIFICATION PageSpec
PROPERTIES
  DocRefundWorks
CHECK_DEADLOCK FALSE
