CONSTANTS
  p1 = p1
  p2 = p2
  c1 = c1
  c2 = c2
  c3 = c3
  k1 = k1
  k2 = k2
  k3 = k3
  Anyone = Anyone
  Self = Self
  Unnamed = Unnamed
  Peers = {p1, p2}
  Channels = {c1, c2, c3}
  Partner <- MCPartner
  Capacity = 6
  Kept = 1
  Reserve = 0
  Fees = {0, 2}
  Starts <- MCStarts
  Amounts = {1, 3}
  Orders <- MCOrders
  MinRebalance = 2
  ProbeSize = 2
  MaxPayment = 5
  HighInbound = 3
  LowInbound = 9
  DefaultFee = 2
  DefaultRate = 4
  RateBase = 10
  InboundRate <- MCInboundRate
  Plans <- MCPlans
  Tries = 2
  FirstHeight = 1
  LastHeight = 4
  RefundHeight = 3
  TokenFees = {1, 9}
  MaxTokenFee = 5
  MaxFaults = 2
  Coins = {k1, k2, k3}
  Value <- MCValue
  Pending = {k2}
  Late = {k3}
  ChainFee = 1
  Dust = 1
  MaxIndex = 1
  Wishes <- MCWishes
  Jobs <- MCJobs
  Saved = {p1, p2}
  GpgKeys = {k1, k2}
  FileJobs <- MCFileJobs
  FileRuns = 3
  FeeJobs <- MCFeeJobs
  FeeStarts <- MCFeeStarts
  Values = {0, 1, 2}
  FeeTries = 2
SPECIFICATION Spec
INVARIANT
  ForcedOnlyWhenAsked
CHECK_DEADLOCK FALSE
