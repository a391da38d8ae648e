SPECIFICATION MarketSpec
CONSTANTS
  n1 = n1
  alice = alice
  bob = bob
  ctrl = ctrl
  market = market
  Zero = Zero
  PublicResolver = PublicResolver
  Addresses = {alice, bob, ctrl, market}
  Nodes = {n1}
  Names = {n1}
  Controller = ctrl
  Resolvers = {PublicResolver}
  RegisterResolvers = {PublicResolver}
  OperatorPairs <- MCOperatorPairs
  Durations = {2}
  GRACE = 1
  MaxVersion = 2
  MaxTime = 1
  MaxExpiry = 2
  Market = market
  Contracts = {bob}
  BPS_DENOMINATOR = 10
  MAX_FEE_BPS = 1
  InitialWallet <- MCInitialWallet
  TransferFees = {0}
  Prices = {10}
  FeeRates = {1}
  Treasuries = {ctrl}
  Withdrawals = {}
  Recipients = {alice, bob}
  MaxPool = 0
INVARIANT
  NoListingSurvivesATransfer
