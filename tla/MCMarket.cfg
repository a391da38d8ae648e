SPECIFICATION MarketFairSpec
CONSTANTS
  n1 = n1
  alice = alice
  bob = bob
  ctrl = ctrl
  market = market
  Zero = Zero
  PublicResolver = PublicResolver
  Addresses = {alice, bob, ctrl, market}
  Nodes = {n1}
  Names = {n1}
  Controller = ctrl
  Resolvers = {PublicResolver}
  RegisterResolvers = {PublicResolver}
  OperatorPairs <- MCOperatorPairs
  Durations = {1}
  GRACE = 1
  MaxVersion = 2
  MaxTime = 4
  MaxExpiry = 4
  Market = market
  Contracts = {bob}
  BPS_DENOMINATOR = 10
  MAX_FEE_BPS = 1
  InitialWallet <- MCInitialWallet
  TransferFees = {0}
  Prices = {10}
  FeeRates = {1, 2}
  Treasuries = {ctrl}
  Withdrawals = {2}
  Recipients = {alice, bob}
  MaxPool = 1
INVARIANTS
  MarketTypeOK
  MarketSolvent
  ListingWithinLease
PROPERTIES
  KeepsVaultPromise
  DeliveryVersusPayment
  ProceedsServed
