SPECIFICATION ControllerFairSpec
CONSTANTS
  n1 = n1
  alice = alice
  bob = bob
  ctrl = ctrl
  s1 = s1
  s2 = s2
  Zero = Zero
  PublicResolver = PublicResolver
  Addresses = {alice, bob, ctrl}
  Nodes = {n1}
  Names = {n1}
  Controller = ctrl
  Resolvers = {PublicResolver}
  RegisterResolvers = {PublicResolver}
  OperatorPairs = {}
  Durations = {2, 4, 6, 8, 10, 12, 14, 16, 18, 20}
  GRACE = 1
  MaxVersion = 2
  MaxTime = 5
  MaxExpiry = 7
  Signers = {s1, s2}
  Permits <- MoneyPermits
  CodePoints <- MCCodePoints
  PRICE_ONE_CODEPOINT = 10
  PRICE_TWO_CODEPOINTS = 5
  PRICE_THREE_CODEPOINTS = 2
  PRICE_FOUR_PLUS_CODEPOINTS = 1
  BPS_DENOMINATOR = 10
  MAX_REFERRAL_BPS = 3
  YEAR = 2
  MAX_PERMIT_VALIDITY = 1
  MAX_PERMIT_CLOCK_SKEW = 0
  SIGNER_ACTIVATION_DELAY = 2
  InitialWallet <- MCInitialWallet
  TransferFees = {0, 1}
  ReferralRates = {0, 3, 4}
  Treasuries = {bob}
  Withdrawals = {4}
  RenewalYears = {1, 2}
  MaxPool = 1
  Proposals = {s2}
  Recipients = {bob}
INVARIANTS
  PermitIdRedeemedOnce
  NoncesInOrder
  RevokedSignerWaits
  ControllerTypeOK
  ControllerSolvent
  RenewalStaysOpen
PROPERTIES
  KeepsVaultPromise
  OnlyTheCallerPays
  TimeIsPaidFor
  ClaimServed
