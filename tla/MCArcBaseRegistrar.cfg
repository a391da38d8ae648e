SPECIFICATION RegistrarSpec
CONSTANTS
  n1 = n1
  alice = alice
  bob = bob
  ctrl = ctrl
  Zero = Zero
  PublicResolver = PublicResolver
  Addresses = {alice, bob, ctrl}
  Nodes = {n1}
  Names = {n1}
  Controller = ctrl
  Resolvers = {PublicResolver}
  RegisterResolvers = {PublicResolver}
  OperatorPairs <- MCOperatorPairs
  Durations = {2}
  GRACE = 1
  MaxVersion = 2
  MaxTime = 5
  MaxExpiry = 6
INVARIANTS
  RegistrarTypeOK
  BalancesMatchTokens
  ApprovalIsCurrent
  RecordsOfThisLease
  RegistryFollowsToken
PROPERTY
  KeepsLeasePromise
