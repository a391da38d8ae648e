SPECIFICATION Spec
CONSTANTS
  n1 = n1
  aliceReverse = aliceReverse
  alice = alice
  bob = bob
  ctrl = ctrl
  registrar = registrar
  reverse = reverse
  Zero = Zero
  PublicResolver = PublicResolver
  Foreign = Foreign
  RegistrarAddress = registrar
  ReverseAddress = reverse
  Addresses = {alice, bob, ctrl}
  Users = {alice, bob}
  Nodes = {n1, aliceReverse}
  Names = {n1}
  Controller = ctrl
  Claimants = {alice}
  ReverseNode <- MCReverseNode
  Resolvers = {PublicResolver, Foreign}
  RegisterResolvers = {PublicResolver}
  OperatorPairs = {}
  Durations = {1}
  GRACE = 1
  MaxVersion = 2
  MaxReverseVersion = 1
  MaxTime = 3
  MaxExpiry = 4
INVARIANTS
  PrimaryNameIsBacked
  IndexFollowsChain
  IndexedAddressIsServed
PROPERTY
  SetNameTakesEffect
