SPECIFICATION IssuerSpec
CONSTANTS
  alice = alice
  bob = bob
  n1 = n1
  n2 = n2
  aliceN1 = aliceN1
  bobN1 = bobN1
  aliceN2 = aliceN2
  None = None
  Requesters = {alice, bob}
  Labels = {n1, n2}
  Requests = {aliceN1, bobN1, aliceN2}
  RequestKeys = {aliceN1, bobN1, aliceN2}
  PermitIds = {i1, i2}
  Txs = {t1}
  TTL = 1
  MARGIN = 2
  SKEW = 1
  RETENTION = 1
  MaxLag = 1
  MaxNow = 6
  MaxRestarts = 0
  Requester <- MCRequester
  Label <- MCLabel
  RequestKey <- MCRequestKey
PROPERTY TransientFailureIsRetried
