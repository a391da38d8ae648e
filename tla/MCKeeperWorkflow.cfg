SPECIFICATION KeeperSpec
CONSTANTS
  Keys = {k1, k2}
  Names = {n1}
  Prices = {1, 2}
  Permits = {p1, p2}
  Payments = {y1, y2}
  Txs = {t1, t2}
  Workers = {w1, w2}
  None = None
  UniqueIdentifiers = TRUE
  MaxOrderBaseUnits = 2
SYMMETRY KeeperSymmetry
INVARIANTS
  KeeperTypeOK
  ConclusionIsTrue
PROPERTIES
  KeepsOrderPromise
