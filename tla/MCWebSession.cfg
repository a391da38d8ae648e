CONSTANTS
  Labels = {n1}
  Terms <- MCTerms
  MaxTransactions = 2
  Flows = {f1, f2}
  NONE = NONE
  MAX_CONCURRENT = 1

SPECIFICATION SessionFairSpec

INVARIANT
  SessionTypeOK

PROPERTIES
  RecordsOutliveTransactions
  PendingActionSettles
