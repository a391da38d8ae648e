SPECIFICATION OperationsSpec
CONSTANTS
  a1 = a1
  d = d
  Senders = {a1, d}
  AdminRuns = {a1}
  DrillRun = d
  AdminActions = {}
  InitialPauses <- MCInitialPauses
  Faults = {"error", "answerLost"}
  Verifications = {1}
  Confirmations = 1
  MaxBlock = 5
  MaxTxs = 4
INVARIANT
  RepauseHolds
CHECK_DEADLOCK FALSE
