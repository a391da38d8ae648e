SPECIFICATION OperationsSpec
CONSTANTS
  a1 = a1
  d = d
  Senders = {a1, d}
  AdminRuns = {a1}
  DrillRun = d
  AdminActions = {"controller-open", "market-open", "pause-all", "controller-pause", "market-pause"}
  InitialPauses <- MCInitialPauses
  Faults = {"error", "answerLost"}
  Verifications = {1}
  Confirmations = 1
  MaxBlock = 6
  MaxTxs = 5
INVARIANTS
  OperationsTypeOK
  RollbackIsFinal
  DrillReportIsTrue
  MarketAfterSmoke
CHECK_DEADLOCK FALSE
