SPECIFICATION Spec
CONSTANTS
  a = a
  b = b
  c = c
  g1 = g1
  Groups = {g1}
  People = {a, b, c}
  Forms = {"bare"}
  TokenForm = "bare"
  OwnerOf <- MCOwnerOf
  h1 = h1
  Handlers = {h1}
  MaxExpenses = 2
  MaxCalls = 4
  Ops = {"add", "settle", "update", "delete", "join", "leave", "drop", "recompute"}
  Amounts = {6, 12}
  Callers = {a, b}
  Numbers <- MCNumbers
  SplitRequests <- MCSplitRequests
  Joiners <- MCJoiners
  Leavers <- MCLeavers
  StrayEdits = FALSE
  GroupRequests <- MCGroupRequests
  LegacyRows <- MCLegacyRows
  InitialDrifts <- MCInitialDrifts
INVARIANTS TypeOK LedgerMirrorsExpenses EditHistoryChains
PROPERTIES BalancesStayMatched RecomputeRepairs
CHECK_DEADLOCK FALSE
