SPECIFICATION PartsSpec
CONSTANTS
  a = a
  b = b
  c = c
  g1 = g1
  h1 = h1
  h2 = h2
  Groups = {g1}
  People = {a, b, c}
  Forms = {"bare"}
  TokenForm = "bare"
  OwnerOf <- MCOwnerOf
  Handlers = {h1, h2}
  MaxExpenses = 2
  MaxCalls = 4
  Ops = {"add", "settle", "update", "delete", "drop", "join"}
  Amounts = {6, 12}
  Callers = {a}
  Numbers <- MCNumbers
  SplitRequests <- MCSplitRequests
  Joiners <- MCJoiners
  Leavers = {}
  StrayEdits = FALSE
  GroupRequests <- MCGroupRequests
  LegacyRows <- MCLegacyRows
  InitialDrifts <- MCInitialDrifts
  p1 = p1
  p2 = p2
  p3 = p3
  Payers = {p1, p2, p3}
  Prices = {6, 12}
  Splits <- AllOrTwo
  Entries = {1, 2}
  Parts = 12
  MaxRoundings = 5
SYMMETRY Interchangeable
INVARIANTS LedgerMirrorsExpenses BalancesSumToZero DriftIsBounded
PROPERTY RecomputeEndsDrift
CHECK_DEADLOCK FALSE
