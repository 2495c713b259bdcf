SPECIFICATION Spec
CONSTANTS
  a = a
  b = b
  c = c
  g1 = g1
  h1 = h1
  h2 = h2
  Groups = {g1}
  People = {a, b, c}
  Forms = {"bare", "intl"}
  TokenForm = "bare"
  OwnerOf <- MCOwnerOf
  Handlers = {h1}
  MaxExpenses = 2
  MaxCalls = 4
  Ops = {"add", "update", "delete"}
  Amounts = {6, 12}
  Callers = {a}
  Numbers <- MCMixedNumbers
  SplitRequests <- MCSplitRequests
  Joiners = {}
  Leavers = {}
  StrayEdits = FALSE
  GroupRequests <- MCGroupRequests
  LegacyRows <- MCNoLegacyRows
  InitialDrifts <- MCInitialDrifts
INVARIANT BalancesMatchLedger
CHECK_DEADLOCK FALSE
