SPECIFICATION Spec
CONSTANTS
  a = a
  b = b
  c = c
  g1 = g1
  h1 = h1
  h2 = h2
  Groups = {g1}
  People = {a, b, c}
  Forms = {"bare"}
  TokenForm = "bare"
  OwnerOf <- MCOwnerOf
  Handlers = {h1, h2}
  MaxExpenses = 2
  MaxCalls = 4
  Ops = {"add", "delete"}
  Amounts = {6}
  Callers = {a}
  Numbers <- MCNumbers
  SplitRequests <- MCSplitRequests
  Joiners = {}
  Leavers = {}
  StrayEdits = FALSE
  GroupRequests <- MCGroupRequests
  LegacyRows <- MCNoLegacyRows
  InitialDrifts <- MCInitialDrifts
SYMMETRY HandlerSymmetry
INVARIANT BalancesMatchLedger
CHECK_DEADLOCK FALSE
