CONSTANTS
  Asha = Asha
  Bina = Bina
  Chetan = Chetan
  Ten = Ten
  CountryCode = CountryCode
  Dinner = Dinner
  People <- MCPeople
  Forms <- MCForms
  Registered <- MCRegistered
  Callers <- BothCallers
  Contacts <- BothCallers
  Handlers = {h1}
  Expenses <- MCExpenses
  InitialRows <- MixedRows
  MaxRows = 2
  MaxCalls = 3
  Amounts = {1, 2}
  Notes = {1}
SPECIFICATION Spec
INVARIANT NoStrandedRows
CHECK_DEADLOCK FALSE
