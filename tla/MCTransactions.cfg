CONSTANTS
  Asha = Asha
  Bina = Bina
  Chetan = Chetan
  Ten = Ten
  CountryCode = CountryCode
  Dinner = Dinner
  People <- MCPeople
  Forms <- MCForms
  Registered <- MCRegistered
  Callers <- BothCallers
  Contacts <- BothCallers
  Handlers = {h1, h2}
  Expenses <- MCExpenses
  InitialRows <- MixedRows
  MaxRows = 2
  MaxCalls = 3
  Amounts = {1, 2}
  Notes = {1, 2}
SPECIFICATION Spec
INVARIANTS TypeOK AmountsAreLogged TypeMatchesDirection ViewsAgree
CHECK_DEADLOCK FALSE
