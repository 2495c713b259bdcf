SPECIFICATION PartsSpec
CONSTANTS
  r1 = r1
  r2 = r2
  p1 = p1
  p2 = p2
  h1 = h1
  h2 = h2
  t1 = t1
  t2 = t2
  t3 = t3
  Reports = {r1, r2}
  People = {p1, p2}
  Amounts = {0, 1}
  Handlers = {h1, h2}
  Transactions = {t1, t2, t3}
  Nobody = Nobody
  Accounts = {asha}
  Clients = {c1, c2}
  Pins = {n1, n2}
  NoPin = NoPin
  MaxAttempts = 2
  Window = 2
INVARIANTS
  TypeOK OneSettlementPerConfirmation NotificationsAreTrue
  LockoutTypeOK WrongMPINsAreCounted ChosenMPINCounts
PROPERTIES
  DecisionIsFinal LocksAreReleased ImplementsDecisions
  LocksLast LocksEnd
