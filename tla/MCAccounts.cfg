CONSTANTS
  h1 = h1
  h2 = h2
  e1 = e1
  e2 = e2
  m1 = m1
  m2 = m2
  v1 = v1
  v2 = v2
  Users = {asha}
  Groups = {trip}
  Handlers = {h1, h2}
  Ops = {"upload", "remove", "profile", "account", "group"}
  LostAnswers = TRUE
  MaxKeys = 3
  MaxCalls = 5
  Emails = {e1, e2}
  Mobiles = {m1, m2}
  Visitors = {v1, v2}
  MaxCodes = 2
  Tokens = {phone}
  People = {asha, ravi}
  NoOne = NoOne
  Senders = {s1, s2}
SPECIFICATION PartsSpec
CONSTRAINT OneAccount
SYMMETRY Interchangeable
INVARIANTS
  TypeOK ImagesResolve OrphansAreAccounted
  CodesTypeOK CodesAreUsedOnce OneCodeEach AccountsAreAsVerified
  TokensTypeOK TokensFollowHolders NoTokenOutlivesAccount
CHECK_DEADLOCK FALSE
