CONSTANTS
  h1 = h1
  h2 = h2
  Users = {asha}
  Groups = {trip}
  Handlers = {h1, h2}
  Ops = {"upload", "profile"}
  LostAnswers = FALSE
  MaxKeys = 2
  MaxCalls = 3
SPECIFICATION Spec
INVARIANT ProfileImagesResolve
CHECK_DEADLOCK FALSE
