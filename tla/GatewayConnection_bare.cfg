SPECIFICATION Spec
CONSTANTS
  r1 = r1
  u1 = u1
  u2 = u2
  Clients = {u1, u2}
  Reliable = {}
  Keys <- ReqKeys
  KeysOf <- OwnKeys
  BareFrames = TRUE
  MaxGen = 2
  Nobody = Nobody
CHECK_DEADLOCK FALSE
INVARIANTS AnswersOwnRequest
