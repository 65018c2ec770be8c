SPECIFICATION FairSpec
CONSTANTS
  r1 = r1
  u1 = u1
  u2 = u2
  Clients = {r1, u1, u2}
  Reliable = {r1}
  Keys <- SerialKeys
  KeysOf <- SameSerial
  BareFrames = TRUE
  MaxGen = 2
  Nobody = Nobody
CHECK_DEADLOCK FALSE
INVARIANTS TypeOK ConnectedMeansLoggedIn RoutesAreLive KeyedAnswersMatch NoHalfOpenConnection
PROPERTIES WritesNeedLogin RequestsEnd LifecycleEnds
