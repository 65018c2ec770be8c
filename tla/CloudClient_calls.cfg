SPECIFICATION FairSpec
CONSTANTS
  Callers = {c1, c2}
  Families = {f1}
  Calls = 2
  None = None
CHECK_DEADLOCK FALSE
INVARIANTS TypeOK LoneAuthErrorMeansRefused RetryHasNewToken
PROPERTIES CallsEnd
