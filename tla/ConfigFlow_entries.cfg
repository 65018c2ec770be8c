SPECIFICATION FairSpec
CONSTANTS
  Entries = {e1, e2}
  Families = {home, away}
  Passwords = {right, wrong}
  Starts = 2
  home = home
  away = away
  Right = right
  Stored <- AnyVersion
  WithGateway = {home}
  None = None
CHECK_DEADLOCK FALSE
INVARIANTS TypeOK ServiceWhileNeeded LoadedOrClean SelectionOfOwnFamily OneEntryPerFamily
PROPERTIES UpdatesTakeEffect
