SPECIFICATION Spec
CONSTANTS
  Entries = {e1}
  Families = {home}
  Passwords = {right, wrong}
  Starts = 1
  home = home
  away = away
  Right = right
  Stored <- OneOld
  WithGateway = {home}
  None = None
CHECK_DEADLOCK FALSE
INVARIANTS OptionsUpdateReloads
