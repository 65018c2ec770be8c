SPECIFICATION Spec
CONSTANTS
  u1 = u1
  u2 = u2
  h1 = h1
  h2 = h2
  Uids <- OneUid
  Hosts = {h1, h2}
  Callers = {t1}
  Snapshots <- Dropping
  Candidates <- Seen
  Records = {1, 2}
  Conns = {1, 2, 3}
  Updates = 1
  Scans = 1
  Nobody = Nobody
CHECK_DEADLOCK FALSE
INVARIANTS NoOrphanConnection
