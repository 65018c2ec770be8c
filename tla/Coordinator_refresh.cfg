SPECIFICATION FairSpec
CONSTANTS
  d1 = d1
  d2 = d2
  g1 = g1
  g2 = g2
  v1 = v1
  v2 = v2
  Devices = {d1, d2}
  Gateways = {g1, g2}
  Values = {v1, v2}
  Snapshots <- Results
  Refreshes = {f1, f2}
  Nobody = Nobody
CHECK_DEADLOCK FALSE
INVARIANTS TypeOK ViewsAgree NoLostUpdate
PROPERTIES LanOutlivesRefresh LaterFetchWins PublishedOncePushesPause
