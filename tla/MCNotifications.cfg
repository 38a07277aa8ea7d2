SPECIFICATION NSpec
CONSTANTS
  r1 = r1
  r2 = r2
  s1 = s1
  s2 = s2
  Nobody = Nobody
  Reqs <- MCReqs
  Socks <- MCSocks
  MaxConns <- MCMaxConns
  AlertOn <- MCAlertOn
  Exits <- MCExits
PROPERTIES
  MissedAtMostRemoved
  EveryRequestEnds
  AlertsOutlive
CHECK_DEADLOCK FALSE
