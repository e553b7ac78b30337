SPECIFICATION FairSpec
CONSTANTS
  l1 = l1
  l2 = l2
  l3 = l3
  l4 = l4
  m1 = m1
  m2 = m2
  Launches = {l1, l2, l3, l4}
  Messages = {m1, m2}
  Wants <- Requested
  Nothing = Nothing
  Nobody = Nobody
  MaxDeaths = 2
  MaxFaults = 1
INVARIANT MetOnce
PROPERTY ReportedIsMet
CHECK_DEADLOCK FALSE
