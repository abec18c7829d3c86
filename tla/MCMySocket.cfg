CONSTANTS
  c1 = c1
  c2 = c2
  Clients <- TwoClients
  Orders <- AllOrders
  MAXSFD = 4
  FdLimit = 5
  BaseFds = 1
  PortTaken = TRUE
  MaxVisits = 2
  MaxPending = 1
SPECIFICATION FairSpec
INVARIANTS TypeOK TableIsExact RefusedOnlyWhenFullOnceOpened
PROPERTIES LeftIsForgotten NobodyStarves
CHECK_DEADLOCK FALSE
