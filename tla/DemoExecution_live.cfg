SPECIFICATION FairSpec
CONSTANTS
  Requests = {r1}
  Cycles = {c1, c2}
  Tickets = {x1, x2}
  NoRequest = NoRequest
  NoCycle = NoCycle
  NoTicket = NoTicket
  Threads = {t1}
  MaxFaults = 1
  MaxCrashes = 1
  SilentReplies = FALSE
  CarelessOperator = FALSE
CHECK_DEADLOCK FALSE
PROPERTIES PlacedOrdersAreResolved ImplementsOrderDesk
