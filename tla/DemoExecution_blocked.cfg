SPECIFICATION Spec
CONSTANTS
  Requests = {r1}
  Cycles = {c1}
  Tickets = {x1}
  NoRequest = NoRequest
  NoCycle = NoCycle
  NoTicket = NoTicket
  Threads = {t1}
  MaxFaults = 0
  MaxCrashes = 0
  SilentReplies = FALSE
  CarelessOperator = FALSE
CHECK_DEADLOCK FALSE
INVARIANTS RefusalIsReconcilable
