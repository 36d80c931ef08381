SPECIFICATION Spec
CONSTANTS
  Requests = {r1}
  Cycles = {c1, c2}
  Tickets = {x1, x2}
  NoRequest = NoRequest
  NoCycle = NoCycle
  NoTicket = NoTicket
  Threads = {t1, t2}
  MaxFaults = 1
  MaxCrashes = 1
  SilentReplies = TRUE
  CarelessOperator = TRUE
CHECK_DEADLOCK FALSE
SYMMETRY Symmetric
INVARIANTS AtMostOneDispatch DispatchedIsDurable
PROPERTIES LedgerOnlyAdvances
