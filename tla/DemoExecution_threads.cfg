SPECIFICATION Spec
CONSTANTS
  Requests = {r1, r2}
  Cycles = {c1, c2}
  Tickets = {x1, x2}
  NoRequest = NoRequest
  NoCycle = NoCycle
  NoTicket = NoTicket
  Threads = {t1, t2}
  MaxFaults = 0
  MaxCrashes = 1
  SilentReplies = FALSE
  CarelessOperator = FALSE
CHECK_DEADLOCK FALSE
SYMMETRY Symmetric
INVARIANTS TypeOK VerdictsAreTrue ResumeLeavesNothingBehind
