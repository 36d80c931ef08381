SPECIFICATION Spec
CONSTANTS
  Requests = {r1, r2}
  Cycles = {c1}
  Tickets = {x1, x2}
  Confirmations = {k1, k2}
  NoRequest = NoRequest
  NoCycle = NoCycle
  NoTicket = NoTicket
  NoConfirmation = NoConfirmation
  Threads = {t1, t2}
  MaxFaults = 1
  MaxCrashes = 1
  SilentReplies = FALSE
CHECK_DEADLOCK FALSE
SYMMETRY Symmetric
INVARIANTS TypeOK AtMostOneDispatch ArmedIsRecorded VerdictsAreTrue ResumeLeavesNothingBehind
PROPERTIES OrdersAreConfirmed ImplementsOrderDesk
