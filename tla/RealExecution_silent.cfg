SPECIFICATION Spec
CONSTANTS
  Requests = {r1}
  Cycles = {c1}
  Tickets = {x1}
  Confirmations = {k1}
  NoRequest = NoRequest
  NoCycle = NoCycle
  NoTicket = NoTicket
  NoConfirmation = NoConfirmation
  Threads = {t1}
  MaxFaults = 0
  MaxCrashes = 0
  SilentReplies = TRUE
CHECK_DEADLOCK FALSE
INVARIANTS VerdictsAreTrue
