SPECIFICATION StoresSpec
CONSTANTS
  Requests = {r1, r2}
  Cycles = {c1}
  Tickets = {x1}
  NoRequest = NoRequest
  NoCycle = NoCycle
  NoTicket = NoTicket
  Threads = {t1, t2}
  Sharing = {t1, t2}
  Instances = {i1}
  NoThread = NoThread
  LifecycleThreads = {t1, t2}
  Nobody = Nobody
  StatesPut = {"PENDING", "UNKNOWN", "ACCEPTED"}
  MaxLifecycleFaults = 1
  InstanceOf <- HomeOrAway
  KindsOf <- KindsByPlace
  SharingKinds = {"reserve", "status"}
  OtherKinds = {"reserve", "status"}
CHECK_DEADLOCK FALSE
SYMMETRY Symmetric
INVARIANTS GrantedIsDurable
