SPECIFICATION StoresSpec
CONSTANTS
  Requests = {r1, r2}
  Cycles = {c1}
  Tickets = {x1}
  NoRequest = NoRequest
  NoCycle = NoCycle
  NoTicket = NoTicket
  Threads = {w1, w2, o}
  Sharing = {w1, w2}
  Instances = {i1, i2}
  NoThread = NoThread
  LifecycleThreads = {w1, w2}
  Nobody = Nobody
  StatesPut = {"PENDING", "UNKNOWN", "ACCEPTED"}
  MaxLifecycleFaults = 1
  InstanceOf <- HomeOrAway
  KindsOf <- KindsByPlace
  SharingKinds = {"reserve", "status"}
  OtherKinds = {"reserve", "status"}
SYMMETRY Symmetric
INVARIANTS TypeOK ReservedOnce ReservedIsDurable
PROPERTIES  UncertaintyIsKept
