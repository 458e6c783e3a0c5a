SPECIFICATION Spec
CONSTANTS
  Worker = {w1, w2}
  Client = {c1}
  Addr = {a1, a2}
  QueueSize = 2
  LoadMark = 1
  UnderLoadAfter = 1
  CookieRefresh = 1
  MaxTime = 2
  MaxMessage = 4
  MaxInit = 1
  Caller = {v1, v2}
  Ip = {i1, i2}
  PacketCost = 1
  Burst = 2
  GarbageCollect = 2
  MaxLimiterTime = 5
  MaxCall = 6
SYMMETRY Symmetry
CHECK_DEADLOCK FALSE
INVARIANTS
  AdmittedHasCookie
  
  
