SPECIFICATION MCSpec
SYMMETRY IndexSymmetry
CONSTANTS
  A = A  B = B
  AB = AB  BA = BA
  WA = WA  WA2 = WA2  WB = WB
  I1 = i1  I2 = i2
  Nil = Nil
  Device = {A, B}
  Peer = {AB, BA}
  Worker = {WA, WA2, WB}
  DeviceOf <- MCDeviceOf
  Mirror <- MCMirror
  HostOf <- MCHostOf
  Index = {i0, i1, i2, i3}
  ZeroIndex = i0
  MaxEphemeral = 3
  MaxTimestamp = 2
  MaxReset = 0
  Static = {y1, y2}
  Known = {y1}
  Endpoint = {x1, x2}
  NConn = 2
  MaxFrame = 2
  MaxBack = 1
CHECK_DEADLOCK FALSE
INVARIANTS
  SessionFromPeer
  KeysAgree
  OncePerInitiation
  FramesOpen
