SPECIFICATION MCEstablishedSpec
SYMMETRY IndexSymmetry
CONSTANTS
  A = A  B = B
  AB = AB  BA = BA
  WA = WA  WA2 = WA2  WB = WB
  I1 = i1  I2 = i2
  Nil = Nil
  Device = {A, B}
  Peer = {AB, BA}
  Worker = {WA, WB}
  DeviceOf <- MCDeviceOf
  Mirror <- MCMirror
  HostOf <- MCHostOf
  Index = {i0, i1, i2, i3, i4}
  ZeroIndex = i0
  MaxEphemeral = 6
  MaxTimestamp = 2
  MaxReset = 2
CHECK_DEADLOCK FALSE
INVARIANTS
  IndexTableSound
  
  KeyConfirmed

  
