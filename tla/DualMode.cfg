SPECIFICATION MCSpec
CONSTANTS
  MaxDial = 3
  MaxHandlers = 2
  MaxFault = 1
  Sender = {a}
  Port = {1, 2}
  Sizes <- MCSizes
  BufferCap = 4
  MaxPayload = 5
  MaxDatagrams = 3
  ReadSlots = 2
  MaxTry = 1
  MaxOpen = 3
  MaxSend = 1
CHECK_DEADLOCK FALSE
INVARIANTS
  SettledWhenSupervised
  OneDeviceOnTun
  
  NoMutualWait
  
  SocketsAccounted

  
