SPECIFICATION MCSpec
CONSTANTS
  Receiver = {v4}
  Decryptor = {d1, d2}
  Peer = {p1}
  Pools <- MCPools
  InboundSize = 1
  DecryptionSize = 1
  HandshakeSize = 1
  Box = {1, 2, 3}
  Bears <- MCBears
  MaxPacket = 3
  MaxStop = 2
  Session = {s1, s2}
  NoSession = NoSession
  MaxRead = 3
CHECK_DEADLOCK FALSE
INVARIANTS
  DeliveredSound
  BuffersAccounted
  PutBackDone
  LostToClose
PROPERTIES
  
  AlwaysReleased
