SPECIFICATION Spec
CONSTANTS
  Reader = c1
  Caller = {c1, c2}
  Encryptor = {w1}
  StagedSize = 2
  OutboundSize = 2
  EncryptionSize = 1
  RejectAfterMessages = 3
  MaxBatch = 1
  MaxPacket = 2
  MaxKeepalive = 0
  MaxKeypair = 1
  MaxStop = 0
CHECK_DEADLOCK FALSE
INVARIANT
  InOrder
