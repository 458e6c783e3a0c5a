SPECIFICATION MCSpec
CONSTANTS
  c1 = c1
  c2 = c2
  w1 = w1
  Reader = c1
  Caller = {c1, c2}
  Encryptor = {w1}
  StagedSize = 2
  OutboundSize = 2
  EncryptionSize = 1
  RejectAfterMessages = 1
  MaxBatch = 2
  MaxPacket = 2
  MaxKeepalive = 1
  MaxKeypair = 2
  MaxStop = 1
CHECK_DEADLOCK FALSE
INVARIANTS
  NoncesUnique
  NothingStranded
PROPERTIES
  StopEnds
