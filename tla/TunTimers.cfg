SPECIFICATION MCSpec
CONSTANTS
  Rekey = {1, 2}
  Keepalive = {2}
  ExpireTime = 1
  Jitter = {0}
  Interval = {2}
  MaxAttempts = 1
  MaxLate = 1
  Flow = {f1}
  Quality <- MCQuality
  Seq0 = {1, 2, 3}
  MaxSize = 2
  Cap = 4
  MaxPackets = 3
CHECK_DEADLOCK FALSE
INVARIANTS
  DataAnswered
  SilenceNoticed
  
  
  
