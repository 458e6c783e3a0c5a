SPECIFICATION Spec
CONSTANTS
  Workload = {{"handshakeWorker", "timer"}}
  ApiRequest = {}
  IpcRequest = {"private_key"}
  InboundSize = 1
  MaxRequest = 1
CHECK_DEADLOCK FALSE
INVARIANTS
  NoWaitCycle
