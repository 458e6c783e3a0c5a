SPECIFICATION MCSpec
CONSTANTS
  Workload = {{"incoming"}, {"sender", "timer"}, {"handshakeWorker"}}
  ApiRequest = {"Up", "Down", "Close"}
  IpcRequest = {"peer", "remove", "listen_port", "fwmark", "private_key", "get"}
  InboundSize = 1
  MaxRequest = 2
CHECK_DEADLOCK FALSE
INVARIANTS
  
  DownIsSilent
  
