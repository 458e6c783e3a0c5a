SPECIFICATION MCSpec
CONSTANTS
  Key = {k1, k2, k3}
  NoKey = NoKey
  Ip = {a}
  MaxPeers = 2
  Kind = {"init", "transport"}
  HeaderRange <- MCRange
  Padding = {0, 2}
  Size <- MCSize
  Nonce = 2
  MaxLine = 5
  Width = 3
  Peer = {p1, p2}
  Null = Null
  MaxEntries = 3
  BlockBits = 2
  RingBlocks = 3
  Limit = 10
  MaxCounter = 10
SYMMETRY Symmetry
CHECK_DEADLOCK FALSE
INVARIANTS
  ProtectedHasNonce
  Recognised
  
PROPERTIES
  ImplementsRoutes
  ImplementsWindow
