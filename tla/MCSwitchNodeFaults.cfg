SPECIFICATION FairSpec
CONSTANTS
  Ports <- TwoPorts
  Queues <- RdmaAndTcp
  Packets <- OneOfEach
  ControlPackets <- Acks
  PausingPeers <- Port3
  W64 = 1000
  W32 = 2
  bufferPool = 3
  ingressPool = 1
  egressPool <- Pools
  reserveIngress <- None
  xoff <- Headroom2
  xon <- One
  xon_offset <- One
  alphaIngress <- One
  alphaEgress <- Plenty
  AlphaUnit = 1
  alphaHigh = 4
  ingressAlg <- DT
  egressAlg <- DT
  WireCap = 1
  PfcCap = 2
  ControlCap = 1
  Reaction = 1
  MaxLosses = 1
  MaxTakeDowns = 1
INVARIANTS
  TypeOK
  NeverUndercounts
  WorkConserving
PROPERTY
  PausedPeerResumes
CHECK_DEADLOCK FALSE
