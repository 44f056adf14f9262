SPECIFICATION Spec
CONSTANTS
  Ports <- ThreePorts
  Queues <- RdmaAndTcp
  Packets <- TwoRdmaOneTcp
  ControlPackets <- NoControl
  PausingPeers <- NoPort
  W64 = 1000
  W32 = 10
  bufferPool = 6
  ingressPool = 2
  egressPool <- Pools
  reserveIngress <- None
  xoff <- Headroom2
  xon <- One
  xon_offset <- One
  alphaIngress <- One
  alphaEgress <- Plenty
  AlphaUnit = 1
  alphaHigh = 4
  ingressAlg <- DT
  egressAlg <- DT
  WireCap = 1
  PfcCap = 2
  ControlCap = 1
  Reaction = 1
  MaxLosses = 0
  MaxTakeDowns = 0
INVARIANTS
  NoLosslessDrop
  PauseSignalsAgree
  BytesEnqueued
PROPERTY
  UsesMmu
