SPECIFICATION Spec
CONSTANTS
  Ports <- MCPorts
  Queues <- MCQueues
  Packets <- MCMixedPackets
  W64 = 1000
  bufferPool = 16
  ingressPool = 18
  egressPool <- MCPools
  reserveIngress <- MCTwo
  xoff <- MCThree
  xon <- MCOne
  xon_offset <- MCOne
  alphaIngress <- MCOne
  alphaEgress <- MCBig
  AlphaUnit = 2
  alphaHigh = 12
  ingressAlg <- MCFAB
  egressAlg <- MCFAB
INVARIANTS
  TypeOK
  ChargedExactly
  HeadroomHoldsLossless
  SharedPoolIsTheRest
  HeadroomPausesPeer
  PausedQueueHoldsBytes
  HeadroomWithinXoff
  PoolsNotOverrun
