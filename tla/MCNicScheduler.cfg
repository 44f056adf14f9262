SPECIFICATION FairSpec
CONSTANTS
  Flows <- MCFlows
  Size <- MCSize
  Classes <- MCClasses
  m_pg <- MCPg
  ack_q_idx = 3
  tcpip_q_idx = 1
  PfcClasses <- MCPfc
  Windowed = FALSE
  Stopping <- MCStopping
  MaxGap = 1
  QueueCap = 1
INVARIANTS
  TypeOK
  ChosenFlowIsSent
  UnfinishedStays
  
PROPERTY
  EveryFlowServed
