SPECIFICATION FairSpec
CONSTANTS
  m_size = 7
  m_mtu = 2
  m_chunk = 4
  m_ack_interval = 3
  m_backto0 = FALSE
  Win = 500
  W32 = 100
  W64 = 1000
  MayStop = TRUE
  NetCap = 3
  MaxLosses = 2
INVARIANTS
  TypeOK
  AckedIsReceived
PROPERTIES
  IsReliable
  CompletesWithoutLoss
  DiesOut
CHECK_DEADLOCK FALSE
