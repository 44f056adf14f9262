SPECIFICATION FairSpec
CONSTANTS
  m_minRate = 10
  m_max_rate = 22
  m_mtu = 1000
  low_rtt = 2
  high_rtt = 3
  burst_rtt = 5
  BaseRtt = 2
  Rtts <- ThreeRtts
  Huge = 1000
  Window = 3
INVARIANTS
  SearchIsBracketed
  NegativeOnlyWhenHasty
PROPERTY
  LeavesBurst
CHECK_DEADLOCK FALSE
