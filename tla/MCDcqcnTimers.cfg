SPECIFICATION FairSpec
CONSTANTS
  m_minRate = 2
  m_max_rate = 13
  m_rai = 1
  m_rhai = 3
  AlphaUnit = 4
  m_g = 2
  m_rateOnFirstCNP = 3
  m_EcnClampTgtRate = FALSE
  m_rpgThreshold = 1
  m_alpha_resume_interval = 1
  m_rateDecreaseInterval = 2
  m_rpgTimeReset = 3
INVARIANTS
  RatesInBounds
  OneEventOfAKind
  EventsEndWithFlow
  DecreaseAfterAlpha
PROPERTIES
  RecoverBeforeIncrease
  RateRecovers
CHECK_DEADLOCK FALSE
