CONSTANTS
  a1 = a1
  a2 = a2
  w1 = w1
  w2 = w2
  Alerts <- MCAlerts
  Subject <- MCSubject
  Severity <- MCSeverity
  Rules <- MCRules
  Channels <- MCChannels
  Configs <- MCConfigs
  NoiseControls <- MCNoise
  Workers <- MCWorkers
  QueueSize = 1
  RepositoryErrors = FALSE
  MaxTime = 0
SPECIFICATION Spec
INVARIANTS
  TypeOK
  NotificationsAccounted
  EveryRuleServed
PROPERTIES
  EveryDispatchEnds
