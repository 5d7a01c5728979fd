CONSTANTS
  a1 = a1
  a2 = a2
  w1 = w1
  w2 = w2
  Alerts <- MCAlerts
  Subject <- MCSubject
  Severity <- MCSeverity
  Rules <- MCCooledRules
  Channels <- MCOneChannel
  Configs <- MCOneConfig
  NoiseControls <- MCQuiet
  Workers <- MCOneWorker
  QueueSize = 1
  RepositoryErrors = FALSE
  MaxTime = 0
SPECIFICATION SafeSpec
INVARIANTS
  OneDeliveryPerCooldown
