CONSTANTS
  a1 = a1
  a2 = a2
  u1 = u1
  w1 = w1
  Alerts <- MCAlerts
  Detected <- MCDetected
  Destination <- MCDestination
  Subject <- MCSubject
  Severity <- MCSeverity
  Rules <- MCRules
  Channels <- MCChannels
  Configs <- MCConfigs
  NoiseControls <- MCNoise
  Workers <- MCWorkers
  Policies <- MCPolicies
  QueueSize = 1
  RepositoryErrors = FALSE
  DedupWindow = 2
  Slots = 1
  MaxTime = 3
SPECIFICATION PipeSpec
INVARIANT FinalAlertsReachTheQueue
