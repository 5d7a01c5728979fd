CONSTANTS
  a1 = a1
  a2 = a2
  u1 = u1
  w1 = w1
  Alerts <- MCAlerts
  Detected <- MCDetected
  Destination <- MCDestination
  Subject <- MCSubject
  Severity <- MCSeverity
  Rules <- MCRules
  Channels <- MCChannels
  Configs <- MCConfigs
  NoiseControls <- MCNoise
  Workers <- MCWorkers
  Policies <- MCPolicies
  QueueSize = 1
  RepositoryErrors = TRUE
  DedupWindow = 1
  Slots = 1
  MaxTime = 2
SPECIFICATION PipeSpec
INVARIANTS
  PipeTypeOK
  OneAlertPerWindow
  OneActivePerCooldown
  NoCallbackAfterClose
