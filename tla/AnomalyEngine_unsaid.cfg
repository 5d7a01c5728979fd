CONSTANTS
  Devices <- MCDevices
  Minutes <- MCMinutes
  MaxDevices = 1
  Retention = 2
  Signatures <- MCSignatures
  ProfileLearning = 3
  ProfileDominance = 2
  ProfileConfirm = 3
  MaxSignatures = 2
  Peers <- MCPeers
  PeerLearning = 2
  PeerConfirm = 2
  MaxPeers = 2
  NightMinutes <- MCNights
  DayMinutes <- MCDays
  MinDaytimeWindows = 1
  ExpectedNights = 2
  Tuples <- MCTuples
  MaxObservations = 4
  MaxSeries = 1
  MaxInterval = 3
  BeaconRetention = 3
  NoSignature = NoSignature
  NightBytes = 4
  NightPackets = 4
  NightDestinations = 3
  Destinations <- MCDestinations
  Unicast <- MCUnicast
  Ports <- MCPorts
  MaxCardinality = 3
  FanoutMin = 2
  FanoutMax = 3
  PortMin = 2
  MaxDensity = 2
  MinSamples = 2
  Lookback = 2
  DayLength = 4
  SignatureOf <- MCSignatureOf
  SourceOf <- MCSourceOf
  Feeds <- MCPeerFeeds
SPECIFICATION EngineSpec
INVARIANTS
  LearnedPeersWereAlerted
