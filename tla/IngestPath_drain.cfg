CONSTANTS
  f1 = f1
  f2 = f2
  f3 = f3
  f4 = f4
  s1 = s1
  s2 = s2
  s3 = s3
  s4 = s4
  k0 = k0
  k1 = k1
  k2 = k2
  w1 = w1
  w2 = w2
  r1 = r1
  victim = victim
  peer = peer
  remote = remote
  Hosts <- MCHosts
  LocalHosts <- MCLocalHosts
  Workers <- MCWorkers
  Resolvers <- MCResolvers
  FlowDatagrams <- MCFlowDatagrams
  SyslogDatagrams <- MCSyslogDatagrams
  Disallowed = {s1}
  Oversized = {s2}
  Malformed = {s3}
  Decoded <- MCDecoded
  RawQueueSize = 1
  SyslogQueueSize = 1
  Fields <- MCFields
  Thresholds <- MCThresholds
  WindowLength = 1
  Names = {"host.lan"}
  LookupQueueSize = 1
  Keys <- MCKeys
  Tuples <- MCTuples
  Flow <- MCFlow
  MaxActive = 1
  Workloads <- MCMessages
SYMMETRY WorkerSymmetry
SPECIFICATION IngestSpec
INVARIANTS
  ShutdownDrains
