CONSTANTS
  b1 = b1
  b2 = b2
  b3 = b3
  Null = Null
  Batches <- MCBatches
  Bucket <- MCBucket
  RowsOf <- MCRowsOf
  Queries <- MCQueries
  KnownDevices <- MCKnownDevices
  DayLength = 2
  MaxTime = 5
  Requests <- MCRequests
  Defaults <- MCDefaults
  Texts <- MCTexts
  MaxRetention = 2
  MaxSpike = 1
  Workloads <- MCWorkloads
  MaxStarts = 2
  MaxLines = 3
  MaxFiles = 2
  AlertOf <- MCAlertOf
  NoAlert = NoAlert
SPECIFICATION DaemonSpec
INVARIANTS
  DaemonTypeOK
  HistoryAnswersTrue
  SavedSettingsLoad
  EnginesRunSaved
  SetupSurvives
  LinesInOrder
  LinesAccounted
PROPERTIES
  HistoryPromise
CHECK_DEADLOCK FALSE
