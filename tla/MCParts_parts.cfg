SPECIFICATION Spec
CONSTANTS
  d1 = d1
  d2 = d2
  m1 = m1
  m2 = m2
  w1 = w1
  w2 = w2
  s1 = s1
  s2 = s2
  s3 = s3
  h1 = h1
  h2 = h2
  Downloader <- TwoDownloaders
  Retries = 2
  Attempts = 3
  BaseDelay = 2
  MaxDelay = 3
  Migrator <- TwoMigrators
  Migrations = 3
  Statements = 2
  Emitter <- TwoEmitters
  Event <- Events
  Long <- LongEvents
  Invalid <- InvalidEvents
  Separated <- SeparatedEvents
  Instant <- Instants
  Feed <- Feeds
  MaxObservations = 4
  Manifest <- Manifests
  MaxHalfTime = 3
  NoHash = NoHash
  Signal <- Signals
  Horizon = 5
  Cadence = 2
  Limits <- DefaultLimits
  MaxRequests = 3
  Source <- ThreeSources
  MaxPrice = 2
  MaxInstant = 1
  MaxCandles = 3
  Closing <- Closes
  NaN = NaN
  MaxDays = 4
  Threshold = 10
  Tester <- TwoTesters
  Revision <- Revisions
  Detects <- NotBlind
  Rejects <- Critical
  Dirty = "dirty"
INVARIANTS DownloadsWhole RetryBudget MigrationsInOrder EventsCompleteOrLoud NoLookahead TrainedOnPast
INVARIANTS NoVerdictBeforeFreeze SealBindsContent HealthyMeansComplete ConsensusWithinSources JumpsExplained AttestationSound
CHECK_DEADLOCK FALSE
