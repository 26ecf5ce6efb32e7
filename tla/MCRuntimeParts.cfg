SPECIFICATION PartsSpec
CONSTANTS
  Parts = {"ReadBudget", "RequestScheduler", "SourceCadence", "CandleReads", "StateRoot",
           "ReorderedEvents", "MeasurementRun", "ReplayJournal", "WindowAggregate", "CopyTradeBot"}
  TotalWeight = 5
  ReservedWeight = 2
  SourceWeight = 2
  Window = 2
  Weights = {1, 2}
  MaxBudgetTime = 4
  Keys <- MCKeys
  ClassOf <- MCClassOf
  TierOf <- MCTierOf
  ReadWeightOf <- MCReadWeightOf
  PrioritiesOf <- MCPrioritiesOf
  LifetimeOf <- MCLifetimeOf
  Target <- MCTarget
  MaxConcurrency = 2
  QueueCapacity = 2
  MaxAttempts = 2
  MaxLifetime = 3
  Delays = {1}
  MaxQueueTime = 2
  CandidateCounts = {3, 8}
  PolicyWindow = 6
  ActiveCadence = 2
  InactiveCadence = 6
  CallCapacity = 7
  ActiveTarget = 9
  MaxActive = 3
  FirstRebalance = 4
  RebalanceCadence = 2
  Latencies = {1, 2}
  MaxCadenceTime = 14
  Sources = {1, 2}
  Holdings = {{}, {2}}
  Intervals = {2}
  History = 2
  FinalityDelay = 1
  BatchInterval = 1
  Universes <- MCUniverses
  UniverseLimit = 1
  SourceValidity = 2
  FutureSkew = 1
  RequestLifetime = 4
  MaxSourceReads = 3
  FirstWallTime = 3
  MaxWallTime = 5
  MaxSaves = 4
  MaxStops = 4
  Payloads <- MCPayloads
  StreamLength = 3
  ReorderWindow = 2
  StartingEquity = 2
  MaxReloads = 1
  Stages = {"Profitability", "MicroDensity", "Transport", "Plain"}
  RunLength <- MCRunLength
  BucketLength = 2
  BucketTarget = 2
  DecisionCadence = 1
  DecisionGrace = 1
  Marks = {1, 2}
  MaxReadsMade = 2
  MaxRunTime = 6
  ActiveFreshness = 0
  InactiveFreshness = 1
  SourceVotes = {1}
  MaxJournal = 4
  MaxJournalTime = 2
  WindowBuckets = 2
  HourBuckets = 2
  Releases = {1, 2}
  Episodes = {1}
  Results = {1, 3}
  MinimumObserved = 4
  MinimumEpisodes = 1
  MaxWindows = 2
  MaxSetBacks = 1
  MaxAggregateStops = 1
  Traders = {1, 2}
  Coins = {1, 2}
  Books <- MCBooks
  Vettings = {{1, 2}, {2}}
  Depths = {4}
  ModifierOf = {0, 2}
  TargetScale = 4
  AssetCap = 4
  MinOrder = 1
  MaxOrder = 3
  MinSamples = 1
  Lookback = 1
  PruneAfter = 1
  MaxBotOrders = 2
  MaxBotTime = 2
  MaxBotCrashes = 1
INVARIANTS
  ReserveIsKept
  PollsKeepComing
  MarkedCandlesArrive
  SavedIsRestored
  ArrivalOrderIsInvisible
  BucketsTileTheWindow
  UndisturbedRunsReplay
  RecordsStaySound
  SummaryCountsEpisodesOnce
  SamplesHappened
PROPERTIES
  CriticalIsKept
  EveryPrefixKeepsTheCap
CHECK_DEADLOCK FALSE
