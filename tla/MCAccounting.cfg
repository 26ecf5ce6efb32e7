SPECIFICATION PartsSpec
CONSTANTS
  Parts = {"DualLedger"}
  TopRung = 6
  WarmupEpisodes = 50
  FullEpisodes = 100
  MinDays = 14
  RungEpisodes = 25
  ReentryWindows = 3
  Jumps = {0, 24, 25}
  MaxEpisodes = 175
  Candidates = {1, 2}
  WeightOf <- MCWeightOf
  Exposures <- MCExposures
  Unit = 1
  MaxSourceExposure = 1
  MaxAge = 2
  FreshFor = 1
  Lifetime = 2
  MaxSourceTime = 3
  MaxReads = 2
  Members = {1, 2}
  StatesOf = {0, 1}
  Horizons <- MCHorizons
  Retention = 3
  MemberMaxAge = 1
  HydratedAt = 1
  Tolerance = 100
  Activation = 700
  PenaltySums = {0}
  Existing <- MCExisting
  MaxCohortTime = 3
  MaxVersions = 1
  Opens = {1, 2, 3}
  CandlePayloads = {1, 2}
  CandleRetention = 2
  Warmup = 2
  Readings12h <- MC12
  Readings4h <- MC4
  Readings1h <- MC1
  Readings30m <- MC30
  Readings15m <- MC15
  Enter = 65
  Maintain = 50
  Reduce = 45
  Flatten = 25
  PullbackVolume = 10
  BreakoutVolume = 15
  Moves = {1, 2}
  CostFloor = 2
  Grosses = {100, 110, 120}
  RecordTolerance = 10
  MaxRecords = 2
  UnitExposure = 2
  Votes <- MCVotes
  Gross = 1000
  SourceTenths = 4
  TechnicalTenths = 6
  MarkPrices = {4, 5}
  ReturnScale = 1280
  RoundTripCost = 30
  HourlyFunding = 1
  CostMultiple = 2
  MaxTicks = 4
  MaxGateRestarts = 1
  Assets = {1, 2}
  Marks = {10, 16}
  Consensus <- MCConsensus
  ConsensusUnit = 4
  Caps <- MCCaps
  Policy <- MCPolicy
  Cushion = 1
  Hysteresis = 0
  Tick = 1
  Step = 1
  BookSizes = {2}
  MaxMoves = 1
  MaxPosition = 8
  Modes = {TRUE, FALSE}
  Agreements <- MCAgreements
  AgreementUnit = 2
  EngineCaps <- MCEngineCaps
  EnginePolicy <- MCEnginePolicy
  EngineCushion = 0
  Price = 10
  PriceTick = 1
  LotSize = 1
  Depths = {1, 2}
  Latency = 1
  BookAge = 1
  MaxHeld = 6
  MaxDecisions = 2
  MaxRestarts = 1
  OrderActions = {1}
  AssetOf <- MCAssetOf
  MaxGeneration = 1
  Quantity = 2
  RequiredConfirmations = 2
  ConfirmationInterval = 2
  MaximumAttempts = 2
  MaximumUnknown = 2
  MaximumEntries = 2
  MaxLifeTime = 3
  MaxReadsInFlight = 2
  ComponentCount = 2
  Lot = 1000
  MaxMantissa = 100000
  DustTolerance = 200
  Contributions <- MCContributions
  OpeningFloor = 2
  Prices = {1, 2}
  MaxFills = 3
INVARIANTS EpisodesAccounted
CHECK_DEADLOCK FALSE
