SPECIFICATION LiveSpec
CONSTANTS
  Intents = {"grow"}
  ReduceOnly = {}
  NoIntent = "none"
  RiskCapacity = 1
  ExposureCapacity = 1
  MaxTimeouts = 2
  MaxObserverCrashes = 2
  MaxSignerCrashes = 0
  MaxSetAside = 0
  Assets = {"BTC"}
  Cloids <- MCCloids
  AssetOf <- MCAssetOf
  DeltaOf <- MCDeltaOf
  MaxFills = 1
  MaxFunding = 0
  MaxTime = 1
  Crashing = {"observer"}
  MaxCrashes = 1
PROPERTIES
  EveryIntentIsAnswered
  FillsArrive
