SPECIFICATION Spec
CONSTANTS
  Assets <- MCAssets
  Cloids <- MCCloids
  AssetOf <- MCAssetOf
  DeltaOf <- MCDeltaOf
  MaxFills = 1
  MaxFunding = 1
  MaxTime = 3
  Crashing = {}
  MaxCrashes = 0
INVARIANTS EveryEventApplies
