SPECIFICATION FairSpec
CONSTANTS
  Intents <- TwoIntents
  ReduceOnly <- OneReduction
  NoIntent = "none"
  RiskCapacity = 1
  ExposureCapacity = 1
  MaxTimeouts = 0
  MaxObserverCrashes = 0
  MaxSignerCrashes = 1
  MaxSetAside = 0
PROPERTIES EveryIntentIsAnswered
CHECK_DEADLOCK FALSE
