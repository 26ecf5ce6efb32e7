SPECIFICATION ScenarioSpec
CONSTANTS
  Scenarios = {"orders", "failures"}
  Intents <- MCIntents
  CloidOf <- MCCloidOf
  AssetOf <- MCAssetOf
  ReduceOnly <- MCReduceOnly
  ExpiresAt <- MCExpiresAt
  NoIntent = NoIntent
  MaxEntries = 2
  Lot = 2
  Millis = {0, 2}
  RequiredConfirmations = 2
  MinInterval = 2
  MaxDelay = 2
  MaxTime = 4
  MaxCrashes = 2
  MaxIoFailures = 1
INVARIANTS
  SubmittedAtMostOnce
  NoncesIncrease
  StartedBeforeSent
  OneInDoubt
  OutcomeIsTrue
  EveryReportIsAccepted
PROPERTIES
  SettledIsFinal
CHECK_DEADLOCK FALSE
