SPECIFICATION Spec
CONSTANTS
  Intents <- ThreeIntents
  ReduceOnly <- TwoReductions
  NoIntent = "none"
  RiskCapacity = 1
  ExposureCapacity = 1
  MaxTimeouts = 1
  MaxObserverCrashes = 1
  MaxSignerCrashes = 1
  MaxSetAside = 1
INVARIANTS AcceptedIsKnown KnownIsJournaled
CHECK_DEADLOCK FALSE
