SPECIFICATION Spec
CONSTANTS
  TTL = 3
  Buffer = 2
  Timeout = 1
  Attempts = 2
  GiveUp = 2
  Docs = {"d1", "d2"}
  BatchSize = 2
  FailureThreshold = 0
  StaleAfter = 1
  InitialDelay = 3
  Period = 2
  ProbeFailures = 2
  Grace = 4
  Refusable = {"d1"}
  MaxFaults = 1
INVARIANTS
  BearerHonoured
  WaitBounded
  SilenceBounded
PROPERTIES
  Served
