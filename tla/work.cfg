SPECIFICATION FairSpec
CONSTANTS
  Verticals = {"record", "development"}
  External = {TRUE, FALSE}
  Rounds = 2
  MaxSteps = 11
  Records = 2
  MaxAttempts = 2
  MaxFaults = 1
  MaxLeft = 1
  MaxAdmissions = 2
INVARIANTS
  ShippedIsApproved
  OneShipment
  ChainIsWhole
  CompletedIsDone
PROPERTIES
  RunEnds
CHECK_DEADLOCK FALSE
