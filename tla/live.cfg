SPECIFICATION FairSpec
CONSTANTS
  key = key
  cas = cas
  none = none
  domA = domA
  domB = domB
  Effects = {key, none}
  Domains = {domA, domB}
  Domain <- TwoDomains
  Idempotency <- MCIdempotency
  Proof = {key}
  NativeCas = {}
  Anonymous = {}
  Occupiable = {}
  Corruptible = {}
  Humans = {h}
  NoHuman = NoHuman
  Passes = {r1}
  Boot = Boot
  MaxOrdinal = 1
  MaxAttempts = 1
  MaxPolicy = 1
  MaxCrashes = 1
INVARIANTS
  HumanDecisionUsedOnce
PROPERTIES
  AdmissionGetsOutcome
  ExceptionIsRouted
