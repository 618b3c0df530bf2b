SPECIFICATION Spec
CONSTANTS
  key = key
  cas = cas
  none = none
  domA = domA
  domB = domB
  Effects = {none}
  Domains = {domA}
  Domain <- OneDomain
  Idempotency <- MCIdempotency
  Proof = {}
  NativeCas = {}
  Anonymous = {}
  Occupiable = {}
  Corruptible = {}
  Humans = {}
  NoHuman = NoHuman
  Passes = {}
  Boot = Boot
  MaxOrdinal = 1
  MaxAttempts = 1
  MaxPolicy = 2
  MaxCrashes = 0
INVARIANTS
  AdmittedUnderActivePolicy
