SPECIFICATION Spec
CONSTANTS
  key = key
  cas = cas
  none = none
  domA = domA
  domB = domB
  Effects = {key}
  Domains = {domA}
  Domain <- OneDomain
  Idempotency <- MCIdempotency
  Proof = {key}
  NativeCas = {}
  Anonymous = {key}
  Occupiable = {key}
  Corruptible = {key}
  Humans = {}
  NoHuman = NoHuman
  Passes = {r1}
  Boot = Boot
  MaxOrdinal = 2
  MaxAttempts = 2
  MaxPolicy = 2
  MaxCrashes = 1
INVARIANTS
  ContradictionIsReported
  ExhaustedAfterAttempts

  
