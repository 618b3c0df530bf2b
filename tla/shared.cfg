SPECIFICATION Spec
CONSTANTS
  key = key
  cas = cas
  none = none
  domA = domA
  domB = domB
  Effects = {cas, none}
  Domains = {domA}
  Domain <- OneDomain
  Idempotency <- MCIdempotency
  Proof = {cas}
  NativeCas = {cas}
  Anonymous = {cas, none}
  Occupiable = {cas}
  Corruptible = {cas}
  Humans = {}
  NoHuman = NoHuman
  Passes = {r1}
  Boot = Boot
  MaxOrdinal = 2
  MaxAttempts = 1
  MaxPolicy = 1
  MaxCrashes = 1
INVARIANTS
  AtMostOneEffect
  AbsenceIsTrue
PROPERTIES
  NoSendAfterEffect
