SPECIFICATION Spec
CONSTANTS
  Effects = {"ship"}
  Components = {"broker", "worker"}
  Shas = {"old", "new"}
  FirstSha = "old"
  Sha <- MCSha
  Parts <- MCParts
  Expected <- MCExpected
  Passes = {p1}
  Boot = boot
  Nobody = nobody
  NoCall = noCall
  MaxOrdinal = 2
  MaxAttempts = 2
  MaxPid = 3
  MaxCrashes = 1
INVARIANTS
  NoEffectIsUntouched
  TouchedOnce
PROPERTIES
  FailureIsFinal
  StartsAgain
