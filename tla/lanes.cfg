SPECIFICATION Spec
CONSTANTS
  work = work
  design = design
  None = None
  Gone = Gone
  Lanes <- OneLane
  Branches <- TwoBranches
  DependsOn <- BehindDesign
  MaxRepair = 1
  MaxRetry = 1
  MaxBase = 3
  MaxCommits = 2
  Overlap = FALSE
INVARIANTS
  MergeWaitIsReviewed
  WorkIsWhole
  DesignFirst
  OnePullRequest
PROPERTIES
  HoldsAreLeftKnowingly
