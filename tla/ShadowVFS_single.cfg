SPECIFICATION Spec
CONSTANTS
  Path <- Deep
  Up <- DeepUp
  Content = {x, y}
  x = x
  y = y
  Torn = Torn
  Absent = Absent
  Dir = Dir
  Keep = Keep
  Gone = Gone
  Session = {s1}
  Proc = {c1}
  Baselines <- DeepBaselines
  Rewrites = FALSE
  MaxFaults = 2
INVARIANTS TypeOK NothingLost SuccessMeansPromoted RefusalForeseen
PROPERTIES OnlyPromotedChanges ImplementsPromotion
