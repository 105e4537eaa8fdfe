SPECIFICATION Spec
CONSTANTS
  Path <- Flat
  Up <- FlatUp
  Content = {x, y}
  x = x
  y = y
  Torn = Torn
  Absent = Absent
  Dir = Dir
  Keep = Keep
  Gone = Gone
  Session = {s1}
  Proc = {c1}
  Baselines <- FlatBaselines
  Rewrites = TRUE
  MaxFaults = 1
INVARIANTS SuccessMeansPromoted
