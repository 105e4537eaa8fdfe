SPECIFICATION FairSpec
CONSTANTS
  Path <- Flat
  Up <- FlatUp
  Content = {x, y}
  x = x
  y = y
  Torn = Torn
  Absent = Absent
  Dir = Dir
  Keep = Keep
  Gone = Gone
  Session = {s1}
  Proc = {c1, c2}
  Baselines <- FlatBaselines
  Rewrites = FALSE
  MaxFaults = 1
PROPERTY EventuallyPromoted
