SPECIFICATION Spec
CONSTANTS
  Path <- Pair
  Up <- PairUp
  Content = {x}
  x = x
  y = y
  Torn = Torn
  Absent = Absent
  Dir = Dir
  Keep = Keep
  Gone = Gone
  Session = {s1, s2}
  Proc = {c1, c2}
  Baselines <- PairBaselines
  Rewrites = TRUE
  MaxFaults = 1
INVARIANTS ReadYourWrites
PROPERTIES OnlyPromotedChanges
SYMMETRY Symmetry
