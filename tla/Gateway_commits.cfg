SPECIFICATION Spec
CONSTANTS
  Session = {s1}
  Proc = {c1, c2}
  Path = {a, b}
  Text = {x, y}
  a = a
  b = b
  x = x
  y = y
  Torn = Torn
  Absent = Absent
  Skill <- AllSkills
  Input = {"full", "partial", "bad"}
  Flag = {"", "refuse", "bogus"}
  Env = {"", "allow"}
  Baselines <- EmptyOrFull
  MaxFaults = 1
SYMMETRY Symmetry
INVARIANTS TypeOK RejectedLeavesNothing ReportedIsPending PrintedIsPromoted
PROPERTIES OnlyConsentedChanges
