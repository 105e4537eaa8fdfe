SPECIFICATION FairSpec
CONSTANTS
  Session = {s1, s2}
  Proc = {c1}
  Path = {a, b}
  Text = {x, y}
  a = a
  b = b
  x = x
  y = y
  Torn = Torn
  Absent = Absent
  Skill <- TwoSkills
  Input = {"full", "partial"}
  Flag = {""}
  Env = {"allow"}
  Baselines <- OnlyA
  MaxFaults = 1
PROPERTIES ShownAndOwn RunsEnd ShutdownEnds
\* Sessions are used once, and no operator need commit.
CHECK_DEADLOCK FALSE
