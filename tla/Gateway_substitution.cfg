SPECIFICATION Spec
CONSTANTS
  Session = {s1}
  Proc = {c1}
  Path = {a, b}
  Text = {x, y}
  a = a
  b = b
  x = x
  y = y
  Torn = Torn
  Absent = Absent
  Skill <- FewSkills
  Input = {"full", "partial"}
  Flag = {""}
  Env = {"warn"}
  Baselines <- EmptyOrFull
  MaxFaults = 0
INVARIANTS SubstitutionFailsClean
