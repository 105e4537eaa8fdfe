SPECIFICATION Spec
CONSTANTS
  p = p  q = q  plain = plain  prose = prose  broken = broken  body = body
  Migrator = {m}
  Acceptor = {v, w}
  v = v  w = w
  Path = {p, q}
  Order <- BothOrder
  IdOf <- SameId
  Text = {plain, prose, broken}
  Broken = {broken}
  Mechanical = {plain}
  Absent = Absent
  Edit = {body}
  Options <- Asked
  Sources <- SomeSources
  Libraries <- AnyLibrary
  MaxCopies = 2
  MaxEdits = 1
  MaxFaults = 1
INVARIANTS TypeOK ExecutedWasAccepted ReportedDraftsLanded
PROPERTY ReplacesKnowingly
SYMMETRY Symmetry
\* A command that has ended does nothing more.
CHECK_DEADLOCK FALSE
