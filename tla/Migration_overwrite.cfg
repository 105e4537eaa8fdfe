SPECIFICATION Spec
CONSTANTS
  p = p  q = q  plain = plain  prose = prose  broken = broken  body = body
  Migrator = {m}
  Acceptor = {v}
  v = v  w = w
  Path = {p}
  Order <- OneOrder
  IdOf <- SameId
  Text = {plain, prose, broken}
  Broken = {broken}
  Mechanical = {plain}
  Absent = Absent
  Edit = {body}
  Options <- Unforced
  Sources <- PlainSource
  Libraries <- DraftLibrary
  MaxCopies = 1
  MaxEdits = 0
  MaxFaults = 0
PROPERTY ReviewNotDestroyed
\* A command that has ended does nothing more.
CHECK_DEADLOCK FALSE
