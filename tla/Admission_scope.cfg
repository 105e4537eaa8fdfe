SPECIFICATION Spec
CONSTANTS
  Letter = {"a", "b", "x", "out", "put", "mock", "true", "false", "sub", "s"}
  Digit = {"0", "1", "2"}
  Denied = {"rm"}
  Byte <- MCByte
  Canonical <- MCCanonical
  Case <- Climbing
  Home <- MCHome
  Session <- MCSession
  Torn = Torn
  Absent = Absent
CHECK_DEADLOCK FALSE
INVARIANTS CeilingHolds
