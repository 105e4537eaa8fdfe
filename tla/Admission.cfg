SPECIFICATION Spec
CONSTANTS
  Letter = {"a", "b", "x", "out", "put", "mock", "true", "false", "sub", "s"}
  Digit = {"0", "1", "2"}
  Denied = {"rm"}
  Byte <- MCByte
  Canonical <- MCCanonical
  Case <- MCCase
  Home <- MCHome
  Session <- MCSession
  Torn = Torn
  Absent = Absent
CHECK_DEADLOCK FALSE
INVARIANTS TypeOK SubstitutionIsPositional LayersAgree VerifiedIsCallable PathsDenote WritesWithinScope HashIdentifiesBehaviour DigestIdentifiesInputs AdmittedMentionsDeclared ParsesAsWritten CallsOnlyListed
PROPERTIES ImplementsGateway
