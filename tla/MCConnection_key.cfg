SPECIFICATION Spec
CONSTANTS
  Keys = {"k1", "k2"}
  NoKey = "nil"
  MaxAttempts = 4
INVARIANT PublicKeyUsed
CHECK_DEADLOCK FALSE
