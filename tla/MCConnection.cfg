SPECIFICATION FairSpec
CONSTANTS
  Keys = {"k1", "k2"}
  NoKey = "nil"
  MaxAttempts = 4
INVARIANTS
  KeyIsProved
  OnlyWinnersGrants
  OpenAnswered
  ReleasedIsClosed
  OtherDirectionKept
PROPERTY ForwardEnds
CHECK_DEADLOCK FALSE
