SPECIFICATION FairSpec
CONSTANTS
  None = "nil"
  Chans = {"s1", "s2", "b1"}
  Callers = {"main", "helper"}
  MaxSigBuf = 2
  MaxRegs = 2
  Plays <- SessionPlays
  Windows <- WindowSizes
  MaxEnv = 2
  MaxEnvBytes = 2
  EnvSizes = {1, 2}
INVARIANTS
  SignalsInOrder
  AckedKept
  OnlyRegistered
  AnsweredBeforeExit
  TimerSparesAccepted
  LatestWindow
  EarlyEndCloses
PROPERTY SessionEnds
