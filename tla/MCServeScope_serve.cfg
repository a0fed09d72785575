SPECIFICATION Spec
CONSTANTS
  Conns = {c1, c2}
  Entries = {"Serve"}
  MaxStartups <- StartupsFullOne
  MaxConnections <- LimitOne
  Settings <- SettingsChecked
  Counts <- CountsChecked
  Wrappers = {}
  HandshakeTimeout = TRUE
  MaxTimeout = FALSE
  DisconnectCallback = TRUE
SYMMETRY ConnSymmetry
INVARIANT TypeOK
INVARIANT StartupAccounting
INVARIANT AuthenticatedWithinLimit
INVARIANT ReturnedClean
PROPERTY ImplementsAbstract
INVARIANT DropRateRises
