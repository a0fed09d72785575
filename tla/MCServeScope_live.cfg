SPECIFICATION FairSpec
CONSTANTS
  Conns = {c1}
  Entries = {"Serve", "HandleConn"}
  MaxStartups <- StartupsFullOne
  MaxConnections <- LimitOne
  Settings <- SettingsChecked
  Counts <- CountsChecked
  Wrappers = {"proxy", "callback"}
  HandshakeTimeout = TRUE
  MaxTimeout = TRUE
  DisconnectCallback = TRUE
INVARIANT NothingLeftOpen
PROPERTY CancelReturns
