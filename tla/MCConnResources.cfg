CONSTANTS
  listener = listener
  accepted = accepted
  dialed = dialed
  NoListener = NoListener
  Conn = conn
  Closers = {conn, force}
  Owners <- MCOwners
  Listener <- MCListener

SPECIFICATION FairSpec
INVARIANTS NothingLeftAfterCloseAll NothingLeftAfterWait
PROPERTIES ConnectionEnds
