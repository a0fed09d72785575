SPECIFICATION Spec
CONSTANTS
  f1 = f1
  f2 = f2
  c1 = c1
  k = k
  None = None
  Forwards = {f1, f2}
  Keys = {k}
  KeyOf <- Key
  Conns = {c1}
  ForwardLimit = 2
  ChannelLimit = 1
SYMMETRY ForwardPerms
INVARIANTS GrantedForwards NothingLeft CountsExact ChannelsOwned
PROPERTY OldOpenOnlyAfterTimeout
