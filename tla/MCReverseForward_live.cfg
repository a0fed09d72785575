SPECIFICATION FairSpec
CONSTANTS
  f1 = f1
  f2 = f2
  c1 = c1
  k = k
  None = None
  Forwards = {f1}
  Keys = {k}
  KeyOf <- Key
  Conns = {c1}
  ForwardLimit = 1
  ChannelLimit = 1
PROPERTIES CancelCompletes ConnectionGoes
