SPECIFICATION Spec
CONSTANTS
  s1 = s1
  s2 = s2
  f1 = f1
  s3 = s3
  k1 = k1
  k2 = k2
  Tasks <- MCTasks
  Conns <- MCConns
  Sessions <- MCSessions
  ConnOf <- MCConnOf
  LocalLimit = 2
  GlobalLimit = 2
  SessionLimit = 1
INVARIANT CountersExact
INVARIANT LimitsHold
