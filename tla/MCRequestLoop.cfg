SPECIFICATION Spec
CONSTANT N = 2
INVARIANTS
  RepliesInOrder
  AnsweredOrClosed
  WaitersWoken
CHECK_DEADLOCK FALSE
