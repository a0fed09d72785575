CONSTANT MaxLater = 2

SPECIFICATION FairSpec
INVARIANT AnsweredInOrder
PROPERTY WaitEnds
