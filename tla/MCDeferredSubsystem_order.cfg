CONSTANT MaxLater = 2

SPECIFICATION Spec
INVARIANT NoneSkipped
