SPECIFICATION Spec
CONSTANT MaxBoots = 2
INVARIANT SwapSucceeds
CHECK_DEADLOCK FALSE
