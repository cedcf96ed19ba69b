SPECIFICATION Spec
CONSTANTS
    Sizes = {20, 100, 140, 380}
    MaxMessages = 4
    MaxContext = 105
INVARIANT WholeInsideReservedWindow
CHECK_DEADLOCK FALSE
