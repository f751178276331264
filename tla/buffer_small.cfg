SPECIFICATION Spec
CONSTANTS
    Bytes = {0, 1}
    kCheapPrepend = 1
    kInitialSize = 2
    ExtraSize = 2
    MaxLen = 3
    MaxReadable = 3
INVARIANTS TypeOK
PROPERTIES ImplementsByteQueue GrowsOnlyWhenFull
CHECK_DEADLOCK FALSE
