SPECIFICATION FairSpec
CONSTANTS
    Bytes = 4
    Sizes = {1, 2, 3, 4, 6}
INVARIANTS TypeOK TextInPlace WaitsForClose
PROPERTIES ImplementsMessageRead WholeIsRead
CHECK_DEADLOCK FALSE
