\* Windows of three steps, limits that either kind of count can reach first.
\* A closed connection is the end of this specification.
CONSTANTS
    Sizes = {0, 1, 3}
    Window = 3
    MaxBytes = 5
    MaxFrames = 4
SPECIFICATION SWSpec
CHECK_DEADLOCK FALSE
INVARIANTS
    BurstBounded
PROPERTIES
    RefusedOnlyWhenBusy
