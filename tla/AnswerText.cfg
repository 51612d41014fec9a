SPECIFICATION Spec
CONSTANTS
    MAX_HTTP_LEN = 6
INVARIANTS
    InsideUnlessFull
    BodyHandedOver
CHECK_DEADLOCK FALSE
