\* Every length may be less than, equal to and more than the reserve, the room
\* there is at first and extra_buf; MaxPut is three times what fits at first.
CONSTANTS
    PREPEND_SIZE = 1
    INITIAL_SIZE = 2
    EXTRA_SIZE = 2
    MaxLen = 3
    MaxPut = 6

SPECIFICATION Spec
CHECK_DEADLOCK FALSE
INVARIANTS
    TypeOK
    MoveIsSafe
    BoundedStorage
PROPERTIES
    RefinesQueue
