SPECIFICATION FSpec
CONSTANTS
    Alphabet = {a, b}
    MaxLength = 3
INVARIANTS
    RowsAreDistances
CHECK_DEADLOCK FALSE
