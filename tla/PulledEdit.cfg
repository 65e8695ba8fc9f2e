SPECIFICATION ConflictSpec
CONSTANTS
    Writer = {1, 2}
    Clock = {1, 2}
    MaxChanges = 3
INVARIANTS
    SeenIsNoConflict
CHECK_DEADLOCK FALSE
