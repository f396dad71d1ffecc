\* Tags and filters of up to two characters.
CONSTANTS
    MaxText = 2
    MaxFilter = 2
SPECIFICATION SearchSpec
INVARIANTS
    TagSelectsItself
CHECK_DEADLOCK FALSE
