CONSTANTS
    Optional = {}
    MaxInjections = 2
SPECIFICATION EinjSpec
INVARIANT TypeAsAsked
CHECK_DEADLOCK FALSE
