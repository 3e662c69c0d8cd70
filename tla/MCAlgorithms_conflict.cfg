SPECIFICATION Spec
CONSTANTS
    Width = 4
    Precision = 2
    Characters <- MCCharacters
INVARIANT ConflictsGoToTheirRule
CHECK_DEADLOCK FALSE
