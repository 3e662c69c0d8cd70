SPECIFICATION Spec
CONSTANTS
    Texts <- LoneTexts
    MaxIdle = 1
INVARIANT NoCurrentAfterFalse
