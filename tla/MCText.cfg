SPECIFICATION Spec
CONSTANTS
    Sources <- MCSources
    KeyOrder <- MCKeyOrder
    IndentSize = 2
    MaxCalls = 2
    MaxUnits = 2
    MaxPieces = 3
INVARIANT EncodeIsReadBack
INVARIANT DecodeIsExact
INVARIANT WideComesBack
INVARIANT PathReadsItself
INVARIANT NumbersAreRead
INVARIANT OutputIsTheValue
INVARIANT IndentationIsDepth
CHECK_DEADLOCK FALSE
