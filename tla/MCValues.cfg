SPECIFICATION Spec
CONSTANTS
    Variables = {"a", "b"}
    Handles = {"g", "h"}
    Keys = {"k", "m"}
    Fresh <- MCFresh
    SizeMax = 7
    Paths <- MCPaths
    MaxNodes = 4
VIEW Contents
INVARIANT ValuesStayWellFormed
PROPERTY MovesKeepEverything
PROPERTY FailuresChangeNothing
PROPERTY PathMakesWhatItFinds
CHECK_DEADLOCK FALSE
