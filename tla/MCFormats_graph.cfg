SPECIFICATION Spec
CONSTANTS
    Types <- MCTypes
    Adapters <- MCAdapters
    Managed <- MCManaged
    TypeOf <- MCTypeOf
    Strict <- MCStrict
    Coercing <- MCCoercing
    None = "none"
    MaxNodes = 5
    MaxRegistrations = 2
    MaxFailures = 1
INVARIANT TypeOK
INVARIANT LookupIsDepthFirst
INVARIANT NothingFoundIsDangling
INVARIANT CoerceFallsBackOnDefaults
PROPERTY FailureChangesNothing
CHECK_DEADLOCK FALSE
