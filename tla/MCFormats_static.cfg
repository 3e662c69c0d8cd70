SPECIFICATION Spec
CONSTANTS
    Types <- MCTypes
    Adapters <- MCAdapters
    Managed <- MCManaged
    TypeOf <- MCTypeOf
    Strict <- MCStrict
    Coercing <- MCCoercing
    None = "none"
    MaxNodes = 4
    MaxRegistrations = 1
    MaxFailures = 0
PROPERTY NobodyChangesTheRealOnes
CHECK_DEADLOCK FALSE
