SPECIFICATION BuilderSpec
CONSTANTS
    Types <- MCTypes
    Adapters <- MCAdapters
    Managed <- MCManaged
    TypeOf <- MCTypeOf
    Strict <- MCStrict
    Coercing <- MCCoercing
    None = "none"
    MaxNodes = 5
    MaxRegistrations = 2
    MaxFailures = 1
INVARIANT CheckedFormatsStayComplete
CHECK_DEADLOCK FALSE
