SPECIFICATION Spec
CONSTANTS
    Starts <- MCStarts
    NewTypes = {"point"}
    Others <- MCOthers
    Names = {"a", "k"}
    Samples <- MCSamples
    MemberTypes = {"int", "colour", "boxed"}
    SubTypes = {"point"}
    Versions = {2}
    Discriminators <- MCDiscriminators
    IntegerLimit = 5
    MaxMembers = 2
    MaxCalls = 2
INVARIANT ErrorsNameTheCulprit
INVARIANT ExtraKeysAreUnread
INVARIANT WrittenIsReadBack
CHECK_DEADLOCK FALSE
