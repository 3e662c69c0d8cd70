SPECIFICATION Spec
CONSTANTS
    Width = 4
    Precision = 2
    Characters <- MCCharacters
INVARIANT CompareIsAnOrder
INVARIANT DiffIsExact
INVARIANT MergeUnites
INVARIANT TraverseVisitsInOrder
INVARIANT MapLosesOnlyWhatItPassed
INVARIANT CoercionKeepsItsPromise
INVARIANT CoerceMergeFavoursTheFirst
CHECK_DEADLOCK FALSE
