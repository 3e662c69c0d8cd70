SPECIFICATION FairSpec
CONSTANT Scenarios <- SafetyScenarios
INVARIANT TypeOK
INVARIANT AgreesWithGrammar
INVARIANT ErrorsAreNoticedAtOnce
INVARIANT StackMirrorsBrackets
INVARIANT RecoveryKeepsWhatWasRead
INVARIANT PositionIsThatOfTheToken
INVARIANT ReportIsSound
PROPERTY EveryCallEnds
PROPERTY ImplementsAutomaton
