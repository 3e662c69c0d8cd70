SPECIFICATION Spec
CONSTANT Scenarios <- LineScenarios
INVARIANT ProblemsAreOnLinesOfTheInput
