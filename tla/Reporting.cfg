SPECIFICATION Spec
CONSTANTS
    Answers <- MCAnswers
    Commands <- MCCommands
    ObservedAt <- Hour
    Clocks <- MCClocks
CHECK_DEADLOCK FALSE
INVARIANT TypeOK
INVARIANT ScalarMatchesReport
INVARIANT GapsAreMarked
INVARIANT SuppliedIsShown
PROPERTY PaceIsStable
