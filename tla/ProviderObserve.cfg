SPECIFICATION FairSpec
INVARIANTS TypeOK RejectionRevokes VerdictHasCause EvidenceTellsItsGaps WrongAccountLearnsNothing ExitTellsOutcome
PROPERTIES CancellationWins CommandEnds
CHECK_DEADLOCK FALSE
