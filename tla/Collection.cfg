SPECIFICATION FairSpec
CONSTANTS
    Collected = {"codex", "cursor"}
    Deadline = 1
    MaxClock = 1
    MaxAges = {0}
INVARIANTS
    TypeOK
    ReportIsCurrent
    NoProviderCostsAnother
    ExitCountsEveryProvider
    OnlyStaysLocal
PROPERTIES
    InterruptReportsNothing
    RunEnds
CHECK_DEADLOCK FALSE
