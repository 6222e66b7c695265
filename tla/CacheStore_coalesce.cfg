SPECIFICATION Spec
CONSTANTS
    a1 = a1
    a2 = a2
    p1 = p1
    p2 = p2
    p3 = p3
    Accounts = {a1, a2}
    NoAccount = NoAccount
    NoObservation = NoObservation
    NoFile = NoFile
    Garbage = Garbage
    Foreign = Foreign
    LocalBackoff = 1
    MaxBackoff = 2
    Processes = {p1, p2, p3}
    NoProcess = NoProcess
    Requests <- CoalescingRequests
    ReportedAccounts = {a1}
    RetryHints = {0}
    InitialFiles = {NoFile, Garbage}
    Faults = {}
    MaxLaunches = 3
    MaxClock = 3
SYMMETRY ProcessSymmetry
INVARIANT ViewIsCurrent
INVARIANT SingleFlight
INVARIANT RefreshIsNewer
PROPERTY NoNeedlessFetch
