SPECIFICATION Spec
CONSTANTS
    a1 = a1
    a2 = a2
    p1 = p1
    p2 = p2
    p3 = p3
    Accounts = {a1, a2}
    NoAccount = NoAccount
    NoObservation = NoObservation
    NoFile = NoFile
    Garbage = Garbage
    Foreign = Foreign
    LocalBackoff = 1
    MaxBackoff = 2
    Processes = {p1, p2}
    NoProcess = NoProcess
    Requests <- AllPaths
    ReportedAccounts = {a1, NoAccount}
    RetryHints = {0, 3}
    InitialFiles = {NoFile, Foreign}
    Faults = {}
    MaxLaunches = 3
    MaxClock = 2
SYMMETRY ProcessSymmetry
INVARIANT TypeOK
INVARIANT AnswerMatchesAccount
INVARIANT RevokedIsNotServed
INVARIANT BackoffBounded
PROPERTY ForeignIsKept
PROPERTY RevocationIsSticky
