SPECIFICATION Spec
CONSTANTS
    a1 = a1
    a2 = a2
    p1 = p1
    p2 = p2
    p3 = p3
    Accounts = {a1, a2}
    NoAccount = NoAccount
    NoObservation = NoObservation
    NoFile = NoFile
    Garbage = Garbage
    Foreign = Foreign
    LocalBackoff = 1
    MaxBackoff = 2
    Processes = {p1}
    NoProcess = NoProcess
    Requests <- ForcedRequest
    ReportedAccounts = {a1}
    RetryHints = {0}
    InitialFiles = {Foreign}
    Faults = {"read"}
    MaxLaunches = 1
    MaxClock = 1
PROPERTY ForeignIsKept
