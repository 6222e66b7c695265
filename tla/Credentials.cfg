SPECIFICATION Spec
CONSTANTS
    p1 = p1
    p2 = p2
    a = a
    b = b
    Sources <- AllSources
    Requests = {p1, p2}
    Files = {1, 2}
    Logins = {a, b}
    NoFile = NoFile
    Owner <- MCOwner
    FirstFile = 1
    MaxChanges = 2
SYMMETRY Symmetry
CHECK_DEADLOCK FALSE
INVARIANT TypeOK
INVARIANT ReadIsWhole
INVARIANT AnswerIsCurrent
