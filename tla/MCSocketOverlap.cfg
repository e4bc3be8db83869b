SPECIFICATION SafeSpec

CONSTANTS
    Proc = {p1, p2, p3}
    Nothing = Nothing
    RegularFile = RegularFile
    TcpProc = {p1, p2}
    Check = {c1}
    MaxBacklog = 1

INVARIANT
    NotTakenAway
