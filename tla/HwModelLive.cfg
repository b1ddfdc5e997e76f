SPECIFICATION FairSpec
CONSTANTS
    p0 = p0
    p1 = p1
    fc0 = fc0
    c0 = c0
    c1 = c1
    io0 = io0
    kA = kA
    kB = kB
    Root = Root
    Resolved = Resolved
    NoSnapshot = NoSnapshot
    Primary = p0
    Procs = {p0}
    Units = {fc0, c0}
    FCs = {fc0}
    Cores = {c0}
    UnusedIohs = {}
    Clocks = {}
    FcOf <- MCFcOf
    ClockPos <- MCClockPos
    MaxRecords = 1
    MayBreak = {c0, Root}
    MayDeconfig = {}
PROPERTY UpdateTerminates
