SPECIFICATION Spec
CONSTANTS
    p0 = p0
    p1 = p1
    fc0 = fc0
    c0 = c0
    c1 = c1
    io0 = io0
    kA = kA
    kB = kB
    Root = Root
    Resolved = Resolved
    NoSnapshot = NoSnapshot
    Primary = p0
    Procs = {p0, p1}
    Units = {io0}
    FCs = {}
    Cores = {}
    UnusedIohs = {io0}
    Clocks = {kA}
    FcOf <- MCFcOf
    ClockPos <- MCClockPos
    MaxRecords = 1
    MayBreak = {kA}
    MayDeconfig = {}
INVARIANT GenesisComplete
INVARIANT QuiescedOnReboot
PROPERTY GenesisCommits
PROPERTY MpiplPreserves
