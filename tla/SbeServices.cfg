SPECIFICATION Spec
CONSTANTS
    NoChip = NoChip
    Nothing = Nothing
    Dirs = {d1, d2}
    MaxPolls = 2
    Chips = {proc, ocmb}
    Ocmbs = {ocmb}
    Primary = proc
    Populations = {{proc}, {ocmb}}
    Callers = {op1}
    Calling <- MCCalling
    Others = {op1}
    Collectors = {dumper, second}
    Asked <- MCAsked
    Anywhere = dumper
    Path = d1
    Modes = {"AUTOBOOT"}
    Types = {"NORMAL", "MPIPL", "POWEROFF"}
INVARIANT TypeOK
INVARIANT NothingLeftBehind
INVARIANT DumpReturned
INVARIANT MarkedWhenDone
PROPERTY NoSecondOcmbDump
