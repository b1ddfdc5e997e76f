SPECIFICATION FairSpec
CONSTANTS
    NoChip = NoChip
    Nothing = Nothing
    Dirs = {d1}
    MaxPolls = 2
    Chips = {proc, sec, ocmb}
    Ocmbs = {ocmb}
    Primary = proc
    Populations = {{proc}, {proc, sec}, {ocmb}}
    Callers = {op1, op2}
    Calling <- MCCalling
    Others = {op1}
    Collectors = {}
    Asked <- MCAsked
    Anywhere = dumper
    Path = d1
    Modes = {"AUTOBOOT", "CRONUS"}
    Types = {"NORMAL", "MPIPL", "POWEROFF"}
 
INVARIANT BootedHasComeUp
INVARIANT StartedIsUsable
INVARIANT SecondariesToCheck
PROPERTY BootEnds
