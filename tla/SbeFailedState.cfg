SPECIFICATION Spec
CONSTANTS
    NoChip = NoChip
    Nothing = Nothing
    Dirs = {d1}
    MaxPolls = 2
    Chips = {proc}
    Ocmbs = {}
    Primary = proc
    Populations = {{proc}}
    Callers = {op1}
    Calling <- MCCalling
    Others = {}
    Collectors = {dumper}
    Asked <- MCAsked
    Anywhere = dumper
    Path = d1
    Modes = {}
    Types = {}
INVARIANT FailedMeansCollected
