SPECIFICATION Spec
CONSTANTS
    MaxIstep = 2
    Tables <- MCSmallTables
    Namesakes <- MCSmallNamesakes
    Ranges <- MCSmallRanges
    MajorArgs <- MCSmallMajorArgs
    StepArgs <- MCSmallStepArgs
    NoJob = NoJob
INVARIANT MpiplOnlyInAutoboot
