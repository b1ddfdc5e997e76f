SPECIFICATION FairSpec
CONSTANTS
    MaxIstep = 21
    Tables <- MCTables
    Namesakes <- MCNamesakes
    Ranges <- MCRanges
    MajorArgs <- MCMajorArgs
    StepArgs <- MCStepArgs
    NoJob = NoJob
INVARIANT TypeOK
INVARIANT NoFailureLost
INVARIANT AutobootConfined
PROPERTY ImplementsPlan
PROPERTY RequestReturns
