SPECIFICATION Spec
CONSTANTS
    Slids <- MCSlids
    Severities <- MCSeverities
    MaxPackages = 3
INVARIANT TypeOK
INVARIANT FilesHoldResponse
INVARIANT HighestSeverity
PROPERTY ImplementsReport
PROPERTY NoFileOutlives
PROPERTY ParserEnds
