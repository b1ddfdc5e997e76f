SPECIFICATION Spec
CONSTANTS
    Units = {primary, core}
    Primary = primary
    Ipl = ipl
    Deconfigs = {d1, d2}
    Logs <- MCLogs
    Nothing = Nothing
INVARIANT TypeOK
INVARIANT LostByOverlapOnly
PROPERTY PresentStays
