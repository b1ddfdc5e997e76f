SPECIFICATION Spec
CONSTANTS
    NumClocks = 2
    Position <- MCPosition
    MayBreak = {1, 2}
INVARIANT TypeOK
INVARIANT SelectionSound
INVARIANT LostForCause
PROPERTY BlamedWhenAllFailed
