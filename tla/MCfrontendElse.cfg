SPECIFICATION Spec
CONSTANTS
    NoLowercase <- MCNoLowercase
    StartsWithUnderscore <- MCStartsWithUnderscore
    Inputs <- MCElse
INVARIANT ElseOnItsOwnLine
CHECK_DEADLOCK FALSE
