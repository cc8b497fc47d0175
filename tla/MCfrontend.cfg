SPECIFICATION Spec
CONSTANTS
    NoLowercase <- MCNoLowercase
    StartsWithUnderscore <- MCStartsWithUnderscore
    Inputs <- MCInputs
INVARIANTS
    TypeOK
    RoundTrip
    PrecedenceRespected
    LinesSeparateStatements
PROPERTIES
    EveryItemConsumes
CHECK_DEADLOCK FALSE
