SPECIFICATION Spec
CONSTANTS
    Names <- MCNames
    RootName = "main"
    Builtin <- MCBuiltin
    TypeNames <- MCTypeNames
    Dirs <- MCDirs
    Here = "here"
    SearchDirs <- MCSearchDirs
    Worlds <- MCWorlds
    Nil = Nil
INVARIANTS
    TypeOK
    ProcessedOnce
    AfterItsImports
    OwnScope
    NamesMeanTheirTypes
    AliasesResolve
    OnlyBrokenWorldsAbort
PROPERTIES
    Ends
