SPECIFICATION Spec
CONSTANTS
  Fn <- LiteralFunctions
  source <- LiteralSources
  Obj = {o1, o2}
  Nil = Nil
  Unset = Unset
  NGlobals = 1
  RefGlobals = {}
  CollectFrom = 0
  MaxFrame = 1
  MaxCalls = 2
  MaxData = 2
PROPERTY ImplementsCallStack
