SPECIFICATION Spec
CONSTANTS
  Fn <- Functions
  source <- Sources
  Obj = {o1, o2}
  Nil = Nil
  Unset = Unset
  NGlobals = 2
  RefGlobals = {0, 1}
  CollectFrom = 0
  MaxFrame = 2
  MaxCalls = 2
  MaxData = 2
INVARIANT GlobalsAlive
