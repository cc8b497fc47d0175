SPECIFICATION Spec
CONSTANTS
  Fn <- Functions
  source <- Sources
  Obj = {o1, o2}
  Nil = Nil
  Unset = Unset
  NGlobals = 2
  RefGlobals = {0}
  CollectFrom = 1
  MaxFrame = 2
  MaxCalls = 2
  MaxData = 2
INVARIANTS TypeOK FramesTile HeldAlive
PROPERTIES ImplementsCallStack
SYMMETRY ObjSymmetry
