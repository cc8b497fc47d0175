SPECIFICATION Spec
CONSTANTS
  Node = {n1, n2, n3}
  Nil = Nil
  NRoots = 2
  NFields = 1
  RunInterval = 1
  MaxObjects = 2
  HostCalls = {}
INVARIANTS TypeOK ListsSound NoCorruptionPanic TriColour NoDangling
INVARIANTS OutOfMemoryOnlyWhenFull ExitFreesAll ExactInv
PROPERTIES CollectionExact NeverFreesLive KeepsPromise
SYMMETRY NodeSymmetry
