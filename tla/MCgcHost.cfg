SPECIFICATION FairSpec
CONSTANTS
  Node = {n1, n2}
  Nil = Nil
  NRoots = 2
  NFields = 1
  RunInterval = 1
  MaxObjects = 2
  HostCalls = {"manage", "unmanage", "deallocate"}
INVARIANT IInv
PROPERTIES CollectionEnds
