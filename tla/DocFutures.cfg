SPECIFICATION AllSpec
CONSTANTS
  s1 = s1
  s2 = s2
  r1 = r1
  r2 = r2
  r3 = r3
  k1 = k1
  k2 = k2
  Sessions <- TwoSessions
  Reads <- ThreeReads
  Owner <- TwoOwners
  Keys = {k1, k2}
  KeyOf <- RepeatedKey
  MAX_CONCURRENT_READS = 1
  Threads = {"main", "t1", "t2"}
  Main = "main"
  MaxCalls = 2
INVARIANTS
  TornOnlyIfSpoiled
  RendersItsOwn
  ViewsAccounted
PROPERTIES
  AwaitReturns
  KeepsPromise
  RendersReturn
