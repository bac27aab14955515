SPECIFICATION Spec
CONSTANTS
  s1 = s1
  s2 = s2
  r1 = r1
  r2 = r2
  r3 = r3
  k1 = k1
  k2 = k2
  Sessions <- OneSession
  Reads <- ThreeReads
  Owner <- OneOwner
  Keys = {k1, k2}
  KeyOf <- RepeatedKey
  MAX_CONCURRENT_READS = 2
INVARIANT WholeText
