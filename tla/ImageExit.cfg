SPECIFICATION StoreSpec
CONSTANTS
  Cmds = {c1, c2}
  Names = {n1}
  Registry <- MCRegistry
  Manifests <- MCManifests
  MaxEdits = 0
  Absent = Absent
  Broken = Broken
INVARIANTS EphemeralRemovedAtExit
CHECK_DEADLOCK FALSE
