SPECIFICATION AllSpec
CONSTANTS
  Names <- MCNames
  Up <- MCUp
  Here <- MCHere
  VPaths <- MCVPaths
  HPaths <- MCHPaths
  Synthetic <- MCSynthetic
  Device <- MCDevice
  Tmp <- MCTmp
  TmpHost <- MCTmpHost
  InitialHosts <- MCInitialHosts
  MountPoints <- RootAndBelow
  MountHosts <- VolumesAndSub
  MaxMounts = 2
  Contents <- FileContents
  Numbers <- Halves
  BufferLimit = 3
  MaxEdits = 2
  Stored <- FilesMade
  Trees <- MountTrees
  Sources <- Packable
  Targets <- ArchiveNames
  Dests <- ExtractedInto
  MaxCalls = 2
VIEW Standing
INVARIANTS AnswersAgree ReadsAsAsked
PROPERTIES MountsStay OnlyWritableHostChanges UnwritableUntouched RoundTrip
CHECK_DEADLOCK FALSE
