SPECIFICATION Spec
CONSTANTS
  Names <- MCNames
  Up <- MCUp
  Here <- MCHere
  VPaths <- MCVPaths
  HPaths <- MCHPaths
  Synthetic <- MCSynthetic
  Device <- MCDevice
  Tmp <- MCTmp
  TmpHost <- MCTmpHost
  InitialHosts <- MCInitialHosts
  MountPoints <- RootAndBelow
  MountHosts <- VolumesAndSub
  MaxMounts = 2
PROPERTIES SystemDirectoriesStay
CHECK_DEADLOCK FALSE
