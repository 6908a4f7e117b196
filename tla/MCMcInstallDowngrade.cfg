SPECIFICATION Spec
CONSTANTS
  Consoles <- MCConsoles
  Cards <- MCCards
  Package <- MCPackage
  NoFile = NoFile
  MaxTroubles = 0
INVARIANTS OwnFolderKept
CHECK_DEADLOCK FALSE
