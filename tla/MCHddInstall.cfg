SPECIFICATION Spec
CONSTANTS
  MbrBlocks = 2
  MaxTroubles = 2
INVARIANTS TypeOK FirstInstallSafe InstalledIsWhole MountedRight BootsAsLeft
PROPERTY Ends
