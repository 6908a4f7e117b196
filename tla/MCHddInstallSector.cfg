SPECIFICATION Spec
CONSTANTS
  MbrBlocks = 2
  MaxTroubles = 2
INVARIANT InstalledBoots
