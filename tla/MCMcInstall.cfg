SPECIFICATION Spec
CONSTANTS
  Consoles <- MCConsoles
  Cards <- MCCards
  Package <- MCPackage
  NoFile = NoFile
  MaxTroubles = 1
INVARIANTS TypeOK ListCovered ServesConsoles NoFileLost CleanedWithoutLinks LinksRecorded DowngradeExact
