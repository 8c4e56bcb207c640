SPECIFICATION Spec
CONSTANTS
  GptPrimary = 1
  GptEntries = 2
  PartTable = 3
  EspStart = 4
  EspSectors = 23
  PoolStart = 27
  Reserved = 1
  FatSectors = 4
  FatSpan = 8
  RootGap = 6
  ClusterSectors = 2
  SectorWords = 2
  Totals <- Sizes
  BootClusters <- Files
  MaxFaults = 2
  Sectors = 38
INVARIANTS
  TypeOK
  MetadataSurvives
  ChainLeadsToFile
  DirectorySurvives
  BackupOrNothing
