\* Two contexts on a disk of 15 sectors of four bytes or three entries.
SPECIFICATION Spec
CONSTANTS
  Contexts = {c1, c2}
  SectorSize = 4
  EntriesPerSector = 3
  FatPerSector = 2
  SectorsPerCluster = 2
  FatStart = 1
  RootStart = 5
  RootSectors = 2
  DataStart = 7
  Fat <- MCFat
  Entries <- MCEntries
  Directories = {0, 3}
  Names <- MCNames
  Paths <- MCPaths
  Amounts = {1, 3, 4, 7}
INVARIANT ErrorsAreReported
