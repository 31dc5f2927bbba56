SPECIFICATION Spec
CONSTANTS
  RecordsPerSector = 2
  HeaderSectors = 2
  DataSector = 6
  DataSectors = 2
  Lengths = {3, 5}
  MaxMessages = 9
  MaxRestarts = 3
  CanSearch = TRUE
INVARIANT IInv
INVARIANT WritesInRegion
INVARIANT FirstSectorClean
INVARIANT Durable
