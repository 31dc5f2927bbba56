SPECIFICATION Spec
CONSTANTS
  RecordsPerSector = 2
  HeaderSectors = 3
  DataSector = 5
  DataSectors = 6
  Lengths = {3}
  MaxMessages = 6
  MaxRestarts = 1
  CanSearch = FALSE
PROPERTY PreviousBlockWasActive
