SPECIFICATION Spec
CONSTANTS
  Full = Full
  Tail = Tail
  Small = Small
  NoImage = NoImage
  StationCount = 1
  Images <- OnlyTail
  PacketCount <- Counts
  MaxPacketCount = 3
  BitsPerByte = 2
  MaxDelay = 0
PROPERTY SendsUntilComplete
