SPECIFICATION FairSpec
CONSTANTS
  Full = Full
  Tail = Tail
  Small = Small
  NoImage = NoImage
  StationCount = 1
  Images <- TailAndSmall
  PacketCount <- Counts
  MaxPacketCount = 3
  BitsPerByte = 2
  MaxDelay = 1
INVARIANT BitmapTellsFlash
INVARIANT IInv
PROPERTY NeverOverwritten
PROPERTY Installs
PROPERTY UploadEnds
PROPERTY DoneWhenAllThere
