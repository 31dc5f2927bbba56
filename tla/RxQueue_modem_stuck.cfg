SPECIFICATION FairSpec
CONSTANTS
  BufferSize = 4
  MaxQueue = 3
  CounterMod = 3
  Modem = TRUE
  Lengths = {1}
  MaxPackets = 2
  TransmitCanFail = TRUE
  MaxOverrun = 0
PROPERTY QueuedIsHandled
