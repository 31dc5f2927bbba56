SPECIFICATION FairSpec
CONSTANTS
  BufferSize = 4
  MaxQueue = 2
  CounterMod = 3
  Modem = FALSE
  Lengths = {0, 1, 2, 4}
  MaxPackets = 5
  TransmitCanFail = TRUE
  MaxOverrun = 1
INVARIANT IInv
INVARIANT MessageIntact
INVARIANT CountsUnread
PROPERTY RefinesFifo
PROPERTY QueuedIsHandled
PROPERTY NeverWedged
