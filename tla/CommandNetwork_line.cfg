SPECIFICATION FairSpec
CONSTANTS
  StationCount = 3
  Links <- Line
  Relays <- ForAllOthers
  permanentArraySize = 3
  relayListenPeriod = 3
  relayDelay = 1
  MaxChannelWait = 2
  MaxInbox = 2
  Destinations = {3}
  MaxCommands = 1
  PingIDs <- PingApart
CHECK_DEADLOCK FALSE
INVARIANT ExecutedOnce
INVARIANT IInv
INVARIANT AnswerMeansDone
INVARIANT SendsOnce
PROPERTY GivesUpWithReason
PROPERTY FallsSilent
