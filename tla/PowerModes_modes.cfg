SPECIFICATION FairSpec
CONSTANTS
  Word = 8
  Emergency = 1
  Threshold = 3
  Hysteresis = 1
  Voltages = {0, 1, 3, 5}
  Ticks <- SomeTicks
  PingLimit = 4
  WdtPeriod = 4
  MaxCommands = 1
INVARIANT IInv
PROPERTY WatchdogSparesHeard
PROPERTY LonelyRestarts
PROPERTY Recovers
PROPERTY GoesToSleep
