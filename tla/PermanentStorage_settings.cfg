SPECIFICATION Spec
CONSTANTS
  ListSize = 2
  TypeListSize = 1
  MaxId = 2
  Layout <- SomeVariables
  Single <- OneByte
  OldLayouts = {11, 12, 14}
  FirstSearched = 11
  Groups <- SomeGroups
  Chosen = {"other"}
  Default <- SomeDefault
  Used <- SomeUsed
  RecordSK <- FirstTypes
  NewIds = {0, 4, 200}
  InRange = {"default"}
  Garbage = Garbage
  MaxCommands = 2
  MaxEdits = 2
INVARIANT IInv
INVARIANT SettingsSurvive
INVARIANT StationIDKept
INVARIANT RamIsCurrent
INVARIANT RelaysForListed
