SPECIFICATION Spec
CONSTANTS
  Ids = {i1, i2}
  Null = Null
  MaxParams = 4
  Length <- MCLength
  Labels <- MCLabels
  GroupData <- MCGroupData
  Slots <- MCManySlots
  Installed <- MCManyInstalled
  Calls <- MCCalls
INVARIANT DaemonSurvives
SYMMETRY Symmetry
CHECK_DEADLOCK FALSE
