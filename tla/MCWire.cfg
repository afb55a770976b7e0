SPECIFICATION Spec
CONSTANTS
  Ids = {i1, i2}
  Null = Null
  MaxParams = 4096
  Length <- MCLength
  Labels <- MCLabels
  GroupData <- MCGroupData
  Slots <- MCSlots
  Installed <- MCInstalled
  Calls <- MCCalls
INVARIANT EndsForCause
PROPERTIES ImplementsService
SYMMETRY Symmetry
CHECK_DEADLOCK FALSE
