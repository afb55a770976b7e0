SPECIFICATION Spec
CONSTANTS
  Groups <- MCGroups
  Truncated <- MCTruncated
  Keys = {k}
  Types = {"INT32", "STRING"}
  Values = {v1, v2}
  MaxCalls = 4
  MaxCrashes = 1
  Null = Null
PROPERTY ConnectionIsOpen
CHECK_DEADLOCK FALSE
