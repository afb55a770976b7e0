SPECIFICATION Spec
CONSTANTS
  Null = Null
  LayerOrder <- MCLayerOrder
  LayerConf <- MCLayerConf
  Groups = {"g"}
  Names = {"n"}
  Uids = {0, 1}
  Labels = {"_", "App"}
  Values <- MCValues
  Medium <- MCMedium
  Lines <- MCLines
  Converted <- MCConvertedTexts
  Users = {0, 1}
  ClientLabel <- MCClientLabel
  DaemonUid = 0
  smack <- MCSmack
INVARIANTS TypeOK ReportsWhatWasDone
