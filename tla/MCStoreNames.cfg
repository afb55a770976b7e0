SPECIFICATION Spec
CONSTANTS
  LayerOrder <- MCLayerOrder
  LayerConf <- MCLayerConf
  Groups = {"g"}
  Names = {"n"}
  Uids = {0, 1}
  Labels = {"_", "App"}
  Values <- MCValues
  Medium <- MCMedium
  Null = Null
  Clients <- MCClients
  ClientUid <- MCClientUid
  ClientLabel <- MCClientLabel
  RuleFiles <- MCRuleFiles
  SmackMounted = TRUE
  DaemonUid = 0
  Installed <- MCInstalled
INVARIANTS ListNamesShowsReadable
