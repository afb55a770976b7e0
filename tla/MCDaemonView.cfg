SPECIFICATION Spec
CONSTANTS
  LayerOrder <- MCLayerOrder
  LayerConf <- MCLayerConf
  Groups = {"g"}
  Names = {"n", ""}
  Uids = {0}
  Labels = {"_"}
  Values <- WithString
  Medium <- MCMedium
  Null = Null
  Conns = {c1, c2}
  Fds = {f1, f2}
  ConnUid <- MCConnUid
  ConnLabel <- MCConnLabel
  DaemonUid = 0
  Rules <- SmackDisabled
  MsgIds = {1, 2}
  Patient = FALSE
  MaxRegistrations = 2
INVARIANTS ClientViewAgrees ChangedIsWanted
SYMMETRY Symmetry
