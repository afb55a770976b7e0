SPECIFICATION FairSpec
CONSTANTS
  c1 = c1
  c2 = c2
  Clients = {c1, c2}
  MsgLen = 2
  Messages <- TwoAndOne
  MaxGarbage = 2
  MessageLimit = 1
  RecvBuffer = 2
  ReplyBuffer = 1
  MaxFds = 2
  Outside = {"TERM"}
PROPERTY Consumed
