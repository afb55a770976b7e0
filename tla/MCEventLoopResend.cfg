SPECIFICATION Spec
CONSTANTS
  c1 = c1
  c2 = c2
  Clients = {c1, c2}
  MsgLen = 2
  Messages <- TwoEach
  MaxGarbage = 3
  MessageLimit = 2
  RecvBuffer = 2
  ReplyBuffer = 1
  MaxFds = 2
  Outside = {"TERM", "RULES"}
PROPERTY GoodClientsStay
