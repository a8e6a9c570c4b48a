CONSTANTS
  Address = {"alice", "bob"}
  Lower <- Lowercase
  MsgId = {1}
  Client = {c1, c2}
  Envelope <- OneRecipient
  PageLimit = 1
  Offsets = {0}
  MaxTime = 0
  NoMsg = NoMsg
SPECIFICATION Spec
INVARIANTS MarkAllCountExact
CHECK_DEADLOCK FALSE
