CONSTANTS
  Address = {"alice", "bob"}
  Lower <- Lowercase
  MsgId = {1, 2}
  Client = {c1, c2}
  Envelope <- OneRecipient
  PageLimit = 1
  Offsets = {0}
  MaxTime = 1
  NoMsg = NoMsg
SYMMETRY ClientSymmetry
SPECIFICATION Spec
INVARIANTS ReplyForest InboxCountsAgree RequestsCurrent GotOnlyVisible
PROPERTIES ReadsAreOwned ImplementsMailbox LastReadMonotone
CHECK_DEADLOCK FALSE
