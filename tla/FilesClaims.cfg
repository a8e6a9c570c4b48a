CONSTANTS
  Address = {"alice", "ALICE", "bob"}
  Lower <- Lowercase
  MsgId = {1}
  Client = {c1}
  Envelope <- ToAndCc
  PageLimit = 1
  Offsets = {0}
  MaxTime = 1
  NoMsg = NoMsg
  FileId = {f1, f2}
  Size = {1}
  Grants <- NobodyOrBob
  FileQuota = 1
  TotalLimit = 3
  FileTTL = 0
  Download = {d1}
  NoFile = NoFile

SPECIFICATION FilesSpec
INVARIANT QuotaHolds
PROPERTY SweepOnlyExpired
CHECK_DEADLOCK FALSE
