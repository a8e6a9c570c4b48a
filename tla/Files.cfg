CONSTANTS
  Address = {"alice", "ALICE", "bob"}
  Lower <- Lowercase
  MsgId = {1}
  Client = {c1}
  Envelope <- ToAndCc
  PageLimit = 1
  Offsets = {0}
  MaxTime = 2
  NoMsg = NoMsg
  FileId = {f1, f2}
  Size = {1}
  Grants <- NobodyOrBob
  FileQuota = 2
  TotalLimit = 3
  FileTTL = 1
  Download = {d1}
  NoFile = NoFile
SPECIFICATION FilesFairSpec
INVARIANTS HalvesTogether RecipientsMayDownload SnapshotsHonest
PROPERTIES ExpiredFilesGo
CHECK_DEADLOCK FALSE
