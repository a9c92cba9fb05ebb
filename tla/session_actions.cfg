SPECIFICATION Spec
CONSTANTS
  Lines <- MCOneLine
  Sources <- MCSources
  Main = "main"
  MaxReplyLines = 1
  Users <- MCUsers
  Job = "job"
  Nobody = "nobody"
  Duties <- MCAllDuties
  MaxFrames = 2
  MaxBacklog = 0
  MaxEntries = 3
INVARIANTS RepliesMatch InstalledIsSet
CHECK_DEADLOCK FALSE
