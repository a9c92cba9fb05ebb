SPECIFICATION FairSpec
CONSTANTS
  Lines <- MCLines
  Sources <- MCSources
  Main = "main"
  MaxReplyLines = 2
  ClientCommands <- MCCommands
  MaxPipeline = 2
  MaxUnread = 0
  MaxEntries = 2
INVARIANTS TypeOK
PROPERTIES EventsTellTheMode NoOrphanWait IsADebugger
