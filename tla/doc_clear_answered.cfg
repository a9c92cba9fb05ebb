SPECIFICATION Spec
CONSTANTS
  Lines <- MCLines
  Sources <- MCSources
  Main = "main"
  MaxReplyLines = 1
  ClientCommands <- MCCommands
  MaxPipeline = 1
  MaxUnread = 0
  MaxEntries = 3
PROPERTIES ClearIsAnswered
