SPECIFICATION FairSpec
CONSTANTS
  Lines <- MCOneLine
  Sources <- MCSources
  Main = "main"
  MaxReplyLines = 1
  Users <- MCUsers
  Job = "job"
  Nobody = "nobody"
  Duties <- MCControlDuties
  MaxFrames = 2
  MaxBacklog = 2
  MaxEntries = 3
INVARIANTS TypeOK ModesAgree SetBeforeRunning
PROPERTIES StoppedAnswers StopIsShown JobEnds
