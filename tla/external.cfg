SPECIFICATION FairProcessSpec
CONSTANTS
  MaxLines = 4
  PipeSize = 2
  QueueSize = 2
  ProcessScenarios <- AllScenarios
INVARIANTS NoLineLost CleanUpIsSafe
PROPERTIES DownloadsKept NobodyHangs
CHECK_DEADLOCK FALSE
