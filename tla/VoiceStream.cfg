SPECIFICATION FairSpec
CONSTANTS
  Payload <- Datagrams
  Sequence <- Sequences
  TargetDepth = 2
  MaxDepth = 3
  None = None
  Batch = 2
  MaxFrames = 6
  MaxSessions = 2
  MaxFailures = 1
INVARIANTS PlaysTheRightFrame BufferIsSound
PROPERTIES CapIsSlack PreRollEnds
