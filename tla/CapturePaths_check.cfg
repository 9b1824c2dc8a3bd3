\* Two built channels and one that is not; bursts longer than the stream FIFO, so
\* that back-pressure and overflow both happen.
CONSTANTS
  NumChannel = 3
  Built = {0, 1}
  Captured = 2
  Groups = 3
  Depth = 2
  MaxTrig = 3
  Junk = Junk
  CAPTURE_CLOCKS = 3
  TURN_CLOCKS = 4
  NUM_BURSTS = 2
  FifoDepth = 2
SPECIFICATION FairPathsSpec
INVARIANTS MessageStartsWithAcquisition EnginesWaitForDaemon InSequence OnlyFinalIsLast LastMeansComplete TakenByBoth
PROPERTY ReadyAgain
