\* Two clients, three triggers, resets at any time; the FIFO is full with one chunk,
\* so that a capture overflows when the DMA falls behind by more than the converter.
CONSTANTS
  c1 = c1
  c2 = c2
  Client = {c1, c2}
  MaxTrig = 3
  NumChunk = 2
  SentChunk = 2
  LenChunk = 3
  FifoDepth = 1
  None = None
SPECIFICATION FairSpec
INVARIANTS InTimeCaptureIsSent
PROPERTIES EveryTriggerServed EngineFreed
