\* The GPS channel with a pulse of three clocks, seconds of two bits, counters
\* that wrap at 8 and 5.
CONSTANTS
  myWidth = 3
  Word = 8
  NumBits = 2
  OffWord = 5
  MyEvent = "latch"
  NoFrame = NoFrame
SPECIFICATION FairSaSpec
INVARIANTS PulseFollowsEvent SecondsAsSent StampOfOneSecond
PROPERTY PulseEndsForGood
