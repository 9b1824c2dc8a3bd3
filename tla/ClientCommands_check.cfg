\* Two words of skip buffer, lengths up to eight words; a behaviour ends when
\* the messages are used up or the handler has ended.
CONSTANTS
  RxMax = 3
  SkipBuf = 2
  Message <- MCMessage
  MaxMsgs = 3
SPECIFICATION FairSpec
CHECK_DEADLOCK FALSE
INVARIANTS FramingKept SkipStaysInBuffer RegistersAsCommanded
PROPERTIES EveryMessageHandled
