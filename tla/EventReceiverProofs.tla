------------------------ MODULE EventReceiverProofs -------------------------
(***************************************************************************)
(* The event channel's pulse, the latched seconds and what sadata reads of *)
(* them, for every width of the pulse, number of bits and size of the      *)
(* counters.                                                               *)
(***************************************************************************)
EXTENDS SaData, TLAPS

\* Where the registers are, seen from the events that are in flight: none, one,
\* or a new one on the clock before the pulse of the last one ends.  A second
\* event may be on its way through startDelay and delayCounter while a pulse
\* runs; it has to arrive before the end of the pulse.
Running(a) ==
  /\ startWidth
  /\ widthCounter = a - 3
  /\ hit => a <= myWidth
  /\ delayCounter = 1 => a >= 4 /\ a <= myWidth + 1

Waiting == ~startWidth /\ widthCounter \in {0, myWidth}

ChanInv ==
  /\ hit \in BOOLEAN /\ startWidth \in BOOLEAN /\ fouled \in BOOLEAN
  /\ delayCounter \in {0, 1}
  /\ startDelay = hit
  /\ hit => delayCounter = 0
  /\ \/ flight = {} /\ Waiting /\ ~hit /\ delayCounter = 0
     \/ flight = {1} /\ Waiting /\ hit
     \/ flight = {2} /\ Waiting /\ ~hit /\ delayCounter = 1
     \/ \E a \in 3 .. myWidth + 2 : flight = {a} /\ Running(a)
     \/ /\ flight = {1, myWidth + 2}
        /\ startWidth /\ widthCounter = myWidth - 1 /\ hit

PulseInv == fouled \in BOOLEAN /\ (~fouled => ChanInv)

\* A counter below its end does not wrap around.
LEMMA IncNoWrap == ASSUME NEW n \in 0 .. myWidth PROVE Inc(n) = n + 1
BY ChannelAssumption DEF Inc

LEMMA ChanStep ==
  ASSUME ChanInv, NEW mine \in BOOLEAN, ChanClock(mine), ~fouled'
  PROVE  ChanInv'
<1> USE ChannelAssumption
<1>1. /\ mine => ~hit /\ myWidth \notin flight
      /\ hit' = mine
      /\ fouled' = FALSE
  BY DEF ChanClock, Observe, ChanInv
<1>2. startDelay' = hit'
  BY <1>1 DEF ChanClock, StartDelay, ChanInv, myDelay
<1>3. /\ delayCounter' = (IF hit THEN 1 ELSE 0)
  BY IncNoWrap DEF ChanClock, DelayClock, Count, ChanInv, myDelay
<1>4. flight' = {age + 1 : age \in {a \in flight : a < myWidth + 2}}
                \union (IF Answered(mine) THEN {1} ELSE {})
  BY DEF ChanClock, Observe
<1>5. /\ delayCounter = 1 => startWidth'
      /\ startWidth /\ widthCounter # myWidth - 1 => startWidth'
      /\ delayCounter = 0 /\ ~startWidth => ~startWidth'
      /\ delayCounter = 0 /\ widthCounter = myWidth - 1 => ~startWidth'
      /\ startWidth' \in BOOLEAN
  <2>1. startWidth \in BOOLEAN
    BY DEF ChanInv
  <2>2. startWidth' = (delayCounter = 1 \/ (startWidth /\ widthCounter # myWidth - 1))
    BY DEF ChanClock, StartWidth, myDelay
  <2>3. delayCounter = 0 => delayCounter # 1
    OBVIOUS
  <2>4. CASE startWidth
    BY <2>2, <2>3, <2>4
  <2>5. CASE ~startWidth
    BY <2>2, <2>3, <2>5
  <2> QED
    BY <2>1, <2>4, <2>5
<1>6. /\ startWidth /\ widthCounter \in 0 .. myWidth
            => widthCounter' = widthCounter + 1
      /\ ~startWidth /\ widthCounter \in {0, myWidth} => widthCounter' = 0
  <2>1. widthCounter' = IF startWidth THEN Inc(widthCounter)
                        ELSE IF widthCounter >= myWidth THEN 0 ELSE widthCounter
    BY DEF ChanClock, WidthClock, Count
  <2>2. widthCounter \in 0 .. myWidth => Inc(widthCounter) = widthCounter + 1
    BY IncNoWrap
  <2>3. ASSUME ~startWidth, widthCounter \in {0, myWidth}
        PROVE  widthCounter' = 0
    <3>1. widthCounter' = IF widthCounter >= myWidth THEN 0 ELSE widthCounter
      BY <2>1, <2>3
    <3> QED
      BY <2>3, <3>1
  <2>4. ASSUME startWidth, widthCounter \in 0 .. myWidth
        PROVE  widthCounter' = widthCounter + 1
    <3>1. widthCounter' = Inc(widthCounter)
      BY <2>1, <2>4
    <3> QED
      BY <2>2, <2>4, <3>1
  <2> QED
    BY <2>3, <2>4
<1> DEFINE Rest == /\ hit' \in BOOLEAN /\ startWidth' \in BOOLEAN
                   /\ fouled' \in BOOLEAN
                   /\ delayCounter' \in {0, 1}
                   /\ startDelay' = hit'
                   /\ hit' => delayCounter' = 0
<1>7. Rest
  BY <1>1, <1>2, <1>3, <1>5 DEF ChanInv
<1>8. CASE flight = {} /\ Waiting /\ ~hit /\ delayCounter = 0
  <2>1. flight' = IF mine THEN {1} ELSE {}
    BY <1>4, <1>8 DEF Answered
  <2>2. ~startWidth' /\ widthCounter' = 0
    BY <1>5, <1>6, <1>8 DEF Waiting
  <2> QED
    BY <1>1, <1>3, <1>7, <1>8, <2>1, <2>2 DEF ChanInv, Waiting
<1>9. CASE flight = {1} /\ Waiting /\ hit
  <2>1. flight' = {2} /\ ~mine
    BY <1>1, <1>4, <1>9 DEF Answered
  <2>2. ~startWidth' /\ widthCounter' = 0
    BY <1>5, <1>6, <1>9 DEF Waiting, ChanInv
  <2> QED
    BY <1>1, <1>3, <1>7, <1>9, <2>1, <2>2 DEF ChanInv, Waiting
<1>10. CASE flight = {2} /\ Waiting /\ ~hit /\ delayCounter = 1
  <2>1. startWidth' /\ widthCounter' = 0 /\ delayCounter' = 0
    BY <1>3, <1>5, <1>6, <1>10 DEF Waiting
  <2>2. CASE Answered(mine)
    <3>1. mine /\ myWidth = 1
      BY <1>10, <2>2 DEF Answered
    <3>2. flight' = {1, myWidth + 2}
      BY <1>4, <1>10, <2>2, <3>1
    <3> QED
      BY <1>1, <1>7, <2>1, <3>1, <3>2 DEF ChanInv
  <2>3. CASE ~Answered(mine)
    <3>1. flight' = {3}
      BY <1>4, <1>10, <2>3
    <3>2. mine => myWidth >= 3
      BY <1>1, <1>10, <2>3 DEF Answered
    <3>3. Running(3)'
      BY <1>1, <2>1, <3>2 DEF Running
    <3> QED
      BY <1>7, <3>1, <3>3 DEF ChanInv
  <2> QED
    BY <2>2, <2>3
<1>11. ASSUME NEW a \in 3 .. myWidth + 2, flight = {a}, Running(a)
       PROVE  ChanInv'
  <2>1. CASE a = myWidth + 2
    <3>1. ~hit /\ delayCounter = 0
      BY <1>11, <2>1 DEF Running, ChanInv
    <3>2. flight' = IF mine THEN {1} ELSE {}
      BY <1>4, <1>11, <2>1 DEF Answered
    <3>3. ~startWidth' /\ widthCounter' = myWidth
      BY <1>5, <1>6, <1>11, <2>1, <3>1 DEF Running
    <3> QED
      BY <1>1, <1>3, <1>7, <3>1, <3>2, <3>3 DEF ChanInv, Waiting
  <2>2. CASE a < myWidth + 2
    <3>1. startWidth' /\ widthCounter' = a - 2
      BY <1>5, <1>6, <1>11, <2>2 DEF Running
    <3>2. CASE Answered(mine)
      <4>1. mine /\ a = myWidth + 1
        BY <1>11, <2>2, <3>2 DEF Answered
      <4>2. flight' = {1, myWidth + 2}
        BY <1>4, <1>11, <2>2, <3>2, <4>1
      <4> QED
        BY <1>1, <1>7, <3>1, <4>1, <4>2 DEF ChanInv
    <3>3. CASE ~Answered(mine)
      <4>1. flight' = {a + 1}
        BY <1>4, <1>11, <2>2, <3>3
      <4>2. mine => a + 1 <= myWidth
        BY <1>1, <1>11, <3>3 DEF Answered
      <4>3. delayCounter' = 1 => a <= myWidth
        BY <1>3, <1>11 DEF Running
      <4>4. Running(a + 1)'
        BY <1>1, <3>1, <4>2, <4>3 DEF Running
      <4> QED
        BY <1>7, <2>2, <4>1, <4>4 DEF ChanInv
    <3> QED
      BY <3>2, <3>3
  <2> QED
    BY <2>1, <2>2
<1>12. CASE /\ flight = {1, myWidth + 2}
            /\ startWidth /\ widthCounter = myWidth - 1 /\ hit
  <2>1. ~mine /\ delayCounter = 0
    BY <1>1, <1>12 DEF ChanInv
  <2>2. flight' = {2}
    BY <1>4, <1>12, <2>1 DEF Answered
  <2>3. ~startWidth' /\ widthCounter' = myWidth
    BY <1>5, <1>6, <1>12, <2>1
  <2> QED
    BY <1>1, <1>3, <1>7, <1>12, <2>1, <2>2, <2>3 DEF ChanInv, Waiting
<1> QED
  BY <1>8, <1>9, <1>10, <1>11, <1>12 DEF ChanInv

LEMMA ChanResetInv == ASSUME ChanReset PROVE PulseInv'
BY ChannelAssumption DEF ChanReset, PulseInv, ChanInv, Waiting

LEMMA PulseInvariant == EvSpec => []PulseInv
<1>1. EvInit => PulseInv
  BY ChannelAssumption DEF EvInit, ChanInit, PulseInv, ChanInv, Waiting
<1>2. ASSUME PulseInv, [EvNext]_evVars PROVE PulseInv'
  <2>1. ASSUME NEW e \in Event, EventClock(e) PROVE PulseInv'
    <3>1. ChanClock(e = MyEvent) /\ (e = MyEvent) \in BOOLEAN
      BY <2>1 DEF EventClock
    <3>2. fouled' \in BOOLEAN /\ (~fouled' => ~fouled)
      BY <1>2, <3>1 DEF ChanClock, Observe, PulseInv
    <3>3. ~fouled' => ChanInv'
      BY <1>2, <3>1, <3>2, ChanStep DEF PulseInv
    <3> QED
      BY <3>2, <3>3 DEF PulseInv
  <2>2. ASSUME NEW e \in Event, ResetClock(e) PROVE PulseInv'
    BY <2>2, ChanResetInv DEF ResetClock
  <2>3. CASE UNCHANGED evVars
    BY <1>2, <2>3 DEF evVars, chanVars, regVars, PulseInv, ChanInv, Waiting,
                      Running
  <2> QED
    BY <1>2, <2>1, <2>2, <2>3 DEF EvNext
<1> QED
  BY <1>1, <1>2, PTL DEF EvSpec

\* The pulse of a channel follows its events: high in exactly the clocks three
\* to myWidth + 2 after each event that is answered, for every width.
THEOREM PulseOfEvent == EvSpec => []PulseFollowsEvent
<1>1. PulseInv => PulseFollowsEvent
  <2> SUFFICES ASSUME ChanInv
               PROVE  trigger <=> \E age \in flight : age >= 3
    BY DEF PulseInv, PulseFollowsEvent
  <2> USE ChannelAssumption
  <2>1. CASE Waiting /\ (flight = {} \/ flight = {1} \/ flight = {2})
    BY <2>1 DEF Waiting, trigger
  <2>2. CASE \E a \in 3 .. myWidth + 2 : flight = {a} /\ Running(a)
    BY <2>2 DEF Running, trigger
  <2>3. CASE flight = {1, myWidth + 2} /\ startWidth
    BY <2>3 DEF trigger
  <2> QED
    BY <2>1, <2>2, <2>3 DEF ChanInv
<1> QED
  BY <1>1, PulseInvariant, PTL
-----------------------------------------------------------------------------
\* What the registers hold of the bits received so far.  For two clocks after a
\* latch event the old bits are still in Seconds, and none may come.
FrameInv ==
  /\ Position = IF Len(bits) = NumBits THEN NumBits - 1
                ELSE NumBits - 1 - Len(bits)
  /\ Len(bits) <= NumBits
  /\ gap = 0 => clear
  /\ gap = 1 => ~clear /\ clear_reg
  /\ gap = 2 => ~clear /\ ~clear_reg
  /\ gap < 2 => bits = <<>>
  /\ \A i \in 1 .. Len(bits) : Seconds[NumBits - i] = bits[i]

StampInv ==
  /\ told # NoFrame => \A i \in 1 .. NumBits : secondsReg[NumBits - i] = told[i]
  /\ told # NoFrame /\ Offset # 0 =>
       TimeStamp = [s |-> secondsReg, ns |-> Offset - 1]

TodInv ==
  /\ Position \in Index
  /\ Seconds \in [Index -> Bit]
  /\ bits \in Seq(Bit)
  /\ Offset \in 0 .. OffWord - 1
  /\ gap \in 0 .. 2
  /\ clear \in BOOLEAN /\ clear_reg \in BOOLEAN /\ framed \in BOOLEAN
  /\ framed => FrameInv
  /\ StampInv

\* The pointer goes down by one and wraps around below zero.
LEMMA PositionDown ==
  ASSUME NEW p \in Index
  PROVE  (p + NumBits - 1) % NumBits = IF p = 0 THEN NumBits - 1 ELSE p - 1
BY TimeAssumption DEF Index

LEMMA OffsetUp ==
  ASSUME NEW n \in 0 .. OffWord - 1
  PROVE  (n + 1) % OffWord = IF n = OffWord - 1 THEN 0 ELSE n + 1
BY TimeAssumption

LEMMA TodTypeStep ==
  ASSUME TodInv, NEW e \in Event, NEW rst \in BOOLEAN, TodClock(e, rst)
  PROVE  /\ Position' \in Index /\ Seconds' \in [Index -> Bit]
         /\ bits' \in Seq(Bit) /\ Offset' \in 0 .. OffWord - 1 /\ gap' \in 0 .. 2
         /\ clear' \in BOOLEAN /\ clear_reg' \in BOOLEAN /\ framed' \in BOOLEAN
<1> USE TimeAssumption DEF TodInv
<1>1. Position' \in Index
  BY PositionDown DEF TodClock, MovePosition, Index
<1>2. Seconds' \in [Index -> Bit]
  BY DEF TodClock, TakeSeconds, Zero, Bit, BitOf
<1>3. bits' \in Seq(Bit)
  BY DEF TodClock, TodObserve, Bit, BitOf
<1>4. Offset' \in 0 .. OffWord - 1
  BY OffsetUp DEF TodClock, CountOffset
<1>5. gap' \in 0 .. 2
  BY DEF TodClock, TodObserve
<1>6. clear' \in BOOLEAN /\ clear_reg' \in BOOLEAN
  BY DEF TodClock, Clear
<1>7. framed' \in BOOLEAN
  BY DEF TodClock, TodObserve
<1> QED
  BY <1>1, <1>2, <1>3, <1>4, <1>5, <1>6, <1>7

LEMMA FrameStep ==
  ASSUME TodInv, NEW e \in Event, NEW rst \in BOOLEAN, TodClock(e, rst), framed'
  PROVE  FrameInv'
<1> USE TimeAssumption
<1>1. ~rst /\ (e = "latch" \/ (framed /\ (IsBit(e) => gap = 2 /\ Len(bits) < NumBits)))
  BY DEF TodClock, TodObserve
<1>2. CASE e = "latch"
  <2>1. gap' = 0 /\ bits' = <<>> /\ clear' /\ Position' = NumBits - 1
    BY <1>2 DEF TodClock, TodObserve, Clear, MovePosition
  <2> QED
    BY <2>1 DEF FrameInv
<1>3. CASE e # "latch" /\ ~IsBit(e)
  <2>1. framed /\ FrameInv
    BY <1>1, <1>3 DEF TodInv
  <2>2. bits' = bits /\ Position' = Position
    BY <1>3 DEF TodClock, TodObserve, MovePosition
  <2>3. /\ gap' = (IF gap < 2 THEN gap + 1 ELSE gap)
        /\ ~clear' /\ clear_reg' = clear
    BY <1>3 DEF TodClock, TodObserve, Clear
  <2>4. gap = 2 => Seconds' = Seconds
    BY <1>1, <1>3, <2>1 DEF TodClock, TakeSeconds, FrameInv
  <2>5. gap < 2 => Len(bits) = 0
    BY <2>1 DEF FrameInv
  <2>6. \A i \in 1 .. Len(bits) : Seconds'[NumBits - i] = bits[i]
    BY <2>1, <2>4, <2>5 DEF FrameInv, TodInv
  <2>7. (gap' = 0 => clear') /\ (gap' = 1 => ~clear' /\ clear_reg')
        /\ (gap' = 2 => ~clear' /\ ~clear_reg') /\ (gap' < 2 => bits = <<>>)
    BY <2>1, <2>3 DEF FrameInv, TodInv
  <2> QED
    BY <2>1, <2>2, <2>6, <2>7 DEF FrameInv
<1>4. CASE e # "latch" /\ IsBit(e)
  <2>1. framed /\ FrameInv /\ gap = 2 /\ Len(bits) < NumBits
    BY <1>1, <1>4 DEF TodInv
  <2>2. bits' = Append(bits, BitOf(e)) /\ BitOf(e) \in Bit /\ bits \in Seq(Bit)
    BY <1>4 DEF TodClock, TodObserve, BitOf, Bit, TodInv
  <2>3. /\ Position = NumBits - 1 - Len(bits)
        /\ Position' = IF Position = 0 THEN NumBits - 1 ELSE Position - 1
    <3>1. Position = NumBits - 1 - Len(bits)
      BY <2>1 DEF FrameInv
    <3>2. Position' = (Position + NumBits - 1) % NumBits
      BY <1>4 DEF TodClock, MovePosition
    <3> QED
      BY <3>1, <3>2, PositionDown DEF TodInv
  <2>4. Seconds' = [Seconds EXCEPT ![Position] = BitOf(e)]
    BY <1>1, <1>4, <2>1 DEF TodClock, TakeSeconds, FrameInv
  <2>5. gap' = 2 /\ ~clear' /\ ~clear_reg'
    <3>1. gap' = 2
      BY <1>4, <2>1 DEF TodClock, TodObserve
    <3>2. ~clear' /\ clear_reg' = clear
      BY <1>4 DEF TodClock, Clear
    <3>3. ~clear
      BY <2>1 DEF FrameInv
    <3> QED
      BY <3>1, <3>2, <3>3
  <2>6. /\ Len(bits') = Len(bits) + 1 /\ Len(bits) \in Nat
        /\ bits'[Len(bits) + 1] = BitOf(e)
        /\ \A i \in 1 .. Len(bits) : bits'[i] = bits[i]
    BY <2>2
  <2>7. \A i \in 1 .. Len(bits') : Seconds'[NumBits - i] = bits'[i]
    <3> TAKE i \in 1 .. Len(bits')
    <3>1. NumBits - i \in Index /\ Seconds \in [Index -> Bit]
      BY <2>1, <2>6 DEF Index, TodInv
    <3>2. CASE i = Len(bits) + 1
      BY <2>3, <2>4, <2>6, <3>1, <3>2
    <3>3. CASE i # Len(bits) + 1
      <4>1. i \in 1 .. Len(bits) /\ NumBits - i # Position
        BY <2>3, <2>6, <3>3
      <4> QED
        BY <2>1, <2>4, <2>6, <3>1, <4>1 DEF FrameInv
    <3> QED
      BY <3>2, <3>3
  <2>8. Position' = IF Len(bits') = NumBits THEN NumBits - 1
                    ELSE NumBits - 1 - Len(bits')
    BY <2>1, <2>3, <2>6
  <2> QED
    BY <2>1, <2>5, <2>6, <2>7, <2>8 DEF FrameInv
<1> QED
  BY <1>2, <1>3, <1>4

LEMMA StampStep ==
  ASSUME TodInv, NEW e \in Event, NEW rst \in BOOLEAN, TodClock(e, rst),
         told' # NoFrame
  PROVE  /\ \A i \in 1 .. NumBits : secondsReg'[NumBits - i] = told'[i]
         /\ Offset' # 0 => TimeStamp' = [s |-> secondsReg', ns |-> Offset' - 1]
<1> USE TimeAssumption
<1>1. ~rst
  BY DEF TodClock, TodObserve
<1>2. CASE e = "latch"
  <2>1. framed /\ Len(bits) = NumBits /\ told' = bits
    BY <1>1, <1>2 DEF TodClock, TodObserve
  <2>2. secondsReg' = Seconds /\ Offset' = 0
    BY <1>2 DEF TodClock, Latch, CountOffset
  <2> QED
    BY <2>1, <2>2 DEF TodInv, FrameInv
<1>3. CASE e # "latch"
  <2>1. told' = told /\ secondsReg' = secondsReg
    BY <1>1, <1>3 DEF TodClock, TodObserve, Latch
  <2>2. Offset' = IF Offset = OffWord - 1 THEN 0 ELSE Offset + 1
    BY <1>3, OffsetUp DEF TodClock, CountOffset, TodInv
  <2>3. TimeStamp' = [s |-> secondsReg, ns |-> Offset]
    BY <1>1 DEF TodClock, Stamp
  <2> QED
    BY <2>1, <2>2, <2>3 DEF TodInv, StampInv
<1> QED
  BY <1>2, <1>3

LEMMA TodInvariant == EvSpec => []TodInv
<1>1. EvInit => TodInv
  BY TimeAssumption DEF EvInit, TodInit, TodInv, StampInv, Index, Zero, Bit
<1>2. ASSUME TodInv, [EvNext]_evVars PROVE TodInv'
  <2>1. ASSUME NEW e \in Event, NEW rst \in BOOLEAN, TodClock(e, rst)
        PROVE  TodInv'
    <3>1. /\ Position' \in Index /\ Seconds' \in [Index -> Bit]
          /\ bits' \in Seq(Bit) /\ Offset' \in 0 .. OffWord - 1
          /\ gap' \in 0 .. 2 /\ clear' \in BOOLEAN /\ clear_reg' \in BOOLEAN
          /\ framed' \in BOOLEAN
      BY <1>2, <2>1, TodTypeStep
    <3>2. framed' => FrameInv'
      BY <1>2, <2>1, FrameStep
    <3>3. StampInv'
      BY <1>2, <2>1, StampStep DEF StampInv
    <3> QED
      BY <3>1, <3>2, <3>3 DEF TodInv
  <2>2. CASE UNCHANGED evVars
    <3>1. UNCHANGED todVars
      BY <2>2 DEF evVars
    <3> QED
      BY <1>2, <3>1 DEF todVars, TodInv, FrameInv, StampInv
  <2>3. ASSUME NEW e \in Event, EventClock(e) PROVE TodInv'
    BY <2>1, <2>3 DEF EventClock
  <2>4. ASSUME NEW e \in Event, ResetClock(e) PROVE TodInv'
    BY <2>1, <2>4 DEF ResetClock
  <2> QED
    BY <1>2, <2>2, <2>3, <2>4 DEF EvNext
<1> QED
  BY <1>1, <1>2, PTL DEF EvSpec

\* Whatever the number of bits and wherever the pointer stood before the first
\* latch event, the seconds of a properly sent frame are the ones that software
\* reads.
THEOREM SecondsLatched == EvSpec => []SecondsAsSent
<1>1. TodInv => SecondsAsSent
  BY DEF TodInv, StampInv, SecondsAsSent
<1> QED
  BY <1>1, TodInvariant, PTL
-----------------------------------------------------------------------------
(***************************************************************************)
(* sadata, which reads the receiver's registers.                           *)
(***************************************************************************)
\* The time stamp has the seconds that were latched, but for the clock after a
\* latch event; and between its reads the daemon is past that clock, unless the
\* second turned.
StampCurrent == told # NoFrame /\ gap # 0 => TimeStamp.s = secondsReg

ReadInv == sa = "between" /\ ~turned /\ told # NoFrame => gap # 0

SaInv ==
  /\ gap \in 0 .. 2 /\ turned \in BOOLEAN
  /\ \A i \in 1 .. NumBits : NumBits - i \in Index
  /\ StampCurrent /\ ReadInv /\ StampOfOneSecond

LEMMA SaInvStart == SaInit => SaInv
<1> SUFFICES ASSUME SaInit PROVE SaInv
  OBVIOUS
<1>1. gap = 0 /\ turned = FALSE /\ told = NoFrame /\ sa = "delay"
  BY DEF SaInit, EvInit, TodInit
<1>2. \A i \in 1 .. NumBits : NumBits - i \in Index
  BY TimeAssumption DEF Index
<1>3. gap \in 0 .. 2
  BY <1>1
<1>4. turned \in BOOLEAN
  BY <1>1
<1>5. StampCurrent /\ ReadInv /\ StampOfOneSecond
  BY <1>1 DEF StampCurrent, ReadInv, StampOfOneSecond
<1> QED BY <1>2, <1>3, <1>4, <1>5 DEF SaInv

\* A clock without a latch event and without a reset keeps the seconds and has
\* them in the stamp.
LEMMA QuietClock ==
  ASSUME NEW e \in Event, NEW rst \in BOOLEAN, TodClock(e, rst), told' # NoFrame, e # "latch"
  PROVE  /\ ~rst /\ told' = told /\ secondsReg' = secondsReg
         /\ TimeStamp' = [s |-> secondsReg, ns |-> Offset]
BY DEF TodClock, TodObserve, Latch, Stamp

LEMMA SaInvStep ==
  ASSUME SaInv, TodInv, NEW e \in Event, NEW rst \in BOOLEAN, TodClock(e, rst), SaClock(e)
  PROVE  SaInv'
<1>1. gap' = IF e = "latch" THEN 0 ELSE IF gap < 2 THEN gap + 1 ELSE gap
  BY DEF TodClock, TodObserve
<1>2. gap' \in 0 .. 2 /\ (e # "latch" => gap' # 0)
  BY <1>1 DEF SaInv
<1>3. turned' \in BOOLEAN
  BY DEF SaInv, SaClock, ReadNs, ReadS, Push, Elsewhere
<1>4. StampCurrent'
  <2> SUFFICES ASSUME told' # NoFrame, gap' # 0 PROVE TimeStamp'.s = secondsReg'
    BY DEF StampCurrent
  <2>1. e # "latch"
    BY <1>1
  <2> QED BY <2>1, QuietClock
<1>5. ReadInv'
  BY <1>2 DEF ReadInv, SaClock, ReadNs, ReadS, Push, Elsewhere
<1>6. StampOfOneSecond'
  <2> SUFFICES ASSUME sa' = "send", ~turned', told' # NoFrame, NEW i \in 1 .. NumBits
               PROVE  evr_ts_s'[NumBits - i] = told'[i]
    BY DEF StampOfOneSecond
  <2>1. ReadS(e)
    BY DEF SaClock, ReadNs, Push, Elsewhere
  <2>2. sa = "between" /\ ~turned /\ e # "latch"
    BY <2>1 DEF ReadS
  <2>3. /\ told' = told /\ told # NoFrame
        /\ TimeStamp' = [s |-> secondsReg, ns |-> Offset]
    BY <2>2, QuietClock
  <2>4. TimeStamp.s = secondsReg
    BY <2>2, <2>3 DEF SaInv, ReadInv, StampCurrent
  <2>5. secondsReg[NumBits - i] = told[i]
    BY <2>3 DEF TodInv, StampInv
  <2>6. evr_ts_s'[NumBits - i] \in Sampled(NumBits - i)
    BY <2>1 DEF ReadS, SaInv
  <2>7. TimeStamp'.s = secondsReg
    BY <2>3
  <2>8. evr_ts_s'[NumBits - i] \in {TimeStamp.s[NumBits - i], TimeStamp'.s[NumBits - i]}
    BY <2>6 DEF Sampled
  <2> QED BY <2>3, <2>4, <2>5, <2>7, <2>8
<1> QED BY <1>2, <1>3, <1>4, <1>5, <1>6 DEF SaInv

\* The daemon does not disturb the receiver: what is proved of it holds while it
\* is read.
THEOREM ReadReceiver == SaSpec => EvSpec
<1>1. SaInit => EvInit
  BY DEF SaInit
<1>2. [SaNext]_sdVars => [EvNext]_evVars
  BY DEF SaNext, EvNext, sdVars
<1> QED BY <1>1, <1>2, PTL DEF SaSpec, EvSpec

\* sadata_push: a message 31 has the seconds in which its nanoseconds are counted,
\* though the two registers are read one after the other, in another clock domain
\* and without a synchroniser, unless a second ended between the reads.
THEOREM StampCorrect == SaSpec => []StampOfOneSecond
<1>1. SaInv /\ TodInv /\ [SaNext]_sdVars => SaInv'
  <2> SUFFICES ASSUME SaInv, TodInv, [SaNext]_sdVars PROVE SaInv'
    OBVIOUS
  <2>1. ASSUME NEW e \in Event, EventClock(e), SaClock(e) PROVE SaInv'
    BY <2>1, SaInvStep DEF EventClock
  <2>2. ASSUME NEW e \in Event, ResetClock(e), SaClock(e) PROVE SaInv'
    BY <2>2, SaInvStep DEF ResetClock
  <2>3. CASE UNCHANGED sdVars
    BY <2>3 DEF sdVars, evVars, todVars, saVars, SaInv, StampCurrent, ReadInv, StampOfOneSecond
  <2> QED BY <2>1, <2>2, <2>3 DEF SaNext
<1>2. SaInv => StampOfOneSecond
  BY DEF SaInv
<1> QED BY <1>1, <1>2, SaInvStart, ReadReceiver, TodInvariant, PTL DEF SaSpec
=============================================================================
