---------------------------- MODULE EventChannel ----------------------------
(***************************************************************************)
(* EventReceiverChannel.v as evr_top.vhd instantiates it, with a delay of  *)
(* one clock: when its event is on the stream the channel puts out a pulse *)
(* of myWidth clocks.  Four registers do this, each with conditions of its *)
(* own on the others, and no state says whether a pulse is under way.      *)
(*                                                                         *)
(* One step is one edge of evr_rcvd_clk.                                   *)
(***************************************************************************)
EXTENDS Naturals

CONSTANTS myWidth,  \* length of the pulse in clocks
          Word      \* 2^32: the counters wrap around

ASSUME ChannelAssumption ==
  /\ myWidth \in Nat \ {0}
  /\ Word \in Nat
  /\ myWidth + 1 < Word

myDelay == 1

VARIABLES
  delayCounter, widthCounter, startDelay, startWidth,
  hit,      \* history: the event was on the stream in the last clock
  flight,   \* history: clocks since each event whose pulse is not over yet
  fouled    \* history: an event came one clock after another one, or exactly
            \* when the pulse before it ends

regVars == <<delayCounter, widthCounter, startDelay, startWidth>>
chanVars == <<regVars, hit, flight, fouled>>

ChanInit ==
  /\ delayCounter = 0 /\ widthCounter = 0
  /\ startDelay = FALSE /\ startWidth = FALSE
  /\ hit = FALSE /\ flight = {} /\ fouled = FALSE

Inc(n) == (n + 1) % Word

\* A counter runs while its start bit is set and is cleared afterwards if it
\* has reached its end.
Count(n, start, end) ==
  IF start THEN Inc(n) ELSE IF n >= end THEN 0 ELSE n

DelayClock ==
  delayCounter' = Count(delayCounter, startDelay, myDelay)

WidthClock ==
  widthCounter' = Count(widthCounter, startWidth, myWidth)

\* A new event comes before the end of the delay.
StartDelay(mine) ==
  startDelay' = (mine \/ (startDelay /\ delayCounter # myDelay - 1))

\* Mutants of StartWidth: the pulse is a clock too long; its end is taken as
\* soon as the counter is at rest.
StartWidthLong ==
  startWidth' = (\/ delayCounter = myDelay
                 \/ startWidth /\ widthCounter # myWidth)

StartWidthNoEnd ==
  startWidth' = (delayCounter = myDelay \/ startWidth)

StartWidth ==
  startWidth' = (\/ delayCounter = myDelay
                 \/ startWidth /\ widthCounter # myWidth - 1)

trigger == startWidth
-----------------------------------------------------------------------------
\* An event is answered by a pulse if the pulse before it ends in time; one
\* that comes during a pulse is ignored.
Answered(mine) == mine /\ \A age \in flight : age > myWidth

Observe(mine) ==
  /\ hit' = mine
  /\ flight' = {age + 1 : age \in {a \in flight : a < myWidth + 2}}
               \union (IF Answered(mine) THEN {1} ELSE {})
  /\ fouled' = (fouled \/ (mine /\ (hit \/ myWidth \in flight)))

\* One clock; mine: the event stream shows the channel's event.
ChanClock(mine) ==
  /\ DelayClock /\ WidthClock /\ StartDelay(mine) /\ StartWidth
  /\ Observe(mine)

\* Reset comes before everything else.
ChanReset ==
  /\ delayCounter' = 0 /\ widthCounter' = 0
  /\ startDelay' = FALSE /\ startWidth' = FALSE
  /\ hit' = FALSE /\ flight' = {} /\ fouled' = FALSE
=============================================================================
