--------------------------- MODULE EventReceiver ----------------------------
(***************************************************************************)
(* The event half of evr_top.vhd: the time-of-day receiver and an event    *)
(* channel on one stream of events, one event per clock.  The four channels*)
(* event_gps, event_10Hz, event_10KHz and event_usr do not meet and differ *)
(* in the event and in the width only.                                     *)
(***************************************************************************)
EXTENDS EventChannel, TimeOfDay

CONSTANT MyEvent   \* the channel's event: "latch" is event_gps

evVars == <<chanVars, todVars>>

\* What can be on the stream: the bits of the seconds, the latch event, and
\* events nobody here listens to.
Event == {"zero", "one", "latch", "other"}

EvInit == ChanInit /\ TodInit

EventClock(e) == ChanClock(e = MyEvent) /\ TodClock(e, FALSE)

\* sys_rst during a clock.
ResetClock(e) == ChanReset /\ TodClock(e, TRUE)

EvNext == \E e \in Event : EventClock(e) \/ ResetClock(e)

EvSpec == EvInit /\ [][EvNext]_evVars

\* The recovered clock runs, and sys_rst does not come for ever.
FairEvSpec == EvSpec /\ WF_evVars(\E e \in Event : EventClock(e))
-----------------------------------------------------------------------------
\* The channel's pulse is high exactly in the myWidth clocks that begin two
\* clocks after an answered event, although events may come again before,
\* during and right after the pulse.  Excepted are an event on two successive
\* clocks, which leaves startDelay set, and one that starts a pulse on the very
\* clock on which the last one ends, which leaves startWidth set: both until a
\* counter has wrapped around.
PulseFollowsEvent ==
  ~fouled => (trigger <=> \E age \in flight : age >= 3)

\* The latched seconds are the bits that were sent since the latch event before,
\* the first one the most significant, if there were as many as there are bits
\* and none before the register was cleared; and the time stamp that software
\* reads then has these seconds together with an offset that counts from them.
SecondsAsSent ==
  told # NoFrame =>
    /\ \A i \in 1 .. NumBits : secondsReg[NumBits - i] = told[i]
    /\ Offset # 0 => TimeStamp = [s |-> secondsReg, ns |-> Offset - 1]

\* When the channel's event does not come any more, the pulse ends and stays
\* away, even after events that left a start bit set: the counter wraps around.
PulseEndsForGood == (<>[]~hit) => <>[]~trigger
=============================================================================
