------------------------------- MODULE SaData -------------------------------
(***************************************************************************)
(* sadata.c, which sends the time stamp of the event receiver every 100 ms *)
(* as message 31: first it reads the register of the nanoseconds, then that*)
(* of the seconds.                                                         *)
(*                                                                         *)
(* The registers are clocked by the receiver and read from another clock   *)
(* without a synchroniser: a bit that changes during the read comes out    *)
(* either way.  Of the nanoseconds, which change on every clock, nothing is*)
(* kept but when they were read.                                           *)
(***************************************************************************)
EXTENDS EventReceiver

VARIABLES
  sa,       \* sadata_push: "delay", "between" its two reads, or "send"
  evr_ts_s, \* msg
  turned    \* history: a second began while the two were read

saVars == <<sa, evr_ts_s, turned>>
sdVars == <<evVars, saVars>>

SaInit == EvInit /\ sa = "delay" /\ evr_ts_s = Zero /\ turned = FALSE

\* The stamp follows its latch event by one clock.
ReadNs(e) ==
  /\ sa = "delay" /\ sa' = "between"
  /\ turned' = (e = "latch" \/ gap = 0)
  /\ UNCHANGED evr_ts_s

\* What a read during the clock makes of bit i.
Sampled(i) == {TimeStamp.s[i], TimeStamp.s[i]'}

ReadS(e) ==
  /\ sa = "between" /\ sa' = "send"
  /\ evr_ts_s' \in {s \in [Index -> Bit] : \A i \in Index : s[i] \in Sampled(i)}
  /\ turned' = (turned \/ e = "latch")

Push ==
  /\ sa = "send" /\ sa' = "delay"
  /\ evr_ts_s' = Zero /\ turned' = FALSE

\* A clock in which the daemon does not get to the next register.
Elsewhere(e) ==
  /\ sa # "send" /\ turned' = (turned \/ (sa = "between" /\ e = "latch"))
  /\ UNCHANGED <<sa, evr_ts_s>>

SaClock(e) == ReadNs(e) \/ ReadS(e) \/ Push \/ Elsewhere(e)

SaNext == \E e \in Event : (EventClock(e) \/ ResetClock(e)) /\ SaClock(e)

SaSpec == SaInit /\ [][SaNext]_sdVars

FairSaSpec == SaSpec /\ WF_sdVars(\E e \in Event : EventClock(e) /\ SaClock(e))
-----------------------------------------------------------------------------
\* Message 31 has the seconds that were sent for the second its nanoseconds are
\* counted in, unless that second ended between the two reads: then it is a
\* second late.
StampOfOneSecond ==
  sa = "send" /\ ~turned /\ told # NoFrame =>
    \A i \in 1 .. NumBits : evr_ts_s[NumBits - i] = told[i]
=============================================================================
