---------------------------- MODULE TbtReceiver -----------------------------
(***************************************************************************)
(* The turn-by-turn half of evr_top.vhd.  Bit 0 of the received data byte  *)
(* is high for one half of a turn and low for the other; its rising edge,  *)
(* after three clocks of low, is the TbT event.  The event is stretched to *)
(* a pulse of four clocks for the faster ADC clock domain.                 *)
(*                                                                         *)
(* One step is one edge of evr_rcvd_clk.                                   *)
(***************************************************************************)
EXTENDS Naturals

VARIABLES
  prev,        \* prev_datastream(0) .. prev_datastream(3)
  tbt_trig_i, tbt_trig, trigactive, cnt

recvVars == <<prev, tbt_trig_i, tbt_trig, trigactive, cnt>>

\* Nothing resets prev_datastream.
RecvInit ==
  /\ prev \in {0, 1} \X {0, 1} \X {0, 1} \X {0, 1}
  /\ tbt_trig_i = 0 /\ tbt_trig = 0 /\ trigactive = 0 /\ cnt = 0

\* prev_datastream = "0001", index 3 first.
Mark(p) == p = <<1, 0, 0, 0>>

-----------------------------------------------------------------------------
\* Mutant of PulseEnds: an event on the last clock of a pulse prolongs it.
PulseEndsUnlessEvent ==
  /\ trigactive = 1 /\ cnt = 3
  /\ tbt_trig' = tbt_trig_i /\ trigactive' = tbt_trig_i /\ cnt' = 0

\* The last assignment of the process wins: a pulse ends even if an event
\* comes on its last clock.
PulseEnds ==
  /\ trigactive = 1 /\ cnt = 3
  /\ tbt_trig' = 0 /\ trigactive' = 0 /\ cnt' = 0

PulseGoesOn ==
  /\ ~(trigactive = 1 /\ cnt = 3)
  /\ tbt_trig' = IF tbt_trig_i = 1 THEN 1 ELSE tbt_trig
  /\ trigactive' = IF tbt_trig_i = 1 THEN 1 ELSE trigactive
  /\ cnt' = IF trigactive = 1 THEN cnt + 1 ELSE cnt

\* One clock with bit 0 of the data byte being d.
RecvClock(d) ==
  /\ prev' = <<d, prev[1], prev[2], prev[3]>>
  /\ tbt_trig_i' = IF Mark(prev) THEN 1 ELSE 0
  /\ PulseEnds \/ PulseGoesOn

\* sys_rst; prev_datastream stands still under it.
RecvReset ==
  /\ tbt_trig_i' = 0 /\ tbt_trig' = 0 /\ trigactive' = 0 /\ cnt' = 0
  /\ UNCHANGED prev
=============================================================================
