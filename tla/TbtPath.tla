------------------------------ MODULE TbtPath -------------------------------
(***************************************************************************)
(* The way of a TbT event from the event receiver to the trigger           *)
(* synchroniser: top.vhd connects evr_top's tbt_trig to trigger_sync.  The *)
(* two run on clocks of their own, 124.92 MHz and 416.4 MHz, so that there *)
(* are three or four edges of the ADC clock to every edge of the other.    *)
(***************************************************************************)
EXTENDS TriggerSync, TbtReceiver

CONSTANTS MinEdges, MaxEdges   \* ADC clock edges in one period of evr_rcvd_clk

\* The ADC clock is at least twice as fast; slower, and what is left of a
\* pulse after a reset runs into the next one.
ASSUME RatioAssumption == /\ MinEdges \in Nat /\ MinEdges >= 2
                          /\ MaxEdges \in Nat /\ MaxEdges >= MinEdges

VARIABLES
  edges,   \* ADC clock edges since the last edge of evr_rcvd_clk
  owed,    \* history: the pulse whose edge trigger_sync has still to see
  lag      \* history: ADC clock edges since the last mark was sampled

pathVars == <<vars, recvVars, edges, owed, lag>>

LagBound == 4 * MaxEdges

PathInit ==
  /\ Init /\ RecvInit
  /\ edges = 0 /\ owed = "none"
  /\ lag = IF Mark(prev) THEN 0 ELSE LagBound

-----------------------------------------------------------------------------
\* An edge of evr_rcvd_clk.
EvrEdge ==
  /\ edges >= MinEdges
  /\ \E d \in Bit : RecvClock(d)
  /\ edges' = 0
  /\ owed' = IF tbt_trig' = tbt_trig \/ tbt_trig' = 0 THEN owed
             ELSE IF owed = "one" THEN "missed" ELSE "one"
  /\ lag' = IF Mark(prev') THEN 0 ELSE lag
  /\ UNCHANGED vars

\* An edge of adc_clk: the synchroniser samples tbt_trig.
AdcEdge ==
  /\ edges < MaxEdges
  /\ Clock
  /\ tbt'[1] = tbt_trig
  /\ edges' = edges + 1
  /\ owed' = IF ~Rising(tbt) THEN owed
             ELSE IF owed = "none" THEN "extra" ELSE "none"
  /\ lag' = IF lag < LagBound THEN lag + 1 ELSE lag
  /\ UNCHANGED recvVars

\* rfadc_reset alone, when the ADC clock loses its lock; what is left of a
\* pulse may or may not be seen after it.
AdcReset ==
  /\ Reset
  /\ owed' = IF tbt_trig = 1 THEN "unknown" ELSE "none"
  /\ UNCHANGED <<recvVars, edges, lag>>

\* pl_reset reaches both.
PlReset ==
  /\ Reset /\ RecvReset
  /\ owed' = "none"
  /\ UNCHANGED <<edges, lag>>

PathNext == EvrEdge \/ AdcEdge \/ AdcReset \/ PlReset

PathSpec == PathInit /\ [][PathNext]_pathVars

\* Both clocks run.
PathFairSpec == PathSpec /\ WF_pathVars(EvrEdge) /\ WF_pathVars(AdcEdge)
-----------------------------------------------------------------------------
\* trigger_sync sees one edge for every pulse of the receiver, whatever the
\* data bit does and however the two clocks slide: none is missed, none is
\* seen twice, and each is seen before the next pulse.
OneEdgePerPulse == owed \in {"none", "one", "unknown"}

\* The trigger follows the mark with a fixed delay, but for the phase of the
\* two clocks: two periods of the slower, and two edges of the faster one.
TakenInTime ==
  state = "WAIT_TBT" /\ Rising(tbt) =>
    lag \in (2 * MinEdges + 2) .. (2 * MaxEdges + 2)

\* If marks keep coming the synchroniser always gets back to IDLE, where it
\* takes the next soft trigger.
ReturnsToIdle == []<>Mark(prev) => (armed = 1 ~> armed = 0)
=============================================================================
