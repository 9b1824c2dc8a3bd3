---------------------------- MODULE CapturePaths ----------------------------
(***************************************************************************)
(* One soft trigger starts both capture paths: trigger_sync arms on it,    *)
(* unless a trigger is still out, and gives each path its own pulse, some  *)
(* time after the next TbT mark and in either order.  What each path does  *)
(* with it is in FifoReadout and Adc2Dma; the two do not wait for each     *)
(* other.                                                                  *)
(***************************************************************************)
EXTENDS FifoReadout, Adc2Dma

Path == {"fifo", "dma"}

VARIABLES
  pending,  \* pulses that trigger_sync has still to give
  took,     \* history: paths that took the trigger armed last
  awake     \* history: both were idle when it was armed, and not reset since

pathVars == <<pending, took, awake>>
allVars == <<vars, captureVars, pathVars>>

PathsInit == Init /\ CaptureInit /\ pending = {} /\ took = {} /\ awake = FALSE

BothIdle == Listening /\ wr_state = "IDLE" /\ in_reset = "none"

\* The soft trigger reaches trigger_sync, which ignores it unless idle.
SoftTrigger ==
  /\ SoftPulse
  /\ IF pending = {} /\ ~sys_rst
     THEN pending' = Path /\ took' = {} /\ awake' = BothIdle
     ELSE UNCHANGED pathVars
  /\ UNCHANGED <<engVars, damVars, captureVars>>

\* Mutant of PulseOut: the first pulse ends the trigger.
PulseOutLast(p) == p \in pending /\ pending' = {}

PulseOut(p) == p \in pending /\ pending' = pending \ {p}

Takes(p, takes) == took' = (IF takes THEN took \union {p} ELSE took) /\ UNCHANGED awake

FifoPulse ==
  /\ PulseOut("fifo") /\ Takes("fifo", Listening)
  /\ Triggered
  /\ UNCHANGED <<swVars, damVars, captureVars>>

DmaPulse ==
  /\ PulseOut("dma") /\ Takes("dma", wr_state = "IDLE" /\ in_reset = "none")
  /\ IF wr_state = "IDLE" /\ in_reset = "none" THEN TriggerClock ELSE UNCHANGED captureVars
  /\ UNCHANGED vars

\* A path goes on by itself.
FifoStep ==
  (SoftClear \/ Engine \/ SysRelease \/ Daemon) /\ UNCHANGED <<captureVars, pathVars>>

\* The one reset it may have by itself is fifo_rst.  Those of the DMA path are
\* not released before rfadc_reset is.
DmaStep ==
  /\ EngineStep
  /\ sys_rst => in_reset' = in_reset
  /\ awake' = (awake /\ in_reset' = "none") /\ UNCHANGED <<vars, pending, took>>

\* rfadc_reset is one signal: it takes the pulses that are still out and resets
\* the engines of both paths.
RfadcReset ==
  /\ SysReset
  /\ AssertReset \/ (in_reset = "both" /\ UNCHANGED captureVars)
  /\ pending' = {} /\ awake' = FALSE
  /\ UNCHANGED <<swVars, damVars, took>>

PathsNext == SoftTrigger \/ FifoPulse \/ DmaPulse \/ FifoStep \/ DmaStep \/ RfadcReset

PathsSpec == PathsInit /\ [][PathsNext]_allVars

\* The clocks run and the daemon is scheduled; nobody has to trigger.
FairPathsSpec ==
  /\ PathsSpec
  /\ WF_allVars(Engine /\ UNCHANGED <<captureVars, pathVars>>)
  /\ WF_allVars(Daemon /\ UNCHANGED <<captureVars, pathVars>>)
-----------------------------------------------------------------------------
\* A trigger that found both paths idle is taken by both, so that messages 60 to
\* 67 and 70 to 73 are of one trigger, although it reaches the paths one after the
\* other and each may have finished with it before the other begins.
TakenByBoth == pending = {} /\ awake => took = Path
=============================================================================
