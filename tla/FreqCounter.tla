---------------------------- MODULE FreqCounter -----------------------------
(***************************************************************************)
(* clk_freq_counter.vhd, five of which clk_meas_freq.vhd puts side by side:*)
(* edges of meas_clk are counted between requests that come every second   *)
(* of ref_clk.  The request crosses to meas_clk and the finished count     *)
(* comes back, each through a PulseSync whose src_busy nobody looks at.    *)
(* rfstats.c reads the register in between, at any time.                   *)
(*                                                                         *)
(* A step is an edge of one of the clocks.  While it runs, meas_clk has a  *)
(* fixed frequency, up to a jitter of one period.  It may stop, and start  *)
(* again with another one: three of the five come from the converters and  *)
(* from the clock board, which are set up by software.                     *)
(***************************************************************************)
EXTENDS Integers, Sequences

CONSTANTS
  Window,     \* g_ref_clk_freq: ref_clk edges from one request to the next
  CountWord,  \* 2^g_count_width: counters wrap around
  Rates,      \* frequencies of meas_clk, in quarters of that of ref_clk
  MaxUpsets   \* bound on stops of meas_clk and on resets

ASSUME CounterAssumption ==
  /\ Window \in Nat \ {0} /\ CountWord \in Nat \ {0}
  /\ Rates \subseteq Nat \ {0} /\ MaxUpsets \in Nat

\* A second is longer than the handshakes of both links, which take a few edges
\* of each clock, and has fewer edges of meas_clk than a counter can count.
ASSUME WindowAssumption ==
  \A r \in Rates : /\ Window * r > 4 * r + 41 /\ Window * r > 5 * r + 30
                   /\ Window * r + 7 < 4 * CountWord

VARIABLES
  req, lat,             \* the two links
  count, tc,            \* inst_prescale
  freq_reg,             \* ref_clk
  counter, latch_count, \* meas_clk
  rate, phase,          \* meas_clk: its frequency, 0 if it is stopped, and how
                        \* much of an edge it is behind, in quarters
  upsets,               \* stops and resets so far
  calm, edges, truth    \* history: windows without an upset, up to 4; after two
                        \* of them, the edges of meas_clk since the last request
                        \* and in the two windows before

INSTANCE PulseSync WITH link <- req

refVars == <<count, tc, freq_reg>>
measVars == <<counter, latch_count>>
vars == <<req, lat, refVars, measVars, rate, phase, upsets, edges, truth, calm>>

\* Power-up: counter has no initial value in the source, the device starts at 0.
Init ==
  /\ req = Rest /\ lat = Rest
  /\ count = 0 /\ tc = FALSE /\ freq_reg = 0
  /\ counter = 0 /\ latch_count = 0
  /\ rate \in Rates \union {0} /\ phase = 0 /\ upsets = 0
  /\ edges = 0 /\ truth = <<0, 0>> /\ calm = 0
-----------------------------------------------------------------------------
\* counter_prescale.vhd.
Prescale(reset) ==
  /\ count' = IF reset \/ count = Window - 1 THEN 0 ELSE count + 1
  /\ tc' = (~reset /\ count = Window - 1)

Forget == calm' = 0 /\ edges' = 0 /\ truth' = <<0, 0>>

\* A window ends with the pulse.
ObserveRef(reset) ==
  IF reset \/ rate = 0 THEN Forget
  ELSE IF ~tc THEN UNCHANGED <<calm, edges, truth>>
  ELSE /\ calm' = IF calm < 4 THEN calm + 1 ELSE calm
       /\ edges' = 0 /\ truth' = <<edges, truth[1]>>

RefEdge(reset) ==
  /\ phase < 4
  /\ Prescale(reset)
  /\ req' = SrcEdge(req, tc, reset) /\ lat' = RcvEdge(lat)
  /\ freq_reg' = IF reset THEN 0 ELSE IF rcv_pulse(lat) THEN latch_count ELSE freq_reg
  /\ phase' = phase + rate
  /\ ObserveRef(reset)
  /\ UNCHANGED <<measVars, rate>>

\* Mutant of Count: the latch does not clear the counter.
CountGoesOn ==
  /\ counter' = (counter + 1) % CountWord
  /\ latch_count' = IF rcv_pulse(req) THEN (counter + 1) % CountWord ELSE latch_count

\* p_freq_count.
Count ==
  IF rcv_pulse(req)
  THEN counter' = 0 /\ latch_count' = (counter + 1) % CountWord
  ELSE counter' = (counter + 1) % CountWord /\ UNCHANGED latch_count

MeasEdge ==
  /\ rate # 0 /\ phase >= 0
  /\ Count
  /\ req' = RcvEdge(req) /\ lat' = SrcEdge(lat, rcv_pulse(req), FALSE)
  /\ phase' = phase - 4 /\ edges' = IF calm < 2 THEN 0 ELSE edges + 1
  /\ UNCHANGED <<refVars, rate, upsets, truth, calm>>

\* meas_clk fails, or comes (back).
Stop ==
  /\ rate # 0 /\ upsets < MaxUpsets
  /\ rate' = 0 /\ phase' = 0 /\ upsets' = upsets + 1 /\ Forget
  /\ UNCHANGED <<req, lat, refVars, measVars>>

Start ==
  /\ rate = 0
  /\ rate' \in Rates /\ UNCHANGED phase
  /\ UNCHANGED <<req, lat, refVars, measVars, upsets, calm, edges, truth>>

\* pl_reset during an edge of ref_clk; meas_clk has none.
ResetEdge ==
  /\ upsets < MaxUpsets /\ upsets' = upsets + 1
  /\ RefEdge(TRUE)

RunEdge == RefEdge(FALSE) /\ UNCHANGED upsets

Next == RunEdge \/ MeasEdge \/ Stop \/ Start \/ ResetEdge

Spec == Init /\ [][Next]_vars

\* Both clocks run; one that failed comes back.
FairSpec == Spec /\ WF_vars(RunEdge) /\ WF_vars(MeasEdge) /\ WF_vars(Start)

\* What message 104 says of the clock if rfstats_push reads it now.
Reported == freq_reg
-----------------------------------------------------------------------------
\* The frequency that is reported is the number of edges in the last second or
\* in the one before it, exactly, as soon as there have been four seconds without
\* a stop or a reset: no count is torn, of a part of a second or of several.
FrequencyIsRecent == calm = 4 => Reported \in {truth[1], truth[2]}

\* Neither link loses a request once the clock runs again, although nobody
\* looks at src_busy.
LinksNotCrowded ==
  /\ Once(req) /\ Once(lat)
  /\ calm = 4 => ~req.crowded /\ ~lat.crowded

\* However often the clock failed and whatever handshake a reset cut short,
\* new counts keep coming.
KeepsMeasuring == []<>rcv_pulse(lat)
=============================================================================
