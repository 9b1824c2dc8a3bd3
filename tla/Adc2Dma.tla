------------------------------ MODULE Adc2Dma -------------------------------
(***************************************************************************)
(* The capture engine adc2dma.vhd: after a trigger it takes CAPTURE_CLOCKS *)
(* samples at the start of every turn of TURN_CLOCKS clocks, NUM_BURSTS    *)
(* times, through a holding register and a FIFO that crosses from adc_clk  *)
(* to sys_clk into the width converter and the DMA.                        *)
(*                                                                         *)
(* A step is an edge of one of the two clocks, or a part of a reset.  A    *)
(* word is identified with the burst and the clock of the turn it was      *)
(* sampled at.  When the width converter is ready is up to it.             *)
(***************************************************************************)
EXTENDS Integers, Sequences

CONSTANTS CAPTURE_CLOCKS, TURN_CLOCKS, NUM_BURSTS,
          FifoDepth     \* words axis_adc_fifo holds (64)

ASSUME CaptureAssumption ==
  /\ CAPTURE_CLOCKS \in Nat \ {0} /\ TURN_CLOCKS \in Nat
  /\ CAPTURE_CLOCKS <= TURN_CLOCKS
  /\ NUM_BURSTS \in Nat \ {0}
  /\ FifoDepth \in Nat \ {0}

Word == [burst : 0 .. NUM_BURSTS - 1, turn : 0 .. CAPTURE_CLOCKS - 1]
First == [burst |-> 0, turn |-> 0]
Final == [burst |-> NUM_BURSTS - 1, turn |-> CAPTURE_CLOCKS - 1]

\* The word that is scheduled after w.
Successor(w) == IF w.turn + 1 < CAPTURE_CLOCKS
                THEN [w EXCEPT !.turn = @ + 1]
                ELSE [burst |-> w.burst + 1, turn |-> 0]

VARIABLES
  in_reset,   \* domains that are held in reset: "both", "adc" or "none"
  wr_state, turn_count, burst_count,
  tvalid, tdata, tlast,   \* s_axis: the holding register
  overflow,   \* capture_overflow
  stream,     \* words between s_axis and m_axis
  busy_sync,  \* busy_sync(0), busy_sync(1)
  testdata_enb, test_enable,  \* register, and what was latched of it
  want,       \* history: the word the width converter has to get next
  finished    \* history: it has taken the word with TLAST

adcVars == <<wr_state, turn_count, burst_count, tvalid, tdata, tlast,
             overflow, test_enable>>
sysVars == <<busy_sync, want, finished>>
captureVars == <<in_reset, adcVars, stream, sysVars, testdata_enb>>

\* Power-up: the reset pipes start filled with ones.
CaptureInit ==
  /\ in_reset = "both"
  /\ wr_state = "IDLE" /\ turn_count = 0 /\ burst_count = 0
  /\ tvalid = FALSE /\ tdata = First /\ tlast = FALSE
  /\ overflow = FALSE /\ test_enable = FALSE
  /\ stream = <<>>
  /\ busy_sync = <<FALSE, FALSE>>
  /\ testdata_enb = FALSE
  /\ want = First /\ finished = FALSE
-----------------------------------------------------------------------------
\* reset or fifo_rst acts on both domains and the FIFO without a clock.
AssertReset ==
  /\ in_reset # "both"
  /\ in_reset' = "both"
  /\ wr_state' = "IDLE" /\ turn_count' = 0 /\ burst_count' = 0
  /\ tvalid' = FALSE /\ tdata' = First /\ tlast' = FALSE
  /\ overflow' = FALSE /\ test_enable' = FALSE
  /\ stream' = <<>>
  /\ busy_sync' = <<FALSE, FALSE>>
  /\ want' = First /\ finished' = FALSE
  /\ UNCHANGED testdata_enb

\* The pipes empty: 16 clocks of sys_clk, then 4 of adc_clk.
ReleaseReset ==
  /\ in_reset # "none"
  /\ in_reset' = IF in_reset = "both" THEN "adc" ELSE "none"
  /\ UNCHANGED <<adcVars, stream, sysVars, testdata_enb>>

\* The CPU writes testdata_enb between acquisitions.
WriteTestEnable ==
  /\ testdata_enb' = ~testdata_enb
  /\ wr_state = "IDLE"
  /\ UNCHANGED <<in_reset, adcVars, stream, sysVars>>
-----------------------------------------------------------------------------
\* adc_clk.

tready == Len(stream) < FifoDepth

Retired == tvalid /\ tready

\* The word of the holding register moves on.
PushFifo ==
  stream' = IF Retired THEN Append(stream, [word |-> tdata, last |-> tlast]) ELSE stream

ClearIfRetired ==
  /\ tvalid' = (tvalid /\ ~tready)
  /\ tlast' = (tlast /\ ~Retired)
  /\ UNCHANGED tdata

\* test_sync is never driven: it keeps its declared value, zero.
test_sync == FALSE

\* done_sync has no driver either, and is compared with a copy of itself.
done_sync == FALSE
done_at_start == FALSE

IdleClock ==
  /\ wr_state = "IDLE"
  /\ ClearIfRetired
  /\ UNCHANGED <<wr_state, turn_count, burst_count, overflow, test_enable>>

Trigger ==
  /\ wr_state = "IDLE"
  /\ turn_count' = 0 /\ burst_count' = 0
  /\ test_enable' = test_sync
  /\ wr_state' = "RUN"
  /\ ClearIfRetired
  /\ UNCHANGED overflow

\* The schedule depends on the clock alone.
AdvanceTurn ==
  IF turn_count = TURN_CLOCKS - 1
  THEN /\ turn_count' = 0
       /\ burst_count' = IF burst_count < NUM_BURSTS - 1
                         THEN burst_count + 1 ELSE burst_count
  ELSE turn_count' = turn_count + 1 /\ UNCHANGED burst_count

Blocked == tvalid /\ ~tready

\* Mutant of IsFinal: any word of the last burst.
IsFinalBurst == burst_count = NUM_BURSTS - 1

IsFinal == burst_count = NUM_BURSTS - 1 /\ turn_count = CAPTURE_CLOCKS - 1

\* Mutant of Sample: a sample overwrites the word that is blocked.
SampleOverwrites ==
  /\ wr_state = "RUN"
  /\ turn_count < CAPTURE_CLOCKS
  /\ AdvanceTurn
  /\ tvalid' = TRUE
  /\ tdata' = [burst |-> burst_count, turn |-> turn_count]
  /\ tlast' = IsFinal
  /\ wr_state' = IF IsFinal THEN "DRAIN" ELSE "RUN"
  /\ UNCHANGED <<overflow, test_enable>>

Sample ==
  /\ wr_state = "RUN"
  /\ turn_count < CAPTURE_CLOCKS
  /\ ~Blocked
  /\ AdvanceTurn
  /\ tvalid' = TRUE
  /\ tdata' = [burst |-> burst_count, turn |-> turn_count]
  /\ tlast' = IsFinal
  /\ wr_state' = IF IsFinal THEN "DRAIN" ELSE "RUN"
  /\ UNCHANGED <<overflow, test_enable>>

\* Mutant of Overflow: the sample is skipped and the capture goes on.
OverflowSkips ==
  /\ wr_state = "RUN"
  /\ turn_count < CAPTURE_CLOCKS
  /\ Blocked
  /\ AdvanceTurn
  /\ overflow' = TRUE
  /\ ClearIfRetired
  /\ UNCHANGED <<wr_state, test_enable>>

\* The sample cannot be stored: the capture is given up.
Overflow ==
  /\ wr_state = "RUN"
  /\ turn_count < CAPTURE_CLOCKS
  /\ Blocked
  /\ AdvanceTurn
  /\ overflow' = TRUE
  /\ wr_state' = "FAULT"
  /\ ClearIfRetired
  /\ UNCHANGED test_enable

\* The clocks of the turn in which nothing is captured.
BetweenBursts ==
  /\ wr_state = "RUN"
  /\ turn_count >= CAPTURE_CLOCKS
  /\ AdvanceTurn
  /\ ClearIfRetired
  /\ UNCHANGED <<wr_state, overflow, test_enable>>

\* DRAIN and FAULT: only the holding register still moves.
DrainClock ==
  /\ wr_state \in {"DRAIN", "FAULT"}
  /\ ClearIfRetired
  /\ wr_state' = IF wr_state = "DRAIN" /\ done_sync # done_at_start
                 THEN "IDLE" ELSE wr_state
  /\ UNCHANGED <<turn_count, burst_count, overflow, test_enable>>

AdcClock ==
  /\ in_reset = "none"
  /\ PushFifo
  /\ IdleClock \/ Sample \/ Overflow \/ BetweenBursts \/ DrainClock
  /\ UNCHANGED <<in_reset, sysVars, testdata_enb>>

\* A clock with the trigger; only an idle engine takes it.
TriggerClock ==
  /\ in_reset = "none"
  /\ PushFifo /\ Trigger
  /\ UNCHANGED <<in_reset, sysVars, testdata_enb>>
-----------------------------------------------------------------------------
\* sys_clk: busy is synchronised, and a word leaves the FIFO if the width
\* converter is ready for it.
SyncBusy == busy_sync' = <<wr_state # "IDLE", busy_sync[1]>>

Take ==
  /\ in_reset # "both"
  /\ stream # <<>>
  /\ stream' = Tail(stream)
  /\ want' = Successor(Head(stream).word)
  /\ finished' = (finished \/ Head(stream).last)
  /\ SyncBusy
  /\ UNCHANGED <<in_reset, adcVars, testdata_enb>>

NotReady ==
  /\ in_reset # "both"
  /\ SyncBusy
  /\ UNCHANGED <<in_reset, adcVars, stream, want, finished, testdata_enb>>
-----------------------------------------------------------------------------
EngineStep == AssertReset \/ ReleaseReset \/ WriteTestEnable \/ AdcClock \/ Take \/ NotReady

CaptureNext == EngineStep \/ TriggerClock

CaptureSpec == CaptureInit /\ [][CaptureNext]_captureVars
-----------------------------------------------------------------------------
\* Type invariant.
CaptureTypeOK ==
  /\ in_reset \in {"both", "adc", "none"}
  /\ wr_state \in {"IDLE", "RUN", "DRAIN", "FAULT"}
  /\ turn_count \in 0 .. TURN_CLOCKS - 1
  /\ burst_count \in 0 .. NUM_BURSTS - 1
  /\ tvalid \in BOOLEAN /\ tlast \in BOOLEAN /\ tdata \in Word
  /\ overflow \in BOOLEAN
  /\ testdata_enb \in BOOLEAN /\ test_enable \in BOOLEAN
  /\ stream \in Seq([word : Word, last : BOOLEAN]) /\ Len(stream) <= FifoDepth
  /\ busy_sync \in BOOLEAN \X BOOLEAN
  /\ want \in Word \union {Successor(Final)} /\ finished \in BOOLEAN

\* The words on their way, oldest first.
Pipe == stream \o (IF tvalid THEN <<[word |-> tdata, last |-> tlast]>> ELSE <<>>)

\* The width converter gets the scheduled samples without a gap, a repetition
\* or a change of order, under any pattern of back-pressure, up to an overflow
\* and beyond it.
InSequence ==
  /\ Pipe # <<>> => Head(Pipe).word = want
  /\ \A i \in 2 .. Len(Pipe) : Pipe[i].word = Successor(Pipe[i - 1].word)

\* adc2dma.vhd:12: TLAST marks only the final word of the entire acquisition,
\* and that word always carries it.
OnlyFinalIsLast == \A i \in 1 .. Len(Pipe) : Pipe[i].last <=> Pipe[i].word = Final

\* The transfer ends, or is bound to end, with TLAST exactly when every sample
\* of the schedule was stored; after an overflow it never does.
LastMeansComplete ==
  /\ overflow => ~finished /\ \A i \in 1 .. Len(Pipe) : ~Pipe[i].last
  /\ wr_state = "DRAIN" => finished \/ \E i \in 1 .. Len(Pipe) : Pipe[i].last
  /\ finished => want = Successor(Final) /\ Pipe = <<>>
=============================================================================
