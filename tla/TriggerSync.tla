---------------------------- MODULE TriggerSync -----------------------------
(***************************************************************************)
(* trigger_sync.vhd, clock by clock: a soft trigger arms it, the next      *)
(* turn-by-turn (TbT) event of the timing system starts two countdowns,    *)
(* and each countdown ends in a pulse of one clock, one for the FIFO path  *)
(* and one for the DMA path.                                               *)
(*                                                                         *)
(* One step is one edge of adc_clk, or an asserted adc_rst.  The inputs    *)
(* come from other clock domains and may have any value at any edge; so    *)
(* may the two delay registers, which the CPU can write at any time and    *)
(* which cross into this domain bit by bit.                                *)
(***************************************************************************)
EXTENDS Integers

CONSTANT MaxDelay     \* largest delay, 2^DELAY_WIDTH - 1

ASSUME DelayAssumption == MaxDelay \in Nat

Out == {"fifo", "dma"}
Bit == {0, 1}
Delay == 0 .. MaxDelay
NoEdge == -1

VARIABLES
  tbt, soft,   \* tbt_sync(0), tbt_sync(1), tbt_d; and the same for soft
  state,
  count, pending,  \* fifo_count and dma_count; fifo_pending and dma_pending
  pulse,       \* sync_trig_out_fifo, sync_trig_out_dma
  armed,
  set,         \* history: the delays that were latched
  age          \* history: clocks since the TbT edge that was taken

vars == <<tbt, soft, state, count, pending, pulse, armed, set, age>>

Both(b) == [o \in Out |-> b]

\* The values of the declarations.
Init ==
  /\ tbt = <<0, 0, 0>> /\ soft = <<0, 0, 0>>
  /\ state = "IDLE"
  /\ count = Both(0) /\ pending = Both(0)
  /\ pulse = Both(0) /\ armed = 0
  /\ set = Both(0) /\ age = NoEdge

-----------------------------------------------------------------------------
\* Mutants of Rising: the level instead of the edge; the edge one stage early.
RisingLevel(sr) == sr[2] = 1
RisingEarly(sr) == sr[1] = 1 /\ sr[2] = 0

\* A rising edge behind the synchroniser of two stages.
Rising(sr) == sr[2] = 1 /\ sr[3] = 0

Shift == \E t, s \in Bit : /\ tbt' = <<t, tbt[1], tbt[2]>>
                           /\ soft' = <<s, soft[1], soft[2]>>

\* IDLE, soft trigger: both delays are latched.
Arm ==
  /\ state = "IDLE" /\ Rising(soft)
  /\ count' \in [Out -> Delay]
  /\ pending' = Both(0)
  /\ pulse' = Both(0)
  /\ armed' = 1
  /\ state' = "WAIT_TBT"
  /\ set' = count' /\ age' = NoEdge

\* IDLE or WAIT_TBT without its edge.
Stay ==
  /\ \/ state = "IDLE" /\ ~Rising(soft)
     \/ state = "WAIT_TBT" /\ ~Rising(tbt)
  /\ pulse' = Both(0)
  /\ age' = NoEdge
  /\ UNCHANGED <<state, count, pending, armed, set>>

\* Mutant of TakeTbt: a delay of zero is counted down like any other.
TakeTbtZeroPending ==
  /\ state = "WAIT_TBT" /\ Rising(tbt)
  /\ pulse' = Both(0)
  /\ pending' = Both(1)
  /\ state' = "DELAY_TRIGGERS"
  /\ age' = 0
  /\ UNCHANGED <<armed, count, set>>

\* WAIT_TBT, TbT edge: an output with delay zero fires at once.
TakeTbt ==
  /\ state = "WAIT_TBT" /\ Rising(tbt)
  /\ pulse' = [o \in Out |-> IF count[o] = 0 THEN 1 ELSE 0]
  /\ pending' = [o \in Out |-> IF count[o] = 0 THEN 0 ELSE 1]
  /\ IF count = Both(0)
     THEN armed' = 0 /\ state' = "IDLE"
     ELSE state' = "DELAY_TRIGGERS" /\ UNCHANGED armed
  /\ age' = 0
  /\ UNCHANGED <<count, set>>

\* Mutant of Due: the countdown runs to zero.
DueLate(o) == pending[o] = 1 /\ count[o] = 0

\* Subtraction in the width of the counter.
Dec(n) == IF n = 0 THEN MaxDelay ELSE n - 1

Due(o) == pending[o] = 1 /\ count[o] = 1

Countdown ==
  /\ state = "DELAY_TRIGGERS"
  /\ pulse' = [o \in Out |-> IF Due(o) THEN 1 ELSE 0]
  /\ pending' = [o \in Out |-> IF Due(o) THEN 0 ELSE pending[o]]
  /\ count' = [o \in Out |-> IF pending[o] = 1 THEN Dec(count[o]) ELSE count[o]]
  /\ age' = age + 1
  /\ UNCHANGED set

\* Mutant of Finished: one output is enough.
FinishedEither == \E o \in Out : pending[o] = 0 \/ count[o] = 1

\* "Both outputs have fired, or finish on this edge."
Finished == \A o \in Out : pending[o] = 0 \/ count[o] = 1

\* DELAY_TRIGGERS: armed falls together with the last pulse rising.
CountClock ==
  /\ Countdown
  /\ IF Finished
     THEN armed' = 0 /\ state' = "IDLE"
     ELSE UNCHANGED <<armed, state>>

Clock == Shift /\ (Arm \/ Stay \/ TakeTbt \/ CountClock)

\* adc_rst brings the same values back.
Reset ==
  /\ tbt' = <<0, 0, 0>> /\ soft' = <<0, 0, 0>>
  /\ state' = "IDLE"
  /\ count' = Both(0) /\ pending' = Both(0)
  /\ pulse' = Both(0) /\ armed' = 0
  /\ set' = Both(0) /\ age' = NoEdge

Next == Clock \/ Reset

Spec == Init /\ [][Next]_vars
-----------------------------------------------------------------------------
\* Type invariant; a countdown that is pending never starts from zero, from
\* where it would wrap around to 2^DELAY_WIDTH - 1 clocks.
TypeOK ==
  /\ tbt \in Bit \X Bit \X Bit /\ soft \in Bit \X Bit \X Bit
  /\ state \in {"IDLE", "WAIT_TBT", "DELAY_TRIGGERS"}
  /\ count \in [Out -> Delay]
  /\ pending \in [Out -> Bit] /\ pulse \in [Out -> Bit]
  /\ armed \in Bit
  /\ set \in [Out -> Delay]
  /\ age \in Delay \union {NoEdge}
  /\ \A o \in Out : pending[o] = 1 => count[o] # 0

\* Each output pulses on exactly one clock after the TbT edge: the one its
\* latched delay names, whatever the other output, the delay registers and
\* further soft triggers and TbT events do meanwhile.
PulsesOnTime == \A o \in Out : pulse[o] = 1 <=> age = set[o]

\* armed stays high up to the later of the two pulses and no longer: neither
\* can an early finish swallow the later pulse nor is a soft trigger missed
\* after it.
ArmedUntilBothFired ==
  age # NoEdge => (armed = 1 <=> \E o \in Out : age < set[o])
=============================================================================
