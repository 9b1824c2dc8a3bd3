---------------------------- MODULE FifoReadout -----------------------------
(***************************************************************************)
(* The short acquisition path: soft_trig (control.c) triggers the four     *)
(* adc_data_rdout engines, which fill one FIFO per channel and raise       *)
(* wrdone; the adcdata daemon polls wrdone, reads every channel word by    *)
(* word, sends one message per channel and acknowledges with a pulse of    *)
(* rdoutdone.  rfadc_reset, which is up while the PLL of the ADC clock has  *)
(* not locked, resets the engines at any time and the daemon never.        *)
(*                                                                         *)
(* The unit is a group: one 256-bit FIFO word, 12 samples, eight reads of  *)
(* the CPU.  A group is identified with the acquisition it was taken by;   *)
(* reading an empty FIFO gives Junk.  The engines run in lock step, so one *)
(* state stands for all of them.  A reset between the eight reads of a     *)
(* group is one before or after the group.                                 *)
(***************************************************************************)
EXTENDS Integers, Sequences

CONSTANTS NumChannel,  \* channels the daemon reads (8)
          Built,       \* channels with an engine and a FIFO (0..3)
          Captured,    \* groups one acquisition writes (4000)
          Groups,      \* groups one message holds, ADC_MAX_LEN / 12 (8000)
          Depth,       \* groups a FIFO holds (4096)
          MaxTrig,     \* bound: soft triggers in a behaviour
          Junk

ASSUME ReadoutAssumption ==
  /\ NumChannel \in Nat \ {0} /\ Built \subseteq 0 .. NumChannel - 1
  /\ Captured \in Nat \ {0} /\ Groups \in Nat /\ Depth \in Nat
  /\ Captured <= Groups /\ Captured <= Depth
  /\ MaxTrig \in Nat
  /\ Junk \notin Nat

Channel == 0 .. NumChannel - 1

VARIABLES
  spc, issued,  \* soft_trig: step, and triggers issued (bound)
  st,           \* engine: state
  acq, sample,  \* engine: acquisition in progress, sample_num
  wrdone,       \* engine: fifo_wrdone
  done, seen,   \* register rdoutdone, and fifo_rdoutdone_s in the ADC domain
  sys_rst,      \* rfadc_reset, as long as it is up
  rst,          \* fifo_rst is asserted
  fifo,         \* per channel
  dpc, ch, msg, \* daemon: step, channel, samples read
  got,          \* history: acquisition the daemon is reading
  torn          \* history: the acquisition or its message was cut into by a reset

swVars == <<spc, issued>>
engVars == <<sys_rst, st, acq, sample, wrdone, seen, rst, fifo, torn>>
damVars == <<dpc, ch, msg, got, done>>
vars == <<swVars, engVars, damVars>>

\* Power-up: the PLL has not locked.
Init ==
  /\ spc = "idle" /\ issued = 0
  /\ st = "IDLE" /\ acq = 0 /\ sample = 0
  /\ sys_rst = TRUE /\ rst = TRUE
  /\ wrdone = FALSE /\ done = FALSE /\ seen = FALSE
  /\ fifo = [c \in Built |-> <<>>]
  /\ dpc = "poll" /\ ch = 0 /\ msg = <<>> /\ got = 0 /\ torn = FALSE
-----------------------------------------------------------------------------
\* soft_trig writes the FIFO reset register, which no engine is connected to,
\* and 10 ms later pulses the trigger.
SoftClear ==
  /\ spc = "idle"
  /\ issued < MaxTrig
  /\ issued' = issued + 1
  /\ spc' = "cleared"
  /\ UNCHANGED <<engVars, damVars>>

\* The pulse of the trigger register.
SoftPulse == spc = "cleared" /\ spc' = "idle" /\ UNCHANGED issued

Listening == st = "IDLE" /\ ~sys_rst

\* Mutant of Triggered: an engine that waits for the daemon is triggered too.
TriggeredWaiting ==
  /\ IF Listening \/ st = "RDOUT_WAIT"
     THEN st' = "ARM" /\ rst' = FALSE /\ acq' = acq + 1 /\ torn' = (dpc = "read")
     ELSE UNCHANGED <<st, rst, acq, torn>>
  /\ UNCHANGED <<sys_rst, sample, wrdone, seen, fifo>>

\* The engines get the trigger; they are deaf to it unless idle.  Like any idle
\* clock it takes fifo_rst back.  If the daemon is still reading, it takes what
\* the engines write now away before it knows of it.
Triggered ==
  /\ IF Listening
     THEN st' = "ARM" /\ rst' = FALSE /\ acq' = acq + 1 /\ torn' = (dpc = "read")
     ELSE UNCHANGED <<st, rst, acq, torn>>
  /\ UNCHANGED <<sys_rst, sample, wrdone, seen, fifo>>

-----------------------------------------------------------------------------
\* adc_data_rdout, in the ADC clock domain.

\* Mutant of SysReset: it does not reach the FIFOs.
SysResetUnwired ==
  /\ ~sys_rst
  /\ sys_rst' = TRUE
  /\ st' = "IDLE" /\ sample' = 0
  /\ wrdone' = FALSE /\ seen' = FALSE
  /\ torn' = (dpc = "read")
  /\ UNCHANGED <<acq, rst, fifo>>

\* The reset takes everything back and empties the FIFOs; rdoutdone and the
\* daemon are not in its reach.
SysReset ==
  /\ ~sys_rst
  /\ sys_rst' = TRUE
  /\ st' = "IDLE" /\ sample' = 0
  /\ wrdone' = FALSE /\ seen' = FALSE
  /\ rst' = TRUE /\ fifo' = [c \in Built |-> <<>>]
  /\ torn' = (dpc = "read")
  /\ UNCHANGED acq

SysRelease ==
  /\ sys_rst
  /\ sys_rst' = FALSE
  /\ UNCHANGED <<swVars, st, acq, sample, wrdone, seen, rst, fifo, torn, damVars>>

\* The first idle clock after it.
Settle ==
  /\ Listening /\ rst
  /\ rst' = FALSE
  /\ UNCHANGED <<swVars, sys_rst, st, acq, sample, wrdone, seen, fifo, torn, damVars>>

Arm ==
  /\ st = "ARM"
  /\ st' = "WR_FIFO" /\ sample' = 0
  /\ UNCHANGED <<swVars, sys_rst, acq, wrdone, seen, rst, fifo, torn, damVars>>

\* One word per clock until sample_num is 4000; the word of that clock is not
\* written any more.  A full FIFO drops the word.
Write ==
  /\ st = "WR_FIFO"
  /\ IF sample = Captured
     THEN st' = "RDOUT_WAIT" /\ UNCHANGED <<sample, fifo>>
     ELSE /\ sample' = sample + 1
          /\ fifo' = [c \in Built |-> IF Len(fifo[c]) < Depth
                                      THEN Append(fifo[c], acq) ELSE fifo[c]]
          /\ UNCHANGED st
  /\ UNCHANGED <<swVars, sys_rst, acq, wrdone, seen, rst, torn, damVars>>

RaiseDone ==
  /\ st = "RDOUT_WAIT"
  /\ ~wrdone /\ ~seen
  /\ wrdone' = TRUE
  /\ UNCHANGED <<swVars, sys_rst, st, acq, sample, seen, rst, fifo, torn, damVars>>

EndWait ==
  /\ st = "RDOUT_WAIT"
  /\ seen
  /\ wrdone' = FALSE
  /\ st' = "FIFO_RESET"
  /\ UNCHANGED <<swVars, sys_rst, acq, sample, seen, rst, fifo, torn, damVars>>

\* fifo_rst for 20 clocks empties the FIFOs.
Reset ==
  /\ st = "FIFO_RESET"
  /\ IF ~rst
     THEN rst' = TRUE /\ fifo' = [c \in Built |-> <<>>] /\ UNCHANGED st
     ELSE rst' = FALSE /\ st' = "IDLE" /\ UNCHANGED fifo
  /\ UNCHANGED <<swVars, sys_rst, acq, sample, wrdone, seen, torn, damVars>>

\* rdoutdone crosses into the ADC clock domain.  An engine that waits takes the
\* level on the clock after it rises, so it cannot fall before EndWait.
SyncDone ==
  /\ ~sys_rst /\ seen # done
  /\ ~(seen /\ st = "RDOUT_WAIT")
  /\ seen' = done
  /\ UNCHANGED <<swVars, sys_rst, st, acq, sample, wrdone, rst, fifo, torn, damVars>>

Engine == Settle \/ Arm \/ Write \/ RaiseDone \/ EndWait \/ Reset \/ SyncDone
-----------------------------------------------------------------------------
\* adcdata_push.  Between two polls there are 10 ms, long enough for a change
\* of rdoutdone to have crossed (seen = done).

Poll ==
  /\ dpc = "poll"
  /\ seen = done
  /\ wrdone
  /\ dpc' = "read" /\ ch' = 0 /\ msg' = <<>> /\ got' = acq
  /\ UNCHANGED <<swVars, engVars, done>>

ReadGroup ==
  /\ dpc = "read"
  /\ Len(msg) < Groups
  /\ IF ch \in Built /\ fifo[ch] # <<>>
     THEN /\ msg' = Append(msg, Head(fifo[ch]))
          /\ fifo' = [fifo EXCEPT ![ch] = Tail(@)]
     ELSE /\ msg' = Append(msg, Junk)
          /\ UNCHANGED fifo
  /\ UNCHANGED <<swVars, sys_rst, st, acq, sample, wrdone, seen, rst, torn,
                 dpc, ch, got, done>>

\* Mutant of SendChannel: rdoutdone is not set after the last channel.
SendChannelUnanswered ==
  /\ dpc = "read"
  /\ Len(msg) = Groups
  /\ msg' = <<>>
  /\ IF ch + 1 \in Channel
     THEN ch' = ch + 1 /\ UNCHANGED <<dpc, done>>
     ELSE ch' = 0 /\ dpc' = "ack" /\ UNCHANGED done
  /\ UNCHANGED <<swVars, engVars, got>>

\* psc_send of message 60 + ch; after the last channel rdoutdone is set.
SendChannel ==
  /\ dpc = "read"
  /\ Len(msg) = Groups
  /\ msg' = <<>>
  /\ IF ch + 1 \in Channel
     THEN ch' = ch + 1 /\ UNCHANGED <<dpc, done>>
     ELSE ch' = 0 /\ dpc' = "ack" /\ done' = TRUE
  /\ UNCHANGED <<swVars, engVars, got>>

\* The pulse is longer than the synchroniser, however short it is, but nothing
\* crosses during the reset.
ClearDone ==
  /\ dpc = "ack"
  /\ seen \/ sys_rst
  /\ done' = FALSE
  /\ dpc' = "poll"
  /\ UNCHANGED <<swVars, engVars, ch, msg, got>>

Daemon == Poll \/ ReadGroup \/ SendChannel \/ ClearDone
-----------------------------------------------------------------------------
\* Triggers and resets come when they want.
Next ==
  \/ SoftClear \/ Engine \/ SysRelease \/ Daemon
  \/ SysReset /\ UNCHANGED <<swVars, damVars>>
  \/ SoftPulse /\ UNCHANGED <<engVars, damVars>>
  \/ acq < MaxTrig /\ Triggered /\ UNCHANGED <<swVars, damVars>>

Spec == Init /\ [][Next]_vars
-----------------------------------------------------------------------------
\* Type invariant.
TypeOK ==
  /\ spc \in {"idle", "cleared"} /\ issued \in 0 .. MaxTrig
  /\ st \in {"IDLE", "ARM", "WR_FIFO", "RDOUT_WAIT", "FIFO_RESET"}
  /\ acq \in 0 .. MaxTrig /\ sample \in 0 .. Captured
  /\ wrdone \in BOOLEAN /\ done \in BOOLEAN /\ seen \in BOOLEAN
  /\ sys_rst \in BOOLEAN /\ rst \in BOOLEAN /\ torn \in BOOLEAN
  /\ fifo \in [Built -> Seq(1 .. MaxTrig)]
  /\ \A c \in Built : Len(fifo[c]) <= Depth
  /\ dpc \in {"poll", "read", "ack"} /\ ch \in Channel
  /\ msg \in Seq(1 .. MaxTrig \union {Junk}) /\ Len(msg) <= Groups
  /\ got \in 0 .. MaxTrig

\* The first Captured groups of every message of a built channel are the whole
\* acquisition the daemon was told about: the same one on all channels, none
\* missing, although triggers may come at any time while the daemon reads.  A
\* reset while it reads spoils the messages of that acquisition, and of the one
\* that begins before the daemon is through with them, and no others.  Not even
\* those hold a group that is left over from an earlier acquisition.
MessageStartsWithAcquisition ==
  (dpc = "read" /\ ch \in Built) =>
    \A i \in 1 .. Len(msg) :
      /\ i <= Captured /\ ~torn => msg[i] = got
      /\ msg[i] # Junk => msg[i] >= got

\* While the daemon reads, the engines neither write to the FIFOs nor reset
\* them: they wait for rdoutdone, unless rfadc_reset took them back; and when
\* they were triggered again after it, they still do not reset the FIFOs.
EnginesWaitForDaemon ==
  dpc = "read" =>
    /\ ~torn => st = "RDOUT_WAIT" /\ wrdone /\ acq = got
    /\ st # "FIFO_RESET"

\* A finished acquisition that the engine announces is read out, and the path
\* is ready for another trigger again.
ReadyAgain == wrdone ~> (st = "IDLE" /\ ~wrdone)
=============================================================================
