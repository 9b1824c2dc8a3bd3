--------------------------- MODULE DmaAcquisition ---------------------------
(***************************************************************************)
(* One soft-triggered acquisition through the DMA path, end to end: the    *)
(* handlers that run soft_trig (control.c), the trigger synchroniser, the  *)
(* capture engine adc2dma with its FIFO, the width converter behind it,    *)
(* the AXI DMA core that writes the samples to DDR, and the dmadata daemon *)
(* that arms the DMA, waits and sends what it finds in DDR.                *)
(*                                                                         *)
(* Three resets meet here.  dma_arm resets engine and FIFO, then the DMA   *)
(* core; rfadc_reset, which comes when the ADC clock is lost, resets the   *)
(* trigger synchroniser, the engine and its FIFO.  Neither reaches the     *)
(* width converter, which is reset with the board alone (system.tcl).      *)
(*                                                                         *)
(* An acquisition is NumChunk chunks of samples; the daemon sends the      *)
(* first SentChunk of them (8192 of the 10000 turns).  A chunk is          *)
(* identified with the capture it was taken by, 1, 2, ...; 0 is what DDR   *)
(* held before the first.  The length dma_arm programs is larger than one  *)
(* acquisition: LenChunk chunks.                                           *)
(***************************************************************************)
EXTENDS Integers, Sequences

CONSTANTS Client,      \* handler threads that run reg_settings
          MaxTrig,     \* bound: soft triggers in a behaviour
          NumChunk, SentChunk, LenChunk,
          FifoDepth,   \* chunks the stream FIFO holds
          None

ASSUME AcquisitionAssumption ==
  /\ MaxTrig \in Nat
  /\ SentChunk \in Nat \ {0} /\ NumChunk \in Nat /\ LenChunk \in Nat
  /\ SentChunk <= NumChunk /\ NumChunk <= LenChunk
  /\ FifoDepth \in Nat \ {0}


VARIABLES
  cnt,     \* soft_trig_cnt
  issued,  \* soft triggers issued so far (bound)
  cpc, creg,  \* clients: step of soft_trig, value loaded by soft_trig_cnt++
  trig,    \* trigger_sync: "idle", "wait" for TbT, "delay"
  pend,    \* trigger_sync.dma_pending
  cap,     \* adc2dma: state, capture id, chunk to take next
  caps,    \* captures started so far
  fifo,    \* stream FIFO
  conv,    \* width converter: the chunk it holds, if any
  dma,     \* S2MM channel: "reset", "run", "done", and the next chunk's place
  ddr,     \* the part of the buffer at ADC_DMA_DATA that is sent
  dpc, prev,   \* daemon: step, prev_soft_trig_cnt
  copy,    \* adc_ch0..3: the samples read so far
  early,   \* timing: a capture that began in the first part of the delay
  fresh,   \* history: the DMA has been started, and nothing is on its way to it
  intime   \* history: capture that began in this cycle, early enough, with the
           \* DMA fresh, and that no rfadc_reset has cut off

cliVars == <<cnt, issued, cpc, creg>>
plVars == <<trig, pend, cap, caps, fifo, conv, dma, ddr>>
damVars == <<dpc, prev, copy, early, fresh, intime>>
vars == <<cliVars, plVars, damVars>>

NoCapture == [st |-> "idle", id |-> 0, next |-> 1]
DmaReset == [st |-> "reset", pos |-> 1]

Init ==
  /\ cnt = 0 /\ issued = 0
  /\ cpc = [c \in Client |-> "idle"] /\ creg = [c \in Client |-> 0]
  /\ trig = "idle" /\ pend = FALSE
  /\ cap = NoCapture /\ caps = 0
  /\ fifo = <<>> /\ conv = <<>>
  /\ dma = DmaReset
  /\ ddr = [k \in 1 .. SentChunk |-> 0]
  /\ dpc = "poll" /\ prev = 0
  /\ copy = <<>>
  /\ early = FALSE
  /\ fresh = FALSE /\ intime = None
-----------------------------------------------------------------------------
\* soft_trig(1), run by the handler of any client.

\* The counter is incremented by a load and a store; nothing protects it.
Load(c) ==
  /\ cpc[c] = "idle"
  /\ issued < MaxTrig
  /\ issued' = issued + 1
  /\ creg' = [creg EXCEPT ![c] = cnt]
  /\ cpc' = [cpc EXCEPT ![c] = "store"]
  /\ UNCHANGED <<cnt, plVars, damVars>>

Store(c) ==
  /\ cpc[c] = "store"
  /\ cnt' = creg[c] + 1
  /\ cpc' = [cpc EXCEPT ![c] = "trigger"]
  /\ UNCHANGED <<issued, creg, plVars, damVars>>

\* After a delay of 10 ms RFADC_FIFO_TRIG pulses.  trigger_sync arms on it
\* only when idle; the register writes before it reach nothing on this path.
Trigger(c) ==
  /\ cpc[c] = "trigger"
  /\ trig' = IF trig = "idle" THEN "wait" ELSE trig
  /\ cpc' = [cpc EXCEPT ![c] = "idle"]
  /\ UNCHANGED <<cnt, issued, creg, pend, cap, caps, fifo, conv, dma, ddr, damVars>>
-----------------------------------------------------------------------------
\* The programmable logic.

TbtEdge ==
  /\ trig = "wait"
  /\ trig' = "delay" /\ pend' = TRUE
  /\ UNCHANGED <<cliVars, cap, caps, fifo, conv, dma, ddr, damVars>>

\* The delayed DMA trigger: adc2dma starts a capture if it is idle and ignores
\* the trigger otherwise.
DmaTrigger ==
  /\ pend
  /\ pend' = FALSE
  /\ IF cap.st = "idle"
     THEN /\ caps' = caps + 1
          /\ cap' = [st |-> "run", id |-> caps + 1, next |-> 1]
          /\ intime' = IF dpc = "wait" /\ fresh THEN caps + 1 ELSE intime
          /\ fresh' = FALSE
     ELSE UNCHANGED <<cap, caps, fresh, intime>>
  /\ UNCHANGED <<cliVars, trig, fifo, conv, dma, ddr, dpc, prev, copy, early>>

\* The FIFO-path trigger is out too: trigger_sync is idle again.
TriggerDone ==
  /\ trig = "delay" /\ ~pend
  /\ trig' = "idle"
  /\ UNCHANGED <<cliVars, pend, cap, caps, fifo, conv, dma, ddr, damVars>>

\* Sampling never waits: with the FIFO full the capture is lost for good.
CaptureChunk ==
  /\ cap.st = "run"
  /\ IF Len(fifo) < FifoDepth
     THEN /\ fifo' = Append(fifo, [id |-> cap.id, last |-> cap.next = NumChunk])
          /\ cap' = IF cap.next = NumChunk
                    THEN [cap EXCEPT !.st = "drain"]
                    ELSE [cap EXCEPT !.next = @ + 1]
     ELSE /\ cap' = [cap EXCEPT !.st = "fault"]
          /\ UNCHANGED fifo
  /\ UNCHANGED <<cliVars, trig, pend, caps, conv, dma, ddr, damVars>>

\* The converter takes the next chunk from the FIFO when it has passed on the
\* last one, whether or not there is a DMA to take it.
Convert ==
  /\ fifo # <<>> /\ conv = <<>>
  /\ conv' = <<Head(fifo)>>
  /\ fifo' = Tail(fifo)
  /\ UNCHANGED <<cliVars, trig, pend, cap, caps, dma, ddr, damVars>>

ToDdr(k) == ddr' = IF k <= SentChunk
                   THEN [ddr EXCEPT ![k] = Head(conv).id] ELSE ddr

\* The DMA core takes a chunk when it has a length to fill.  TLAST or the end
\* of the length completes the transfer.
DmaWrite ==
  /\ conv # <<>>
  /\ dma.st = "run"
  /\ ToDdr(dma.pos)
  /\ dma' = IF Head(conv).last \/ dma.pos = LenChunk
            THEN [st |-> "done", pos |-> 1]
            ELSE [dma EXCEPT !.pos = @ + 1]
  /\ conv' = <<>>
  /\ UNCHANGED <<cliVars, trig, pend, cap, caps, fifo, damVars>>

\* rfadc_reset.  What happens in the logic while it is up comes to nothing: it
\* is as if it came again.  The converter, the DMA core and the CPU go on.
AdcReset ==
  /\ trig' = "idle" /\ pend' = FALSE
  /\ cap' = NoCapture /\ fifo' = <<>>
  /\ intime' = IF cap.st = "idle" \/ dma.st = "done" THEN intime ELSE None
  /\ UNCHANGED <<cliVars, caps, conv, dma, ddr, dpc, prev, copy, early, fresh>>
-----------------------------------------------------------------------------
\* dmadata_push: the daemon.

\* Every 10 ms the counter is compared with the last value that was served.
Poll ==
  /\ dpc = "poll"
  /\ cnt # prev
  /\ dpc' = "changed"
  /\ UNCHANGED <<cliVars, plVars, prev, copy, early, fresh, intime>>

\* Mutant of Remember: the count is acknowledged without an acquisition cycle.
RememberOnly ==
  /\ dpc = "changed"
  /\ prev' = cnt
  /\ dpc' = "poll"
  /\ UNCHANGED <<cliVars, plVars, copy, early, fresh, intime>>

\* A message is printed, then the counter is read again and remembered, and
\* arming begins.
Remember ==
  /\ dpc = "changed"
  /\ prev' = cnt
  /\ dpc' = "fiforst"
  /\ UNCHANGED <<cliVars, plVars, copy, early, fresh, intime>>

\* dma_arm, three register accesses that the logic can tell apart: reset the
\* capture engine and its FIFO, reset the DMA core, write the length.
ArmSteps == {"fiforst", "dmarst", "length", "refiforst", "redmarst", "relength"}
AfterArm(p) == CASE p = "fiforst" -> "dmarst" [] p = "dmarst" -> "length"
                 [] p = "length" -> "wait"
                 [] p = "refiforst" -> "redmarst" [] p = "redmarst" -> "relength"
                 [] p = "relength" -> "poll"

\* Mutant of FifoReset: the FIFO is reset but the capture engine is not.
EngineKept ==
  /\ dpc \in {"fiforst", "refiforst"}
  /\ fifo' = <<>>
  /\ dpc' = AfterArm(dpc)
  /\ fresh' = FALSE /\ intime' = None
  /\ UNCHANGED <<cliVars, trig, pend, cap, caps, conv, dma, ddr, prev, copy, early>>

\* Mutant of FifoReset: the capture engine is reset but its FIFO is not.
FifoKept ==
  /\ dpc \in {"fiforst", "refiforst"}
  /\ cap' = NoCapture
  /\ dpc' = AfterArm(dpc)
  /\ fresh' = FALSE /\ intime' = None
  /\ UNCHANGED <<cliVars, trig, pend, caps, fifo, conv, dma, ddr, prev, copy, early>>

\* What the converter holds of a capture that is given up here, it keeps.
FifoReset ==
  /\ dpc \in {"fiforst", "refiforst"}
  /\ cap' = NoCapture
  /\ fifo' = <<>>
  /\ dpc' = AfterArm(dpc)
  /\ fresh' = FALSE /\ intime' = None
  /\ UNCHANGED <<cliVars, trig, pend, caps, conv, dma, ddr, prev, copy, early>>

DmaCoreReset ==
  /\ dpc \in {"dmarst", "redmarst"}
  /\ dma' = DmaReset
  /\ dpc' = AfterArm(dpc)
  /\ UNCHANGED <<cliVars, trig, pend, cap, caps, fifo, conv, ddr,
                 prev, copy, early, fresh, intime>>

DmaLength ==
  /\ dpc \in {"length", "relength"}
  /\ dma' = [st |-> "run", pos |-> 1]
  /\ dpc' = AfterArm(dpc)
  /\ fresh' = (cap.st = "idle" /\ conv = <<>>)
  /\ UNCHANGED <<cliVars, trig, pend, cap, caps, fifo, conv, ddr,
                 prev, copy, early, intime>>

\* Part of a capture is still on its way to DDR.
UnderWay == cap.st = "run" \/ ((fifo # <<>> \/ conv # <<>>) /\ dma.st = "run")

\* The delay of 100 ms is four times as long as an acquisition (10000 turns):
\* what was captured or under way at "wait" is in DDR at its end.
WaitEnds ==
  /\ dpc = "wait"
  /\ early' = UnderWay
  /\ dpc' = "late"
  /\ UNCHANGED <<cliVars, plVars, prev, copy, fresh, intime>>

\* process_ADC_dma reads the buffer from its start.
StartRead ==
  /\ dpc = "late"
  /\ early => ~UnderWay
  /\ early' = FALSE
  /\ dpc' = "read"
  /\ UNCHANGED <<cliVars, plVars, prev, copy, fresh, intime>>

ReadChunk ==
  /\ dpc = "read"
  /\ Len(copy) < SentChunk
  /\ copy' = Append(copy, ddr[Len(copy) + 1])
  /\ UNCHANGED <<cliVars, plVars, dpc, prev, early, fresh, intime>>

\* psc_send of messages 70..73, then the DMA is armed again.  What was sent is
\* not looked at any more.
Push ==
  /\ dpc = "read"
  /\ Len(copy) = SentChunk
  /\ dpc' = "refiforst"
  /\ copy' = <<>>
  /\ UNCHANGED <<cliVars, plVars, prev, early, fresh, intime>>
-----------------------------------------------------------------------------
SoftTrig(c) == Load(c) \/ Store(c) \/ Trigger(c)
Fabric == DmaTrigger \/ TriggerDone \/ CaptureChunk \/ Convert \/ DmaWrite
Daemon == Poll \/ Remember \/ FifoReset \/ DmaCoreReset \/ DmaLength \/ WaitEnds
          \/ StartRead \/ ReadChunk \/ Push

Next == (\E c \in Client : SoftTrig(c)) \/ TbtEdge \/ Fabric \/ AdcReset \/ Daemon

Spec == Init /\ [][Next]_vars

\* Threads and clocked logic make progress; the TbT event need not come, nor a
\* reset.
FairSpec == /\ Spec
            /\ WF_vars(Fabric)
            /\ WF_vars(Daemon)
            /\ \A c \in Client : WF_vars(Store(c) \/ Trigger(c))
-----------------------------------------------------------------------------
\* A capture that begins after the DMA was armed, and early enough in the
\* daemon's fixed delay, is what is sent: every chunk is its own, in its place,
\* whatever other triggers, aborted captures and old FIFO contents were about.
\* That takes a width converter with nothing left over when the DMA was started
\* (fresh), which nothing in dma_arm sees to, and no rfadc_reset between the
\* trigger and the end of the transfer.
InTimeCaptureIsSent ==
  (/\ dpc = "read" /\ Len(copy) = SentChunk
   /\ intime # None /\ cap.st # "fault")
    => \A i \in 1 .. SentChunk : copy[i] = intime

\* Two clients are between the load and the store of soft_trig_cnt++.
Overlap == \E c, d \in Client : c # d /\ cpc[c] = "store" /\ cpc[d] = "store"

\* Every counted soft trigger is followed by an acquisition cycle of the daemon
\* that starts after it and ends by sending; triggers that come while the
\* daemon is busy are served together afterwards.  Overlapping increments have
\* to be excluded: a late store brings back a count that was served before,
\* and the daemon does not see the triggers in between.
EveryTriggerServed ==
  []~Overlap =>
    /\ \A n \in 1 .. MaxTrig :
         (cnt = n /\ prev < n) ~> (prev >= n /\ dpc = "fiforst")
    /\ (dpc = "fiforst") ~> (dpc = "refiforst")

\* A capture that is over keeps the engine deaf (in DRAIN its acknowledgement
\* is never driven, FAULT has no way out) but not for longer than until the
\* next trigger that is counted is served: arming resets it.
EngineFreed ==
  []~Overlap => (cap.st \in {"drain", "fault"} /\ cnt # prev) ~> (cap.st = "idle")
=============================================================================
