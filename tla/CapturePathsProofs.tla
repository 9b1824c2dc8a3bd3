------------------------- MODULE CapturePathsProofs -------------------------
(***************************************************************************)
(* Proofs about the two capture paths.  FifoReadout and Adc2Dma keep their *)
(* promises, for any number of channels, groups, triggers and bursts, any  *)
(* length of a turn and any depth of the FIFOs; and driven by one trigger  *)
(* the two behave as these modules say, so that what is proved of each     *)
(* holds of both together, and a trigger that finds both idle reaches both.*)
(***************************************************************************)
EXTENDS CapturePaths, SequenceTheorems, TLAPS

-----------------------------------------------------------------------------
(***************************************************************************)
(* FifoReadout.  The FIFOs hold groups of the acquisition in progress      *)
(* alone, and as many as the handshake says unless a reset cut into it.    *)
(***************************************************************************)
\* Groups of the channel that is being read which are still in its FIFO.
Unread == IF Len(msg) < Captured THEN Captured - Len(msg) ELSE 0

\* wrdone is up in RDOUT_WAIT alone, and down before the FIFOs are reset; the
\* daemon reads between a rise of wrdone and the answer.  After a reset the
\* engines are idle, or as far as a later trigger has brought them, while the
\* daemon still reads; without its answer they do not come to FIFO_RESET.
Handshake ==
  /\ done <=> dpc = "ack"
  /\ wrdone => st = "RDOUT_WAIT"
  /\ st # "IDLE" => acq >= 1
  /\ rst => st \in {"IDLE", "FIFO_RESET"}
  /\ sys_rst => st = "IDLE" /\ rst /\ ~seen
  /\ dpc = "read" => ~seen /\ st # "FIFO_RESET" /\ got <= acq
  /\ dpc = "read" /\ ~torn => st = "RDOUT_WAIT" /\ wrdone /\ acq = got

OneAcquisition == \A c \in Built : \A i \in 1 .. Len(fifo[c]) : fifo[c][i] = acq

EmptyWhenIdle == st \in {"IDLE", "ARM"} \/ rst => \A c \in Built : fifo[c] = <<>>

\* How much the FIFOs hold in each state of an engine no reset cut into.  In
\* RDOUT_WAIT the synchronised copy of rdoutdone tells whether they have been read.
Contents ==
  ~torn => \A c \in Built :
    /\ st = "WR_FIFO" => Len(fifo[c]) = sample
    /\ st = "RDOUT_WAIT" /\ dpc = "poll" /\ ~seen => Len(fifo[c]) = Captured
    /\ dpc = "read" /\ c > ch => Len(fifo[c]) = Captured
    /\ dpc = "read" /\ c = ch => Len(fifo[c]) = Unread

ReadoutInv ==
  /\ TypeOK /\ Handshake /\ OneAcquisition /\ EmptyWhenIdle /\ Contents
  /\ MessageStartsWithAcquisition
-----------------------------------------------------------------------------
LEMMA InitHolds == Init => ReadoutInv
<1> SUFFICES ASSUME Init PROVE ReadoutInv
  OBVIOUS
<1>1. TypeOK
  <2>1. /\ <<>> \in Seq(1 .. MaxTrig) /\ <<>> \in Seq(1 .. MaxTrig \union {Junk})
        /\ Len(<<>>) = 0
    BY EmptySeq
  <2>2. 0 \in Channel /\ 0 \in 0 .. MaxTrig /\ 0 \in 0 .. Captured /\ 0 <= Depth /\ 0 <= Groups
    BY ReadoutAssumption DEF Channel
  <2> QED BY <2>1, <2>2 DEF Init, TypeOK
<1>2. Handshake
  BY DEF Init, Handshake
<1>3. OneAcquisition /\ EmptyWhenIdle
  BY EmptySeq DEF Init, OneAcquisition, EmptyWhenIdle
<1>4. Contents /\ MessageStartsWithAcquisition
  BY DEF Init, Contents, MessageStartsWithAcquisition
<1> QED BY <1>1, <1>2, <1>3, <1>4 DEF ReadoutInv

\* What leaves the FIFOs, the message and the phase of the handshake alone
\* needs to keep types and handshake only.
LEMMA QuietStep ==
  ASSUME ReadoutInv, TypeOK', Handshake',
         UNCHANGED <<fifo, dpc, ch, msg, got>>,
         acq' = acq \/ st = "IDLE",
         (st' \in {"IDLE", "ARM"} \/ rst') => (st \in {"IDLE", "ARM"} \/ rst),
         torn' = torn \/ (st' = "ARM" /\ dpc # "read"),
         st' = "WR_FIFO" =>
             \/ st = "ARM" /\ sample' = 0
             \/ st = "WR_FIFO" /\ sample' = sample,
         st' = "RDOUT_WAIT" /\ ~seen' =>
             \/ st = "RDOUT_WAIT" /\ ~seen
             \/ st = "WR_FIFO" /\ sample = Captured
  PROVE  ReadoutInv'
<1>1. OneAcquisition' /\ EmptyWhenIdle'
  BY EmptySeq DEF ReadoutInv, OneAcquisition, EmptyWhenIdle
<1>2. Contents'
  <2>1. CASE torn' # torn
    BY <2>1 DEF Contents
  <2>2. CASE torn' = torn
    <3> SUFFICES ASSUME ~torn, NEW c \in Built
        PROVE  /\ st' = "WR_FIFO" => Len(fifo[c]) = sample'
               /\ st' = "RDOUT_WAIT" /\ dpc = "poll" /\ ~seen' => Len(fifo[c]) = Captured
               /\ dpc = "read" /\ c > ch => Len(fifo[c]) = Captured
               /\ dpc = "read" /\ c = ch => Len(fifo[c]) = Unread
      BY <2>2 DEF Contents, Unread
    <3>1. st = "ARM" => Len(fifo[c]) = 0
      BY EmptySeq DEF ReadoutInv, EmptyWhenIdle
    <3> QED BY <3>1 DEF ReadoutInv, Contents, Handshake
  <2> QED BY <2>1, <2>2
<1>3. MessageStartsWithAcquisition'
  BY DEF ReadoutInv, MessageStartsWithAcquisition
<1> QED BY <1>1, <1>2, <1>3 DEF ReadoutInv

LEMMA SoftwareKeeps ==
  ASSUME ReadoutInv, SoftClear \/ (SoftPulse /\ UNCHANGED <<engVars, damVars>>)
  PROVE  ReadoutInv'
<1>1. TypeOK' /\ Handshake'
  BY ReadoutAssumption DEF ReadoutInv, TypeOK, Handshake, SoftClear, SoftPulse, engVars, damVars
<1> QED BY <1>1, QuietStep DEF SoftClear, SoftPulse, engVars, damVars

\* A trigger during the reading tears what it begins, and so does not count.
LEMMA TriggerKeeps ==
  ASSUME ReadoutInv, acq < MaxTrig, Triggered, UNCHANGED <<swVars, damVars>>
  PROVE  ReadoutInv'
<1>1. UNCHANGED <<spc, issued, sys_rst, sample, wrdone, seen, fifo, dpc, ch, msg, got, done>>
  BY DEF Triggered, swVars, damVars
<1>2. CASE Listening
  <2>1. st = "IDLE" /\ ~sys_rst /\ st' = "ARM" /\ rst' = FALSE /\ acq' = acq + 1
    BY <1>2 DEF Triggered, Listening
  <2>2. torn' \in BOOLEAN /\ (torn' <=> dpc = "read")
    BY <1>2 DEF Triggered
  <2>3. dpc = "read" => torn
    BY <2>1 DEF ReadoutInv, Handshake
  <2>4. TypeOK'
    <3>1. acq' \in 0 .. MaxTrig
      BY <2>1, ReadoutAssumption DEF ReadoutInv, TypeOK
    <3>2. st' \in {"IDLE", "ARM", "WR_FIFO", "RDOUT_WAIT", "FIFO_RESET"} /\ rst' \in BOOLEAN
      BY <2>1
    <3> QED BY <1>1, <2>2, <3>1, <3>2 DEF ReadoutInv, TypeOK
  <2>5. acq' >= 1 /\ (got <= acq => got <= acq')
    BY <2>1 DEF ReadoutInv, TypeOK
  <2>6. Handshake'
    BY <1>1, <2>1, <2>2, <2>5 DEF ReadoutInv, Handshake
  <2>7. torn' = torn \/ (st' = "ARM" /\ dpc # "read")
    BY <2>1, <2>2, <2>3 DEF ReadoutInv, TypeOK
  <2> QED BY <1>1, <2>1, <2>4, <2>6, <2>7, QuietStep
<1>3. CASE ~Listening
  <2>1. UNCHANGED <<st, rst, acq, torn>>
    BY <1>3 DEF Triggered
  <2>2. TypeOK' /\ Handshake'
    BY <1>1, <2>1 DEF ReadoutInv, TypeOK, Handshake
  <2> QED BY <1>1, <2>1, <2>2, QuietStep
<1> QED BY <1>2, <1>3

LEMMA ArmKeeps == ASSUME ReadoutInv, Arm PROVE ReadoutInv'
<1>1. TypeOK' /\ Handshake'
  BY ReadoutAssumption DEF ReadoutInv, TypeOK, Handshake, Arm, swVars, damVars
<1>2. ~rst /\ ~rst' /\ st = "ARM" /\ st' = "WR_FIFO" /\ sample' = 0 /\ acq' = acq /\ torn' = torn
  BY DEF ReadoutInv, Handshake, Arm
<1>3. UNCHANGED <<fifo, dpc, ch, msg, got>>
  BY DEF Arm, damVars
<1> QED BY <1>1, <1>2, <1>3, QuietStep

LEMMA RaiseDoneKeeps == ASSUME ReadoutInv, RaiseDone PROVE ReadoutInv'
<1>1. TypeOK' /\ Handshake'
  BY ReadoutAssumption DEF ReadoutInv, TypeOK, Handshake, RaiseDone, swVars, damVars
<1> QED BY <1>1, QuietStep DEF RaiseDone, swVars, damVars

LEMMA EndWaitKeeps == ASSUME ReadoutInv, EndWait PROVE ReadoutInv'
<1>1. TypeOK' /\ Handshake'
  BY ReadoutAssumption DEF ReadoutInv, TypeOK, Handshake, EndWait, swVars, damVars
<1> QED BY <1>1, QuietStep DEF EndWait, swVars, damVars

LEMMA SyncDoneKeeps == ASSUME ReadoutInv, SyncDone PROVE ReadoutInv'
<1>1. TypeOK' /\ Handshake'
  BY ReadoutAssumption DEF ReadoutInv, TypeOK, Handshake, SyncDone, swVars, damVars
<1>2. st = "RDOUT_WAIT" => ~seen
  BY DEF SyncDone
<1> QED BY <1>1, <1>2, QuietStep DEF SyncDone, swVars, damVars

LEMMA SettleKeeps == ASSUME ReadoutInv, Settle PROVE ReadoutInv'
<1>1. TypeOK' /\ Handshake'
  BY ReadoutAssumption DEF ReadoutInv, TypeOK, Handshake, Settle, Listening, swVars, damVars
<1> QED BY <1>1, QuietStep DEF Settle, Listening, swVars, damVars

LEMMA SysReleaseKeeps == ASSUME ReadoutInv, SysRelease PROVE ReadoutInv'
<1>1. TypeOK' /\ Handshake'
  BY ReadoutAssumption DEF ReadoutInv, TypeOK, Handshake, SysRelease, swVars, damVars
<1> QED BY <1>1, QuietStep DEF SysRelease, swVars, damVars

\* A word on every FIFO, none of which is full yet, unless the acquisition was
\* torn; then a full one drops it.
LEMMA WriteKeeps == ASSUME ReadoutInv, Write PROVE ReadoutInv'
<1>1. CASE sample = Captured
  <2>1. TypeOK' /\ Handshake'
    BY <1>1, ReadoutAssumption DEF ReadoutInv, TypeOK, Handshake, Write, swVars, damVars
  <2> QED BY <1>1, <2>1, QuietStep DEF Write, swVars, damVars
<1>2. CASE sample # Captured
  <2>1. /\ sample \in 0 .. Captured - 1 /\ acq \in 1 .. MaxTrig /\ ~rst /\ ~sys_rst
        /\ dpc = "read" => torn
        /\ st = "WR_FIFO" /\ st' = st /\ sample' = sample + 1
        /\ UNCHANGED <<swVars, sys_rst, acq, wrdone, seen, rst, torn, damVars>>
        /\ fifo' = [c \in Built |-> IF Len(fifo[c]) < Depth
                                    THEN Append(fifo[c], acq) ELSE fifo[c]]
    BY <1>2, ReadoutAssumption DEF ReadoutInv, TypeOK, Handshake, Write
  <2>2. ASSUME NEW c \in Built
        PROVE  /\ fifo[c] \in Seq(1 .. MaxTrig) /\ Len(fifo[c]) \in Nat /\ Len(fifo[c]) <= Depth
               /\ \A i \in 1 .. Len(fifo[c]) : fifo[c][i] = acq
               /\ ~torn => Len(fifo[c]) = sample
    BY <2>1, LenProperties DEF ReadoutInv, TypeOK, OneAcquisition, Contents
  <2>3. ASSUME NEW c \in Built
        PROVE  /\ fifo'[c] \in Seq(1 .. MaxTrig) /\ Len(fifo'[c]) <= Depth
               /\ \A i \in 1 .. Len(fifo'[c]) : fifo'[c][i] = acq
               /\ ~torn => Len(fifo'[c]) = sample + 1
    <3>1. CASE Len(fifo[c]) < Depth
      <4>1. fifo'[c] = Append(fifo[c], acq)
        BY <2>1, <3>1
      <4>2. /\ fifo'[c] \in Seq(1 .. MaxTrig) /\ Len(fifo'[c]) = Len(fifo[c]) + 1
            /\ \A i \in 1 .. Len(fifo[c]) : fifo'[c][i] = fifo[c][i]
            /\ fifo'[c][Len(fifo[c]) + 1] = acq
        <5>1. /\ Append(fifo[c], acq) \in Seq(1 .. MaxTrig)
              /\ Len(Append(fifo[c], acq)) = Len(fifo[c]) + 1
              /\ \A i \in 1 .. Len(fifo[c]) : Append(fifo[c], acq)[i] = fifo[c][i]
              /\ Append(fifo[c], acq)[Len(fifo[c]) + 1] = acq
          BY <2>1, <2>2, AppendProperties
        <5> QED BY <4>1, <5>1
      <4>3. Len(fifo'[c]) <= Depth /\ (~torn => Len(fifo'[c]) = sample + 1)
        BY <2>2, <3>1, <4>2, ReadoutAssumption
      <4>4. ASSUME NEW i \in 1 .. Len(fifo'[c]) PROVE fifo'[c][i] = acq
        <5>1. i \in 1 .. Len(fifo[c]) \/ i = Len(fifo[c]) + 1
          BY <2>2, <4>2, <4>4
        <5> QED BY <2>2, <4>2, <5>1
      <4> QED BY <4>2, <4>3, <4>4
    <3>2. CASE ~(Len(fifo[c]) < Depth)
      BY <2>1, <2>2, <3>2, ReadoutAssumption
    <3> QED BY <3>1, <3>2
  <2>4. TypeOK'
    <3>1. fifo' \in [Built -> Seq(1 .. MaxTrig)]
      BY <2>1, <2>3
    <3>2. sample' \in 0 .. Captured
      BY <2>1, ReadoutAssumption
    <3> QED BY <2>1, <2>3, <3>1, <3>2 DEF ReadoutInv, TypeOK, swVars, damVars
  <2>5. Handshake'
    BY <2>1 DEF ReadoutInv, Handshake, swVars, damVars
  <2>6. OneAcquisition' /\ EmptyWhenIdle'
    BY <2>1, <2>3 DEF OneAcquisition, EmptyWhenIdle
  <2>7. Contents'
    BY <2>1, <2>3 DEF Contents, swVars, damVars
  <2>8. MessageStartsWithAcquisition'
    BY <2>1 DEF ReadoutInv, MessageStartsWithAcquisition, damVars
  <2> QED BY <2>4, <2>5, <2>6, <2>7, <2>8 DEF ReadoutInv
<1> QED BY <1>1, <1>2

\* Empty FIFOs hold nothing of any acquisition.
LEMMA EmptiedKeeps ==
  ASSUME ReadoutInv, TypeOK', Handshake', fifo' = [c \in Built |-> <<>>],
         st' \in {"IDLE", "FIFO_RESET"}, UNCHANGED <<dpc, ch, msg, got>>,
         dpc = "read" => torn'
  PROVE  ReadoutInv'
<1>1. OneAcquisition' /\ EmptyWhenIdle'
  BY EmptySeq DEF OneAcquisition, EmptyWhenIdle
<1>2. Contents'
  BY DEF Contents
<1>3. MessageStartsWithAcquisition'
  BY DEF ReadoutInv, MessageStartsWithAcquisition
<1> QED BY <1>1, <1>2, <1>3 DEF ReadoutInv

LEMMA EmptyFifos == /\ [c \in Built |-> <<>>] \in [Built -> Seq(1 .. MaxTrig)]
                    /\ \A c \in Built : Len([d \in Built |-> <<>>][c]) <= Depth
<1>1. <<>> \in Seq(1 .. MaxTrig) /\ Len(<<>>) = 0 /\ 0 <= Depth
  BY EmptySeq, ReadoutAssumption
<1> QED BY <1>1

LEMMA ResetKeeps == ASSUME ReadoutInv, Reset PROVE ReadoutInv'
<1>1. CASE rst
  <2>1. TypeOK' /\ Handshake'
    BY <1>1, ReadoutAssumption DEF ReadoutInv, TypeOK, Handshake, Reset, swVars, damVars
  <2> QED BY <1>1, <2>1, QuietStep DEF Reset, swVars, damVars
<1>2. CASE ~rst
  <2>1. /\ st = "FIFO_RESET" /\ st' = st /\ rst' = TRUE /\ fifo' = [c \in Built |-> <<>>]
        /\ UNCHANGED <<swVars, sys_rst, acq, sample, wrdone, seen, torn, damVars>>
    BY <1>2 DEF Reset
  <2>2. dpc # "read" /\ ~wrdone /\ ~sys_rst
    BY <1>2, <2>1 DEF ReadoutInv, Handshake
  <2>3. TypeOK'
    BY <2>1, EmptyFifos DEF ReadoutInv, TypeOK, swVars, damVars
  <2>4. Handshake'
    BY <2>1, <2>2 DEF ReadoutInv, Handshake, swVars, damVars
  <2> QED BY <2>1, <2>2, <2>3, <2>4, EmptiedKeeps DEF damVars
<1> QED BY <1>1, <1>2

\* Whatever the daemon still reads of the acquisition is torn.
LEMMA SysResetKeeps ==
  ASSUME ReadoutInv, SysReset, UNCHANGED <<swVars, damVars>> PROVE ReadoutInv'
<1>1. /\ sys_rst' = TRUE /\ st' = "IDLE" /\ sample' = 0 /\ wrdone' = FALSE /\ seen' = FALSE
      /\ rst' = TRUE /\ fifo' = [c \in Built |-> <<>>] /\ torn' = (dpc = "read")
      /\ UNCHANGED <<spc, issued, acq, dpc, ch, msg, got, done>>
  BY DEF SysReset, swVars, damVars
<1>2. TypeOK'
  <2>1. 0 \in 0 .. Captured
    BY ReadoutAssumption
  <2> QED BY <1>1, <2>1, EmptyFifos DEF ReadoutInv, TypeOK
<1>3. Handshake'
  BY <1>1 DEF ReadoutInv, Handshake
<1> QED BY <1>1, <1>2, <1>3, EmptiedKeeps

LEMMA EngineKeeps == ASSUME ReadoutInv, Engine PROVE ReadoutInv'
BY SettleKeeps, ArmKeeps, WriteKeeps, RaiseDoneKeeps, EndWaitKeeps, ResetKeeps, SyncDoneKeeps
   DEF Engine
-----------------------------------------------------------------------------
\* The daemon sees wrdone with the answer of the last acquisition withdrawn, so
\* the FIFOs hold the whole new one.
LEMMA PollKeeps == ASSUME ReadoutInv, Poll PROVE ReadoutInv'
<1>1. /\ dpc = "poll" /\ ~done /\ ~seen /\ wrdone /\ st = "RDOUT_WAIT" /\ ~rst /\ ~sys_rst
      /\ dpc' = "read" /\ ch' = 0 /\ msg' = <<>> /\ got' = acq
      /\ UNCHANGED <<swVars, engVars, done>>
  BY DEF ReadoutInv, TypeOK, Handshake, Poll
<1>2. TypeOK'
  <2>1. /\ <<>> \in Seq(1 .. MaxTrig \union {Junk}) /\ Len(<<>>) = 0
        /\ 0 \in Channel /\ 0 <= Groups
    BY EmptySeq, ReadoutAssumption DEF Channel
  <2> QED BY <1>1, <2>1 DEF ReadoutInv, TypeOK, swVars, engVars
<1>3. Handshake'
  <2>1. acq <= acq
    BY DEF ReadoutInv, TypeOK
  <2> QED BY <1>1, <2>1 DEF ReadoutInv, Handshake, swVars, engVars
<1>4. OneAcquisition' /\ EmptyWhenIdle'
  BY <1>1 DEF ReadoutInv, OneAcquisition, EmptyWhenIdle, engVars
<1>5. Contents'
  <2>1. Unread' = Captured
    BY <1>1, EmptySeq, ReadoutAssumption DEF Unread
  <2>2. ~torn => \A c \in Built : Len(fifo[c]) = Captured
    BY <1>1 DEF ReadoutInv, Contents
  <2> QED BY <1>1, <2>1, <2>2 DEF Contents, engVars
<1>6. MessageStartsWithAcquisition'
  BY <1>1, EmptySeq DEF MessageStartsWithAcquisition
<1> QED BY <1>2, <1>3, <1>4, <1>5, <1>6 DEF ReadoutInv

\* Reading takes a group of the acquisition in progress from a FIFO that still
\* has one, and otherwise finds it empty.
LEMMA ReadGroupKeeps == ASSUME ReadoutInv, ReadGroup PROVE ReadoutInv'
<1>1. /\ dpc = "read" /\ Len(msg) < Groups /\ Len(msg) \in Nat /\ ~seen
      /\ acq \in Nat /\ got \in Nat /\ got <= acq
      /\ ~torn => acq = got /\ st = "RDOUT_WAIT"
      /\ msg \in Seq(1 .. MaxTrig \union {Junk})
      /\ UNCHANGED <<swVars, sys_rst, st, acq, sample, wrdone, seen, rst, torn,
                     dpc, ch, got, done>>
  BY ReadoutAssumption, LenProperties DEF ReadoutInv, TypeOK, Handshake, ReadGroup
<1>2. ~torn => \A c \in Built : /\ c > ch => Len(fifo[c]) = Captured
                                /\ c = ch => Len(fifo[c]) = Unread
  BY <1>1 DEF ReadoutInv, Contents
<1>3. /\ Built \subseteq Int /\ ch \in Int /\ fifo \in [Built -> Seq(1 .. MaxTrig)]
      /\ Unread \in Nat
  BY <1>1, ReadoutAssumption DEF ReadoutInv, TypeOK, Channel, Unread
<1>4. Handshake'
  BY <1>1 DEF ReadoutInv, Handshake, swVars
<1>5. CASE ch \in Built /\ fifo[ch] # <<>>
  <2>1. /\ msg' = Append(msg, Head(fifo[ch]))
        /\ fifo' = [fifo EXCEPT ![ch] = Tail(@)]
    BY <1>5 DEF ReadGroup
  <2>2. /\ Head(fifo[ch]) = fifo[ch][1] /\ Tail(fifo[ch]) \in Seq(1 .. MaxTrig)
        /\ Len(Tail(fifo[ch])) = Len(fifo[ch]) - 1 /\ Len(fifo[ch]) \in Nat \ {0}
        /\ \A i \in 1 .. Len(Tail(fifo[ch])) : Tail(fifo[ch])[i] = fifo[ch][i + 1]
        /\ Head(fifo[ch]) \in 1 .. MaxTrig
    <3>1. fifo[ch] \in Seq(1 .. MaxTrig) /\ fifo[ch] # <<>>
      BY <1>3, <1>5
    <3>2. Len(fifo[ch]) \in Nat \ {0}
      BY <3>1, LenProperties, EmptySeq
    <3>3. Head(fifo[ch]) = fifo[ch][1]
      BY <3>1
    <3>4. /\ Head(fifo[ch]) \in 1 .. MaxTrig /\ Tail(fifo[ch]) \in Seq(1 .. MaxTrig)
          /\ Len(Tail(fifo[ch])) = Len(fifo[ch]) - 1
          /\ \A i \in 1 .. Len(Tail(fifo[ch])) : Tail(fifo[ch])[i] = fifo[ch][i + 1]
      BY <3>1, HeadTailProperties
    <3> QED BY <3>2, <3>3, <3>4
  <2>3. /\ Head(fifo[ch]) = acq
        /\ \A i \in 1 .. Len(Tail(fifo[ch])) : Tail(fifo[ch])[i] = acq
    BY <1>5, <2>2 DEF ReadoutInv, OneAcquisition
  <2>4. /\ msg' \in Seq(1 .. MaxTrig \union {Junk}) /\ Len(msg') = Len(msg) + 1
        /\ \A i \in 1 .. Len(msg) : msg'[i] = msg[i]
        /\ msg'[Len(msg) + 1] = acq
    BY <1>1, <2>1, <2>2, <2>3, AppendProperties
  <2>5. /\ fifo'[ch] = Tail(fifo[ch])
        /\ \A c \in Built \ {ch} : fifo'[c] = fifo[c]
    BY <1>3, <1>5, <2>1
  <2>6. TypeOK'
    <3>1. fifo' \in [Built -> Seq(1 .. MaxTrig)]
      BY <1>3, <2>1, <2>2
    <3>2. Len(fifo'[ch]) <= Depth
      BY <1>5, <2>2, <2>5, ReadoutAssumption DEF ReadoutInv, TypeOK
    <3>3. \A c \in Built : Len(fifo'[c]) <= Depth
      BY <2>5, <3>2 DEF ReadoutInv, TypeOK
    <3>4. Len(msg') <= Groups
      BY <1>1, <2>4, ReadoutAssumption
    <3> QED BY <1>1, <2>4, <3>1, <3>3, <3>4 DEF ReadoutInv, TypeOK, swVars
  <2>7. OneAcquisition'
    BY <1>1, <2>3, <2>5 DEF ReadoutInv, OneAcquisition
  <2>8. EmptyWhenIdle'
    BY <1>1, <1>5 DEF ReadoutInv, EmptyWhenIdle
  <2>9. Contents'
    <3>1. ~torn => Unread' = Unread - 1 /\ Len(fifo'[ch]) = Unread - 1
      BY <1>1, <1>2, <1>5, <2>2, <2>4, <2>5, ReadoutAssumption DEF Unread
    <3> QED BY <1>1, <1>2, <1>3, <1>5, <2>5, <3>1 DEF Contents
  <2>10. MessageStartsWithAcquisition'
    BY <1>1, <2>4 DEF ReadoutInv, MessageStartsWithAcquisition
  <2> QED BY <1>4, <2>6, <2>7, <2>8, <2>9, <2>10 DEF ReadoutInv
<1>6. CASE ~(ch \in Built /\ fifo[ch] # <<>>)
  <2>1. msg' = Append(msg, Junk) /\ fifo' = fifo
    BY <1>6 DEF ReadGroup
  <2>2. /\ msg' \in Seq(1 .. MaxTrig \union {Junk}) /\ Len(msg') = Len(msg) + 1
        /\ \A i \in 1 .. Len(msg) : msg'[i] = msg[i]
        /\ msg'[Len(msg) + 1] = Junk
    BY <1>1, <2>1, AppendProperties
  <2>3. ch \in Built /\ ~torn => Unread = 0 /\ Len(msg) >= Captured
    <3>1. ch \in Built => Len(fifo[ch]) = 0
      BY <1>6, EmptySeq
    <3> QED BY <1>1, <1>2, <3>1, ReadoutAssumption DEF Unread
  <2>4. TypeOK'
    <3>1. Len(msg') <= Groups
      BY <1>1, <2>2, ReadoutAssumption
    <3> QED BY <1>1, <2>1, <2>2, <3>1 DEF ReadoutInv, TypeOK, swVars
  <2>5. OneAcquisition' /\ EmptyWhenIdle'
    BY <1>1, <2>1 DEF ReadoutInv, OneAcquisition, EmptyWhenIdle
  <2>6. Contents'
    <3>1. ch \in Built /\ ~torn => Unread' = Unread
      BY <1>1, <2>2, <2>3, ReadoutAssumption DEF Unread
    <3> QED BY <1>1, <1>2, <2>1, <3>1 DEF Contents
  <2>7. MessageStartsWithAcquisition'
    <3> SUFFICES ASSUME ch \in Built, NEW i \in 1 .. Len(msg')
        PROVE  /\ i <= Captured /\ ~torn => msg'[i] = got
               /\ msg'[i] # Junk => msg'[i] >= got
      BY <1>1 DEF MessageStartsWithAcquisition
    <3>1. CASE i \in 1 .. Len(msg)
      BY <1>1, <2>2, <3>1 DEF ReadoutInv, MessageStartsWithAcquisition
    <3>2. CASE i = Len(msg) + 1
      BY <1>1, <2>2, <2>3, <3>2, ReadoutAssumption
    <3> QED BY <1>1, <2>2, <3>1, <3>2
  <2> QED BY <1>4, <2>4, <2>5, <2>6, <2>7 DEF ReadoutInv
<1> QED BY <1>5, <1>6

\* The next channel has not been touched yet.
LEMMA SendChannelKeeps == ASSUME ReadoutInv, SendChannel PROVE ReadoutInv'
<1>1. /\ dpc = "read" /\ Len(msg) = Groups /\ msg' = <<>> /\ ~seen /\ ~done
      /\ ~torn => st = "RDOUT_WAIT" /\ acq = got
      /\ UNCHANGED <<swVars, engVars, got>>
  BY DEF ReadoutInv, TypeOK, Handshake, SendChannel
<1>2. msg' \in Seq(1 .. MaxTrig \union {Junk}) /\ Len(msg') = 0
  BY <1>1, EmptySeq
<1>3. /\ MessageStartsWithAcquisition'
      /\ OneAcquisition' /\ EmptyWhenIdle'
  BY <1>1, <1>2
     DEF ReadoutInv, MessageStartsWithAcquisition, OneAcquisition, EmptyWhenIdle, engVars
<1>4. CASE ch + 1 \in Channel
  <2>1. ch' = ch + 1 /\ UNCHANGED <<dpc, done>>
    BY <1>4 DEF SendChannel
  <2>2. TypeOK'
    BY <1>1, <1>2, <1>4, <2>1, ReadoutAssumption DEF ReadoutInv, TypeOK, swVars, engVars
  <2>3. Handshake'
    BY <1>1, <2>1 DEF ReadoutInv, Handshake, swVars, engVars
  <2>4. Contents'
    <3>1. Unread' = Captured
      BY <1>2, ReadoutAssumption DEF Unread
    <3>2. ~torn => \A c \in Built : c > ch => Len(fifo[c]) = Captured
      BY <1>1 DEF ReadoutInv, Contents
    <3>3. ch \in Int /\ Built \subseteq Int
      BY ReadoutAssumption DEF ReadoutInv, TypeOK, Channel
    <3> QED BY <1>1, <2>1, <3>1, <3>2, <3>3 DEF Contents, engVars
  <2> QED BY <1>3, <2>2, <2>3, <2>4 DEF ReadoutInv
<1>5. CASE ~(ch + 1 \in Channel)
  <2>1. ch' = 0 /\ dpc' = "ack" /\ done' = TRUE
    BY <1>5 DEF SendChannel
  <2>2. TypeOK'
    BY <1>1, <1>2, <2>1, ReadoutAssumption DEF ReadoutInv, TypeOK, Channel, swVars, engVars
  <2>3. Handshake'
    BY <1>1, <2>1 DEF ReadoutInv, Handshake, swVars, engVars
  <2>4. Contents'
    BY <1>1, <2>1 DEF Contents, engVars
  <2> QED BY <1>3, <2>2, <2>3, <2>4 DEF ReadoutInv
<1> QED BY <1>4, <1>5

\* rdoutdone falls when its copy is up, or the engines are in reset.
LEMMA ClearDoneKeeps == ASSUME ReadoutInv, ClearDone PROVE ReadoutInv'
<1>1. /\ dpc = "ack" /\ (seen \/ sys_rst) /\ done' = FALSE /\ dpc' = "poll"
      /\ UNCHANGED <<swVars, engVars, ch, msg, got>>
  BY DEF ClearDone
<1>2. TypeOK' /\ Handshake'
  BY <1>1 DEF ReadoutInv, TypeOK, Handshake, swVars, engVars
<1>3. OneAcquisition' /\ EmptyWhenIdle'
  BY <1>1 DEF ReadoutInv, OneAcquisition, EmptyWhenIdle, engVars
<1>4. Contents'
  BY <1>1 DEF ReadoutInv, Handshake, Contents, engVars
<1>5. MessageStartsWithAcquisition'
  BY <1>1 DEF MessageStartsWithAcquisition
<1> QED BY <1>2, <1>3, <1>4, <1>5 DEF ReadoutInv

LEMMA DaemonKeeps == ASSUME ReadoutInv, Daemon PROVE ReadoutInv'
BY PollKeeps, ReadGroupKeeps, SendChannelKeeps, ClearDoneKeeps DEF Daemon

LEMMA StutterKeeps == ASSUME ReadoutInv, UNCHANGED vars PROVE ReadoutInv'
<1>1. UNCHANGED <<spc, issued, sys_rst, st, acq, sample, wrdone, done, seen, rst, fifo, torn,
                  dpc, ch, msg, got>>
  BY DEF vars, swVars, engVars, damVars
<1>2. TypeOK' /\ Handshake'
  BY <1>1 DEF ReadoutInv, TypeOK, Handshake
<1> QED BY <1>1, <1>2, QuietStep

LEMMA ReadoutStep == ASSUME ReadoutInv, [Next]_vars PROVE ReadoutInv'
BY SoftwareKeeps, TriggerKeeps, EngineKeeps, SysReleaseKeeps, SysResetKeeps, DaemonKeeps,
   StutterKeeps DEF Next

LEMMA ReadoutInvariant == Spec => []ReadoutInv
<1>1. ReadoutInv /\ [Next]_vars => ReadoutInv'
  BY ReadoutStep
<1> QED BY InitHolds, <1>1, PTL DEF Spec
-----------------------------------------------------------------------------
\* The state of the engines, of the FIFOs and of the daemon keeps its type, and
\* no FIFO ever holds more than its depth.
THEOREM ReadoutTypeCorrect == Spec => []TypeOK
<1>1. ReadoutInv => TypeOK
  BY DEF ReadoutInv
<1> QED BY <1>1, ReadoutInvariant, PTL

\* The message of every built channel begins with the whole acquisition the
\* daemon was told about, whenever triggers come, unless rfadc_reset comes while
\* it is read; and it never holds a group of an earlier one, whenever resets come
\* (adcdata.c, adc_data_rdout).
THEOREM StartsWithAcquisition == Spec => []MessageStartsWithAcquisition
<1>1. ReadoutInv => MessageStartsWithAcquisition
  BY DEF ReadoutInv
<1> QED BY <1>1, ReadoutInvariant, PTL

\* While the daemon reads, the engines wait for rdoutdone unless rfadc_reset took
\* them back, and in no case do they reset the FIFOs by themselves.
THEOREM EnginesWait == Spec => []EnginesWaitForDaemon
<1>1. ReadoutInv => EnginesWaitForDaemon
  BY DEF ReadoutInv, Handshake, EnginesWaitForDaemon
<1> QED BY <1>1, ReadoutInvariant, PTL

-----------------------------------------------------------------------------
(***************************************************************************)
(* Adc2Dma.  The words between the converters and the width converter form *)
(* a chain of the schedule.                                                *)
(***************************************************************************)
Item == [word : Word, last : BOOLEAN]
Held == [word |-> tdata, last |-> tlast]

\* Pipe, written with Append.
Line == IF tvalid THEN Append(stream, Held) ELSE stream

\* The words of p follow each other, beginning with a; the word after them is b.
Chain(p, a) ==
  /\ p # <<>> => p[1].word = a
  /\ \A i \in 1 .. Len(p) : i + 1 <= Len(p) => p[i + 1].word = Successor(p[i].word)

EndsAt(p, a, b) == IF p = <<>> THEN a = b ELSE Successor(p[Len(p)].word) = b

Marked(p) == \A i \in 1 .. Len(p) : p[i].last <=> p[i].word = Final

\* The word that is sampled next.
Scheduled == IF turn_count < CAPTURE_CLOCKS
             THEN [burst |-> burst_count, turn |-> turn_count]
             ELSE [burst |-> burst_count + 1, turn |-> 0]

NoneLast(p) == \A i \in 1 .. Len(p) : ~p[i].last

\* What the states of the engine say about the words on their way.
Phases ==
  /\ in_reset # "none" => wr_state = "IDLE"
  /\ overflow <=> wr_state = "FAULT"
  /\ wr_state # "DRAIN" => ~finished /\ NoneLast(Line)
  /\ wr_state = "IDLE" => ~tvalid /\ Line = <<>> /\ want = First
  /\ wr_state = "RUN" =>
       /\ burst_count = NUM_BURSTS - 1 => turn_count < CAPTURE_CLOCKS
       /\ EndsAt(Line, want, Scheduled)
  /\ wr_state = "DRAIN" => finished \/ \E i \in 1 .. Len(Line) : Line[i].last
  /\ finished => want = Successor(Final) /\ Line = <<>>

CaptureInv == CaptureTypeOK /\ Chain(Line, want) /\ Marked(Line) /\ Phases
-----------------------------------------------------------------------------
\* The chain.

LEMMA AppendChain ==
  ASSUME NEW p \in Seq(Item), NEW x \in Item, NEW a,
         Chain(p, a), EndsAt(p, a, x.word)
  PROVE  Chain(Append(p, x), a) /\ EndsAt(Append(p, x), a, Successor(x.word))
<1> DEFINE q == Append(p, x)
<1>1. /\ q \in Seq(Item) /\ q # <<>> /\ Len(q) = Len(p) + 1 /\ Len(p) \in Nat
      /\ \A i \in 1 .. Len(p) : q[i] = p[i]
      /\ q[Len(p) + 1] = x
  BY AppendProperties, LenProperties
<1>2. EndsAt(q, a, Successor(x.word))
  BY <1>1 DEF EndsAt
<1>3. CASE p = <<>>
  BY <1>1, <1>3, EmptySeq DEF Chain, EndsAt
<1>4. CASE p # <<>>
  <2>1. Len(p) > 0
    BY <1>1, <1>4, EmptySeq
  <2>2. q[1].word = a
    BY <1>1, <1>4, <2>1 DEF Chain
  <2>3. ASSUME NEW i \in 1 .. Len(q), i + 1 <= Len(q)
        PROVE  q[i + 1].word = Successor(q[i].word)
    <3>1. CASE i + 1 <= Len(p)
      <4>1. i \in 1 .. Len(p) /\ i + 1 \in 1 .. Len(p)
        BY <1>1, <3>1
      <4> QED BY <1>1, <4>1, <3>1 DEF Chain
    <3>2. CASE i = Len(p)
      BY <1>1, <1>4, <2>1, <3>2 DEF EndsAt
    <3> QED BY <1>1, <2>3, <3>1, <3>2
  <2> QED BY <1>2, <2>2, <2>3 DEF Chain
<1> QED BY <1>2, <1>3, <1>4

LEMMA TailChain ==
  ASSUME NEW p \in Seq(Item), p # <<>>, NEW a, Chain(p, a)
  PROVE  /\ Chain(Tail(p), Successor(Head(p).word))
         /\ \A b : EndsAt(p, a, b) => EndsAt(Tail(p), Successor(Head(p).word), b)
<1> DEFINE q == Tail(p)
<1>1. /\ q \in Seq(Item) /\ Len(p) \in Nat \ {0} /\ Len(q) = Len(p) - 1 /\ Head(p) = p[1]
      /\ \A i \in 1 .. Len(q) : q[i] = p[i + 1]
  BY HeadTailProperties, LenProperties, EmptySeq
<1>2. q # <<>> <=> Len(p) >= 2
  <2>1. q = <<>> <=> Len(q) = 0
    BY <1>1, EmptySeq
  <2> HIDE DEF q
  <2> QED BY <1>1, <2>1
<1>3. q # <<>> => q[1].word = Successor(Head(p).word)
  <2>1. q # <<>> => q[1] = p[2] /\ p[2].word = Successor(p[1].word)
    BY <1>1, <1>2 DEF Chain
  <2> QED BY <1>1, <2>1
<1>4. ASSUME NEW i \in 1 .. Len(q), i + 1 <= Len(q)
      PROVE  q[i + 1].word = Successor(q[i].word)
  <2>1. /\ q[i + 1] = p[i + 2] /\ q[i] = p[i + 1]
        /\ i + 1 \in 1 .. Len(p) /\ i + 2 <= Len(p)
    BY <1>1, <1>4
  <2>2. p[(i + 1) + 1].word = Successor(p[i + 1].word)
    BY <2>1, <1>1 DEF Chain
  <2> QED BY <2>1, <2>2
<1>5. Chain(q, Successor(Head(p).word))
  BY <1>3, <1>4 DEF Chain
<1>6. ASSUME NEW b, EndsAt(p, a, b)
      PROVE  EndsAt(q, Successor(Head(p).word), b)
  <2>1. Successor(p[Len(p)].word) = b
    BY <1>6 DEF EndsAt
  <2>2. CASE q = <<>>
    BY <1>1, <1>2, <2>1, <2>2 DEF EndsAt
  <2>3. CASE q # <<>>
    <3>1. q[Len(q)] = p[Len(p)]
      BY <1>1, <1>2, <2>3
    <3> QED BY <2>1, <2>3, <3>1 DEF EndsAt
  <2> QED BY <2>2, <2>3
<1> QED BY <1>5, <1>6

\* The word after a scheduled one is scheduled, unless it was the final one.
LEMMA SuccessorType ==
  ASSUME NEW w \in Word, w # Final PROVE Successor(w) \in Word
<1>1. /\ w.burst \in 0 .. NUM_BURSTS - 1 /\ w.turn \in 0 .. CAPTURE_CLOCKS - 1
      /\ w = [burst |-> w.burst, turn |-> w.turn]
  BY DEF Word
<1>2. CASE w.turn + 1 < CAPTURE_CLOCKS
  <2>1. Successor(w) = [burst |-> w.burst, turn |-> w.turn + 1]
    BY <1>1, <1>2 DEF Successor, Word
  <2> QED BY <1>1, <1>2, <2>1, CaptureAssumption DEF Word
<1>3. CASE ~(w.turn + 1 < CAPTURE_CLOCKS)
  <2>1. Successor(w) = [burst |-> w.burst + 1, turn |-> 0]
    BY <1>3 DEF Successor
  <2>2. w.turn = CAPTURE_CLOCKS - 1
    BY <1>1, <1>3, CaptureAssumption
  <2>3. w.burst # NUM_BURSTS - 1
    BY <1>1, <2>2 DEF Final
  <2> QED BY <1>1, <2>1, <2>3, CaptureAssumption DEF Word
<1> QED BY <1>2, <1>3

LEMMA WordConstants ==
  /\ First \in Word /\ Final \in Word
  /\ Successor(Final) = [burst |-> NUM_BURSTS, turn |-> 0]
  /\ Successor(Final) \notin Word
<1>1. First \in Word /\ Final \in Word
  BY CaptureAssumption DEF First, Final, Word
<1>2. Successor(Final) = [burst |-> NUM_BURSTS, turn |-> 0]
  BY CaptureAssumption DEF Successor, Final
<1>3. ASSUME Successor(Final) \in Word PROVE FALSE
  <2>1. Successor(Final).burst \in 0 .. NUM_BURSTS - 1
    BY <1>3 DEF Word
  <2> QED BY <1>2, <2>1, CaptureAssumption
<1> QED BY <1>1, <1>2, <1>3

\* Nothing follows the final word.
LEMMA FinalEnds ==
  ASSUME NEW p \in Seq(Item), p # <<>>, NEW a, Chain(p, a), Head(p).word = Final
  PROVE  Tail(p) = <<>>
<1>1. /\ Len(p) \in Nat \ {0} /\ Head(p) = p[1] /\ Len(Tail(p)) = Len(p) - 1
      /\ Tail(p) \in Seq(Item)
  BY HeadTailProperties, LenProperties, EmptySeq
<1>2. ASSUME Len(p) >= 2 PROVE FALSE
  <2>1. p[2].word = Successor(Final)
    BY <1>1, <1>2 DEF Chain
  <2>2. p[2] \in Item
    BY <1>1, <1>2, ElementOfSeq
  <2> QED BY <2>1, <2>2, WordConstants DEF Item
<1> QED BY <1>1, <1>2, EmptySeq

LEMMA LastIsFinal ==
  ASSUME NEW p \in Seq(Item), Marked(p) PROVE NoneLast(p) <=> \A i \in 1 .. Len(p) : p[i].word # Final
BY ElementOfSeq DEF Marked, NoneLast, Item
-----------------------------------------------------------------------------
\* What the two clocks do to the words on their way.

LEMMA LineType ==
  ASSUME CaptureTypeOK PROVE Line \in Seq(Item) /\ Held \in Item /\ stream \in Seq(Item)
<1>1. Held \in Item /\ stream \in Seq(Item)
  BY DEF CaptureTypeOK, Held, Item
<1> QED BY <1>1, AppendProperties DEF Line

\* A word that moves from the holding register into the FIFO stays in its place.
LEMMA ClearKeepsLine ==
  ASSUME CaptureTypeOK, PushFifo, ClearIfRetired
  PROVE  Line' = Line /\ (tvalid => tvalid' \/ tready)
BY DEF CaptureTypeOK, PushFifo, ClearIfRetired, Retired, Line, Held

LEMMA SampleExtendsLine ==
  ASSUME CaptureTypeOK, PushFifo, Sample
  PROVE  Line' = Append(Line, Held')
BY DEF CaptureTypeOK, PushFifo, Sample, Retired, Blocked, Line, Held

LEMMA TakeShortensLine ==
  ASSUME CaptureTypeOK, Take
  PROVE  Line # <<>> /\ Head(Line) = Head(stream) /\ Line' = Tail(Line)
<1>1. /\ stream # <<>> /\ stream' = Tail(stream)
      /\ UNCHANGED <<tvalid, tdata, tlast>>
  BY DEF Take, adcVars
<1>2. CASE tvalid
  BY <1>1, <1>2, LineType, HeadTailAppend, AppendProperties DEF Line, Held
<1>3. CASE ~tvalid
  BY <1>1, <1>3 DEF Line
<1> QED BY <1>2, <1>3

LEMMA PipeIsLine == ASSUME CaptureTypeOK PROVE Pipe = Line
<1>1. CASE tvalid
  BY <1>1, LineType, AppendIsConcat DEF Pipe, Line, Held
<1>2. CASE ~tvalid
  BY <1>2, LineType, ConcatEmptySeq DEF Pipe, Line
<1> QED BY <1>1, <1>2
-----------------------------------------------------------------------------
LEMMA CaptureInitHolds == ASSUME CaptureInit PROVE CaptureInv
<1>1. /\ <<>> \in Seq([word : Word, last : BOOLEAN]) /\ Len(<<>>) = 0
      /\ Line = <<>> /\ want = First /\ ~tvalid
  BY EmptySeq DEF CaptureInit, Line
<1>2. CaptureTypeOK
  <2>1. /\ First \in Word /\ 0 \in 0 .. TURN_CLOCKS - 1 /\ 0 \in 0 .. NUM_BURSTS - 1
        /\ 0 <= FifoDepth
    BY WordConstants, CaptureAssumption
  <2>2. <<FALSE, FALSE>> \in BOOLEAN \X BOOLEAN
    OBVIOUS
  <2> QED BY <1>1, <2>1, <2>2 DEF CaptureInit, CaptureTypeOK
<1>3. Chain(Line, want) /\ Marked(Line) /\ NoneLast(Line)
  BY <1>1 DEF Chain, Marked, NoneLast
<1>4. Phases
  BY <1>1, <1>3 DEF CaptureInit, Phases
<1> QED BY <1>2, <1>3, <1>4 DEF CaptureInv

LEMMA AssertResetKeeps == ASSUME CaptureInv, AssertReset PROVE CaptureInv'
<1>1. /\ <<>> \in Seq([word : Word, last : BOOLEAN]) /\ Len(<<>>) = 0
      /\ Line' = <<>> /\ want' = First /\ ~tvalid'
  BY EmptySeq DEF AssertReset, Line
<1>2. CaptureTypeOK'
  <2>1. /\ First \in Word /\ 0 \in 0 .. TURN_CLOCKS - 1 /\ 0 \in 0 .. NUM_BURSTS - 1
        /\ 0 <= FifoDepth
    BY WordConstants, CaptureAssumption
  <2>2. <<FALSE, FALSE>> \in BOOLEAN \X BOOLEAN
    OBVIOUS
  <2> QED BY <1>1, <2>1, <2>2 DEF AssertReset, CaptureInv, CaptureTypeOK
<1>3. Chain(Line, want)' /\ Marked(Line)' /\ NoneLast(Line)'
  BY <1>1 DEF Chain, Marked, NoneLast
<1>4. Phases'
  BY <1>1, <1>3 DEF AssertReset, Phases
<1> QED BY <1>2, <1>3, <1>4 DEF CaptureInv

\* Steps that move no word.
LEMMA RestKeeps ==
  ASSUME CaptureInv, UNCHANGED <<adcVars, stream, want, finished>>,
         in_reset' \in {"both", "adc", "none"}, in_reset' # "none" => in_reset # "none",
         testdata_enb' \in BOOLEAN, busy_sync' \in BOOLEAN \X BOOLEAN
  PROVE  CaptureInv'
<1>1. Line' = Line
  BY DEF Line, Held, adcVars
<1>2. CaptureTypeOK'
  BY DEF CaptureInv, CaptureTypeOK, adcVars
<1>3. Chain(Line, want)' /\ Marked(Line)'
  BY <1>1 DEF CaptureInv, Chain, Marked
<1>4. Phases'
  BY <1>1 DEF CaptureInv, Phases, adcVars, Scheduled, EndsAt, NoneLast
<1> QED BY <1>2, <1>3, <1>4 DEF CaptureInv

LEMMA QuietKeeps ==
  ASSUME CaptureInv, ReleaseReset \/ WriteTestEnable \/ NotReady \/ UNCHANGED captureVars
  PROVE  CaptureInv'
<1>1. CASE ReleaseReset
  BY <1>1, RestKeeps DEF ReleaseReset, sysVars, CaptureInv, CaptureTypeOK
<1>2. CASE WriteTestEnable
  BY <1>2, RestKeeps DEF WriteTestEnable, sysVars, CaptureInv, CaptureTypeOK
<1>3. CASE NotReady
  <2>1. busy_sync' \in BOOLEAN \X BOOLEAN
    BY <1>3 DEF NotReady, SyncBusy, CaptureInv, CaptureTypeOK
  <2> QED BY <1>3, <2>1, RestKeeps DEF NotReady, CaptureInv, CaptureTypeOK
<1>4. CASE UNCHANGED captureVars
  BY <1>4, RestKeeps DEF captureVars, sysVars, CaptureInv, CaptureTypeOK
<1> QED BY <1>1, <1>2, <1>3, <1>4

-----------------------------------------------------------------------------
LEMMA ClearTypes ==
  ASSUME CaptureTypeOK, PushFifo,
         ClearIfRetired \/ (tvalid' = TRUE /\ tdata' \in Word /\ tlast' \in BOOLEAN)
  PROVE  /\ tvalid' \in BOOLEAN /\ tlast' \in BOOLEAN /\ tdata' \in Word
         /\ stream' \in Seq([word : Word, last : BOOLEAN]) /\ Len(stream') <= FifoDepth
<1>1. tvalid' \in BOOLEAN /\ tlast' \in BOOLEAN /\ tdata' \in Word
  BY DEF CaptureTypeOK, ClearIfRetired
<1>2. CASE Retired
  <2>1. [word |-> tdata, last |-> tlast] \in [word : Word, last : BOOLEAN]
    BY DEF CaptureTypeOK
  <2>2. /\ stream' = Append(stream, [word |-> tdata, last |-> tlast])
        /\ Len(stream) < FifoDepth /\ Len(stream) \in Nat
    BY <1>2, LenProperties DEF PushFifo, Retired, tready, CaptureTypeOK
  <2>3. /\ stream' \in Seq([word : Word, last : BOOLEAN])
        /\ Len(stream') = Len(stream) + 1
    BY <2>1, <2>2, AppendProperties DEF CaptureTypeOK
  <2> QED BY <1>1, <2>2, <2>3, CaptureAssumption
<1>3. CASE ~Retired
  BY <1>1, <1>3 DEF PushFifo, CaptureTypeOK
<1> QED BY <1>2, <1>3

LEMMA AdvanceTypes ==
  ASSUME CaptureTypeOK, AdvanceTurn
  PROVE  turn_count' \in 0 .. TURN_CLOCKS - 1 /\ burst_count' \in 0 .. NUM_BURSTS - 1
BY CaptureAssumption DEF CaptureTypeOK, AdvanceTurn

\* A clock on which nothing is sampled.
LEMMA ClearClockKeeps ==
  ASSUME CaptureInv, PushFifo, ClearIfRetired, in_reset = "none",
         UNCHANGED <<in_reset, sysVars, testdata_enb, test_enable>>,
         turn_count' \in 0 .. TURN_CLOCKS - 1, burst_count' \in 0 .. NUM_BURSTS - 1,
         overflow' \in BOOLEAN, wr_state' \in {"IDLE", "RUN", "DRAIN", "FAULT"},
         Phases'
  PROVE  CaptureInv'
<1>1. Line' = Line
  BY ClearKeepsLine DEF CaptureInv
<1>2. CaptureTypeOK'
  BY ClearTypes DEF CaptureInv, CaptureTypeOK, sysVars
<1>3. Chain(Line, want)' /\ Marked(Line)'
  BY <1>1 DEF CaptureInv, Chain, Marked, sysVars
<1> QED BY <1>2, <1>3 DEF CaptureInv

LEMMA IdleClockKeeps ==
  ASSUME CaptureInv, AdcClock, IdleClock PROVE CaptureInv'
<1>1. /\ PushFifo /\ ClearIfRetired /\ in_reset = "none" /\ wr_state = "IDLE"
      /\ UNCHANGED <<in_reset, sysVars, testdata_enb>>
      /\ UNCHANGED <<wr_state, turn_count, burst_count, overflow, test_enable>>
  BY DEF AdcClock, IdleClock
<1>2. Line' = Line /\ tvalid' = FALSE
  BY <1>1, ClearKeepsLine DEF CaptureInv, Phases, ClearIfRetired
<1>3. Phases'
  BY <1>1, <1>2 DEF CaptureInv, Phases, NoneLast, sysVars
<1> QED BY <1>1, <1>3, ClearClockKeeps DEF CaptureInv, CaptureTypeOK

LEMMA TriggerClockKeeps ==
  ASSUME CaptureInv, TriggerClock PROVE CaptureInv'
<1>1. /\ PushFifo /\ ClearIfRetired /\ in_reset = "none" /\ wr_state = "IDLE"
      /\ UNCHANGED <<in_reset, sysVars, testdata_enb, overflow>>
      /\ turn_count' = 0 /\ burst_count' = 0 /\ test_enable' = FALSE /\ wr_state' = "RUN"
  BY DEF TriggerClock, Trigger, test_sync
<1>2. Line' = <<>> /\ want' = First /\ ~overflow /\ ~finished
  BY <1>1, ClearKeepsLine DEF CaptureInv, Phases, sysVars
<1>3. Scheduled' = First /\ (burst_count' = NUM_BURSTS - 1 => turn_count' < CAPTURE_CLOCKS)
  BY <1>1, CaptureAssumption DEF Scheduled, First
<1>4. Phases'
  BY <1>1, <1>2, <1>3 DEF Phases, NoneLast, EndsAt, sysVars
<1>5. CaptureTypeOK'
  <2>1. 0 \in 0 .. TURN_CLOCKS - 1 /\ 0 \in 0 .. NUM_BURSTS - 1
    BY CaptureAssumption
  <2> QED BY <1>1, <2>1, ClearTypes DEF CaptureInv, CaptureTypeOK, sysVars
<1>6. Chain(Line, want)' /\ Marked(Line)'
  BY <1>2 DEF Chain, Marked
<1> QED BY <1>4, <1>5, <1>6 DEF CaptureInv

LEMMA DrainClockKeeps ==
  ASSUME CaptureInv, AdcClock, DrainClock PROVE CaptureInv'
<1>1. /\ PushFifo /\ ClearIfRetired /\ in_reset = "none" /\ wr_state \in {"DRAIN", "FAULT"}
      /\ UNCHANGED <<in_reset, sysVars, testdata_enb>>
      /\ UNCHANGED <<wr_state, turn_count, burst_count, overflow, test_enable>>
  BY DEF AdcClock, DrainClock, done_sync, done_at_start
<1>2. Line' = Line
  BY <1>1, ClearKeepsLine DEF CaptureInv
<1>3. Phases'
  BY <1>1, <1>2 DEF CaptureInv, Phases, NoneLast, sysVars
<1> QED BY <1>1, <1>3, ClearClockKeeps DEF CaptureInv, CaptureTypeOK

LEMMA OverflowKeeps ==
  ASSUME CaptureInv, AdcClock, Overflow PROVE CaptureInv'
<1>1. /\ PushFifo /\ ClearIfRetired /\ in_reset = "none" /\ wr_state = "RUN"
      /\ UNCHANGED <<in_reset, sysVars, testdata_enb, test_enable>>
      /\ overflow' = TRUE /\ wr_state' = "FAULT" /\ AdvanceTurn
  BY DEF AdcClock, Overflow
<1>2. Line' = Line
  BY <1>1, ClearKeepsLine DEF CaptureInv
<1>3. Phases'
  BY <1>1, <1>2 DEF CaptureInv, Phases, NoneLast, sysVars
<1> QED BY <1>1, <1>3, ClearClockKeeps, AdvanceTypes DEF CaptureInv

\* Between two bursts the word that is sampled next does not change.
LEMMA BetweenBurstsKeeps ==
  ASSUME CaptureInv, AdcClock, BetweenBursts PROVE CaptureInv'
<1>1. /\ PushFifo /\ ClearIfRetired /\ in_reset = "none" /\ wr_state = "RUN"
      /\ UNCHANGED <<in_reset, sysVars, testdata_enb, test_enable, wr_state, overflow>>
      /\ turn_count >= CAPTURE_CLOCKS /\ AdvanceTurn
  BY DEF AdcClock, BetweenBursts
<1>2. Line' = Line
  BY <1>1, ClearKeepsLine DEF CaptureInv
<1>3. /\ turn_count \in 0 .. TURN_CLOCKS - 1 /\ burst_count \in 0 .. NUM_BURSTS - 1
      /\ burst_count # NUM_BURSTS - 1
  BY <1>1, CaptureAssumption DEF CaptureInv, CaptureTypeOK, Phases
<1>4. /\ Scheduled' = Scheduled
      /\ burst_count' = NUM_BURSTS - 1 => turn_count' < CAPTURE_CLOCKS
  <2>1. CASE turn_count = TURN_CLOCKS - 1
    <3>1. turn_count' = 0 /\ burst_count' = burst_count + 1
      BY <1>1, <1>3, <2>1, CaptureAssumption DEF AdvanceTurn
    <3> QED BY <1>1, <1>3, <3>1, CaptureAssumption DEF Scheduled
  <2>2. CASE turn_count # TURN_CLOCKS - 1
    <3>1. turn_count' = turn_count + 1 /\ burst_count' = burst_count
      BY <1>1, <2>2 DEF AdvanceTurn
    <3> QED BY <1>1, <1>3, <3>1, CaptureAssumption DEF Scheduled
  <2> QED BY <2>1, <2>2
<1>5. Phases'
  BY <1>1, <1>2, <1>4 DEF CaptureInv, Phases, NoneLast, EndsAt, sysVars
<1> QED BY <1>1, <1>5, ClearClockKeeps, AdvanceTypes DEF CaptureInv, CaptureTypeOK

\* The sampled word is the scheduled one and goes to the end of the line.
LEMMA SampleKeeps ==
  ASSUME CaptureInv, AdcClock, Sample PROVE CaptureInv'
<1> DEFINE w == [burst |-> burst_count, turn |-> turn_count]
           x == [word |-> w, last |-> IsFinal]
<1>1. /\ PushFifo /\ in_reset = "none" /\ wr_state = "RUN" /\ turn_count < CAPTURE_CLOCKS
      /\ UNCHANGED <<in_reset, sysVars, testdata_enb, overflow, test_enable>>
      /\ tvalid' = TRUE /\ tdata' = w /\ tlast' = IsFinal /\ AdvanceTurn
      /\ wr_state' = IF IsFinal THEN "DRAIN" ELSE "RUN"
  BY DEF AdcClock, Sample
<1>2. /\ turn_count \in 0 .. TURN_CLOCKS - 1 /\ burst_count \in 0 .. NUM_BURSTS - 1
      /\ w \in Word /\ IsFinal \in BOOLEAN /\ x \in Item
  BY <1>1, CaptureAssumption DEF CaptureInv, CaptureTypeOK, Word, IsFinal, Item
<1>3. Line' = Append(Line, x)
  BY <1>1, SampleExtendsLine DEF CaptureInv, AdcClock, Held
<1>4. Line \in Seq(Item) /\ EndsAt(Line, want, w) /\ Chain(Line, want) /\ Marked(Line)
      /\ NoneLast(Line) /\ ~finished /\ ~overflow
  BY <1>1, LineType DEF CaptureInv, Phases, Scheduled
<1>5. Chain(Line', want) /\ EndsAt(Line', want, Successor(w))
  BY <1>2, <1>3, <1>4, AppendChain
<1>6. /\ Len(Line) \in Nat /\ Len(Line') = Len(Line) + 1
      /\ \A i \in 1 .. Len(Line) : Line'[i] = Line[i]
      /\ Line'[Len(Line) + 1] = x
  BY <1>2, <1>3, <1>4, AppendProperties, LenProperties
<1>7. IsFinal <=> w = Final
  BY <1>2 DEF IsFinal, Final
<1>8. Marked(Line')
  BY <1>4, <1>6, <1>7 DEF Marked
<1>9. CaptureTypeOK'
  <2>1. /\ tvalid' \in BOOLEAN /\ tlast' \in BOOLEAN /\ tdata' \in Word
        /\ stream' \in Seq([word : Word, last : BOOLEAN]) /\ Len(stream') <= FifoDepth
    BY <1>1, <1>2, ClearTypes DEF CaptureInv
  <2>2. turn_count' \in 0 .. TURN_CLOCKS - 1 /\ burst_count' \in 0 .. NUM_BURSTS - 1
    BY <1>1, AdvanceTypes DEF CaptureInv
  <2> QED BY <1>1, <2>1, <2>2 DEF CaptureInv, CaptureTypeOK, sysVars
<1>10. CASE IsFinal
  <2>1. /\ wr_state' = "DRAIN" /\ Len(Line) + 1 \in 1 .. Len(Line')
        /\ Line'[Len(Line) + 1].last
    BY <1>1, <1>6, <1>10
  <2>2. Phases'
    BY <1>1, <1>4, <2>1 DEF Phases, sysVars
  <2> QED BY <1>1, <1>5, <1>8, <1>9, <2>2 DEF CaptureInv, sysVars
<1>11. CASE ~IsFinal
  <2>1. NoneLast(Line')
    BY <1>4, <1>6, <1>11 DEF NoneLast
  <2>2. /\ Scheduled' = Successor(w)
        /\ burst_count' = NUM_BURSTS - 1 => turn_count' < CAPTURE_CLOCKS
    <3>1. CASE turn_count + 1 < CAPTURE_CLOCKS
      <4>1. turn_count' = turn_count + 1 /\ burst_count' = burst_count
        BY <1>1, <1>2, <3>1, CaptureAssumption DEF AdvanceTurn
      <4>2. Successor(w) = [burst |-> burst_count, turn |-> turn_count + 1]
        BY <3>1 DEF Successor
      <4> QED BY <1>2, <3>1, <4>1, <4>2, CaptureAssumption DEF Scheduled
    <3>2. CASE ~(turn_count + 1 < CAPTURE_CLOCKS)
      <4>1. turn_count = CAPTURE_CLOCKS - 1 /\ burst_count # NUM_BURSTS - 1
        BY <1>1, <1>2, <1>11, <3>2, CaptureAssumption DEF IsFinal
      <4>2. Successor(w) = [burst |-> burst_count + 1, turn |-> 0]
        BY <3>2 DEF Successor
      <4>3. \/ turn_count' = 0 /\ burst_count' = burst_count + 1
            \/ turn_count' = CAPTURE_CLOCKS /\ burst_count' = burst_count
        BY <1>1, <1>2, <4>1, CaptureAssumption DEF AdvanceTurn
      <4> QED BY <1>2, <4>1, <4>2, <4>3, CaptureAssumption DEF Scheduled
    <3> QED BY <3>1, <3>2
  <2>3. Phases'
    BY <1>1, <1>4, <1>5, <1>11, <2>1, <2>2 DEF Phases, sysVars
  <2> QED BY <1>1, <1>5, <1>8, <1>9, <2>3 DEF CaptureInv, sysVars
<1> QED BY <1>10, <1>11

\* The width converter takes the oldest word.
LEMMA TakeKeeps ==
  ASSUME CaptureInv, Take PROVE CaptureInv'
<1>1. /\ in_reset # "both" /\ stream # <<>> /\ stream' = Tail(stream)
      /\ want' = Successor(Head(stream).word) /\ finished' = (finished \/ Head(stream).last)
      /\ busy_sync' = <<wr_state # "IDLE", busy_sync[1]>>
      /\ UNCHANGED <<in_reset, adcVars, testdata_enb>>
  BY DEF Take, SyncBusy
<1>2. /\ Line # <<>> /\ Head(Line) = Head(stream) /\ Line' = Tail(Line) /\ Line \in Seq(Item)
  BY TakeShortensLine, LineType DEF CaptureInv
<1>3. /\ Len(Line) \in Nat \ {0} /\ Head(Line) = Line[1] /\ Head(Line) \in Item
      /\ Tail(Line) \in Seq(Item) /\ Len(Line') = Len(Line) - 1
      /\ \A i \in 1 .. Len(Line') : Line'[i] = Line[i + 1]
  BY <1>2, HeadTailProperties, LenProperties, EmptySeq
<1>4. wr_state # "IDLE" /\ ~finished /\ Chain(Line, want) /\ Marked(Line)
  BY <1>2 DEF CaptureInv, Phases
<1>5. /\ Chain(Line', want')
      /\ \A b : EndsAt(Line, want, b) => EndsAt(Line', want', b)
  BY <1>1, <1>2, <1>4, TailChain
<1>6. Marked(Line')
  BY <1>3, <1>4 DEF Marked
<1>7. finished' => Line' = <<>> /\ want' = Successor(Final)
  <2>1. Head(Line).last <=> Head(Line).word = Final
    BY <1>3, <1>4 DEF Marked
  <2>2. ASSUME finished' PROVE Head(Line).word = Final
    BY <1>1, <1>2, <1>4, <2>1, <2>2
  <2> QED BY <1>1, <1>2, <1>4, <2>2, FinalEnds
<1>8. CaptureTypeOK'
  <2>1. want' \in Word \union {Successor(Final)}
    BY <1>1, <1>2, <1>3, SuccessorType DEF Item
  <2>2. stream' \in Seq([word : Word, last : BOOLEAN]) /\ Len(stream') <= FifoDepth
    <3>1. /\ stream' \in Seq([word : Word, last : BOOLEAN]) /\ Len(stream') = Len(stream) - 1
          /\ Len(stream) \in Nat /\ Len(stream) <= FifoDepth
      BY <1>1, HeadTailProperties, LenProperties DEF CaptureInv, CaptureTypeOK
    <3> QED BY <3>1, CaptureAssumption
  <2>3. busy_sync' \in BOOLEAN \X BOOLEAN
    BY <1>1 DEF CaptureInv, CaptureTypeOK
  <2>4. finished' \in BOOLEAN
    BY <1>1, <1>2, <1>3 DEF CaptureInv, CaptureTypeOK, Item
  <2> QED BY <1>1, <2>1, <2>2, <2>3, <2>4 DEF CaptureInv, CaptureTypeOK, adcVars
<1>9. Phases'
  <2>1. ASSUME wr_state # "DRAIN" PROVE ~finished' /\ NoneLast(Line')
    <3>1. NoneLast(Line)
      BY <2>1 DEF CaptureInv, Phases
    <3>2. ~Head(Line).last
      BY <1>3, <3>1 DEF NoneLast
    <3>3. ~finished'
      BY <1>1, <1>2, <1>4, <3>2
    <3>4. ASSUME NEW i \in 1 .. Len(Line') PROVE ~Line'[i].last
      <4>1. i + 1 \in 1 .. Len(Line) /\ Line'[i] = Line[i + 1]
        BY <1>3
      <4> QED BY <3>1, <4>1 DEF NoneLast
    <3> QED BY <3>3, <3>4 DEF NoneLast
  <2>2. ASSUME wr_state = "DRAIN" PROVE finished' \/ \E i \in 1 .. Len(Line') : Line'[i].last
    <3>1. PICK i \in 1 .. Len(Line) : Line[i].last
      BY <1>4, <2>2 DEF CaptureInv, Phases
    <3>2. CASE i = 1
      BY <1>1, <1>2, <1>3, <3>1, <3>2
    <3>3. CASE i # 1
      <4>1. i - 1 \in 1 .. Len(Line') /\ Line'[i - 1] = Line[i]
        BY <1>3, <3>3
      <4> QED BY <3>1, <4>1
    <3> QED BY <3>2, <3>3
  <2>3. ASSUME wr_state = "RUN"
        PROVE  /\ burst_count' = NUM_BURSTS - 1 => turn_count' < CAPTURE_CLOCKS
               /\ EndsAt(Line', want', Scheduled')
    BY <1>1, <1>5, <2>3 DEF CaptureInv, Phases, Scheduled, adcVars
  <2>4. in_reset' = in_reset /\ wr_state' = wr_state /\ overflow' = overflow
    BY <1>1 DEF adcVars
  <2> QED BY <1>4, <1>7, <2>1, <2>2, <2>3, <2>4 DEF CaptureInv, Phases
<1> QED BY <1>5, <1>6, <1>8, <1>9 DEF CaptureInv

LEMMA CaptureStep == ASSUME CaptureInv, [CaptureNext]_captureVars PROVE CaptureInv'
<1>1. CASE AdcClock
  BY <1>1, IdleClockKeeps, SampleKeeps, OverflowKeeps, BetweenBurstsKeeps, DrainClockKeeps
     DEF AdcClock
<1> QED BY <1>1, AssertResetKeeps, QuietKeeps, TakeKeeps, TriggerClockKeeps
        DEF CaptureNext, EngineStep

LEMMA CaptureInvariant == CaptureSpec => []CaptureInv
<1>1. CaptureInv /\ [CaptureNext]_captureVars => CaptureInv'
  BY CaptureStep
<1>2. CaptureInit => CaptureInv
  BY CaptureInitHolds
<1> QED BY <1>1, <1>2, PTL DEF CaptureSpec
-----------------------------------------------------------------------------
\* The registers of the engine, its FIFO and the history keep their types, and
\* the FIFO never holds more than its depth.
THEOREM CaptureTypeCorrect == CaptureSpec => []CaptureTypeOK
<1>1. CaptureInv => CaptureTypeOK
  BY DEF CaptureInv
<1> QED BY <1>1, CaptureInvariant, PTL

\* The width converter gets the scheduled samples in their order and without a
\* gap, under any back-pressure (adc2dma.vhd).
THEOREM SamplesInSequence == CaptureSpec => []InSequence
<1>1. CaptureInv => InSequence
  <2> SUFFICES ASSUME CaptureInv PROVE InSequence
    OBVIOUS
  <2>1. Pipe = Line /\ Line \in Seq(Item) /\ Chain(Line, want)
    BY PipeIsLine, LineType DEF CaptureInv
  <2>2. Line # <<>> => Head(Line).word = want
    BY <2>1 DEF Chain
  <2>3. ASSUME NEW i \in 2 .. Len(Line) PROVE Line[i].word = Successor(Line[i - 1].word)
    <3>1. Len(Line) \in Nat
      BY <2>1, LenProperties
    <3>2. i - 1 \in 1 .. Len(Line) /\ (i - 1) + 1 = i /\ i <= Len(Line)
      BY <2>3, <3>1
    <3>3. Line[(i - 1) + 1].word = Successor(Line[i - 1].word)
      BY <2>1, <3>2 DEF Chain
    <3> QED BY <3>2, <3>3
  <2> QED BY <2>1, <2>2, <2>3 DEF InSequence
<1> QED BY <1>1, CaptureInvariant, PTL

\* TLAST marks the final word of the acquisition and no other (adc2dma.vhd:12).
THEOREM OnlyFinalMarked == CaptureSpec => []OnlyFinalIsLast
<1>1. CaptureInv => OnlyFinalIsLast
  BY PipeIsLine DEF CaptureInv, Marked, OnlyFinalIsLast
<1> QED BY <1>1, CaptureInvariant, PTL

\* The transfer is bound to end with TLAST exactly when every sample was stored,
\* and never after an overflow.
THEOREM LastWhenComplete == CaptureSpec => []LastMeansComplete
<1>1. CaptureInv => LastMeansComplete
  <2> SUFFICES ASSUME CaptureInv PROVE LastMeansComplete
    OBVIOUS
  <2>1. Pipe = Line
    BY PipeIsLine DEF CaptureInv
  <2> QED BY <2>1 DEF CaptureInv, Phases, NoneLast, LastMeansComplete
<1> QED BY <1>1, CaptureInvariant, PTL

-----------------------------------------------------------------------------
(***************************************************************************)
(* The two paths under one trigger.                                        *)
(***************************************************************************)
\* A pulse of the trigger register comes from a write of soft_trig, a pulse of
\* the FIFO path from such a pulse, and an acquisition from that.
TriggersCounted ==
  /\ issued \in 0 .. MaxTrig /\ acq \in Nat
  /\ acq + (IF "fifo" \in pending THEN 1 ELSE 0)
         + (IF spc = "cleared" THEN 1 ELSE 0) <= issued

Idle(p) == IF p = "fifo" THEN Listening ELSE wr_state = "IDLE" /\ in_reset = "none"

\* A path that has not taken the trigger has it still before it, and is idle.
TriggerAwaited ==
  /\ pending \subseteq Path /\ took \subseteq Path
  /\ awake => \A p \in Path : p \in took \/ (p \in pending /\ Idle(p))

\* As long as rfadc_reset is up, both paths are in reset.
ResetTogether == sys_rst => in_reset = "both" /\ ~awake /\ pending = {}

PathsInv == TriggersCounted /\ TriggerAwaited /\ ResetTogether
-----------------------------------------------------------------------------
LEMMA PathsInitHolds == PathsInit => PathsInv
BY ReadoutAssumption DEF PathsInit, Init, CaptureInit, PathsInv, TriggersCounted,
                         TriggerAwaited, ResetTogether

LEMMA SoftTriggerCounts == ASSUME PathsInv, SoftTrigger PROVE PathsInv'
<1>1. /\ spc = "cleared" /\ spc' = "idle"
      /\ UNCHANGED <<issued, acq, st, sys_rst, wr_state, in_reset>>
  BY DEF SoftTrigger, SoftPulse, engVars, captureVars, adcVars
<1>2. CASE pending = {} /\ ~sys_rst
  <2>1. pending' = Path /\ took' = {} /\ awake' = BothIdle
    BY <1>2 DEF SoftTrigger
  <2>2. TriggersCounted'
    BY <1>1, <1>2, <2>1 DEF PathsInv, TriggersCounted
  <2>3. TriggerAwaited'
    BY <1>1, <2>1 DEF TriggerAwaited, BothIdle, Idle, Listening
  <2>4. ResetTogether'
    BY <1>1, <1>2 DEF ResetTogether
  <2> QED BY <2>2, <2>3, <2>4 DEF PathsInv
<1>3. CASE ~(pending = {} /\ ~sys_rst)
  <2>1. UNCHANGED <<pending, took, awake>>
    BY <1>3 DEF SoftTrigger, pathVars
  <2>2. TriggersCounted'
    BY <1>1, <2>1 DEF PathsInv, TriggersCounted
  <2>3. TriggerAwaited'
    BY <1>1, <2>1 DEF PathsInv, TriggerAwaited, Idle, Listening
  <2>4. ResetTogether'
    BY <1>1, <2>1 DEF PathsInv, ResetTogether
  <2> QED BY <2>2, <2>3, <2>4 DEF PathsInv
<1> QED BY <1>2, <1>3

LEMMA FifoPulseCounts == ASSUME PathsInv, FifoPulse PROVE PathsInv' /\ acq < MaxTrig
<1>1. /\ "fifo" \in pending /\ pending' = pending \ {"fifo"} /\ awake' = awake
      /\ took' = (IF Listening THEN took \union {"fifo"} ELSE took)
      /\ acq' = (IF Listening THEN acq + 1 ELSE acq)
      /\ UNCHANGED <<spc, issued, sys_rst, wr_state, in_reset>>
  BY DEF FifoPulse, PulseOut, Takes, Triggered, swVars, captureVars, adcVars
<1>2. ~sys_rst
  BY <1>1 DEF PathsInv, ResetTogether
<1>3. TriggersCounted' /\ acq < MaxTrig
  BY <1>1, ReadoutAssumption DEF PathsInv, TriggersCounted
<1>4. TriggerAwaited'
  BY <1>1 DEF PathsInv, TriggerAwaited, Idle, Path
<1>5. ResetTogether'
  BY <1>1, <1>2 DEF ResetTogether
<1> QED BY <1>3, <1>4, <1>5 DEF PathsInv

LEMMA DmaPulseCounts == ASSUME PathsInv, DmaPulse PROVE PathsInv'
<1>1. /\ "dma" \in pending /\ pending' = pending \ {"dma"} /\ awake' = awake
      /\ took' = (IF wr_state = "IDLE" /\ in_reset = "none" THEN took \union {"dma"} ELSE took)
      /\ UNCHANGED <<spc, issued, acq, st, sys_rst>>
  BY DEF DmaPulse, PulseOut, Takes, vars, swVars, engVars
<1>2. ~sys_rst
  BY <1>1 DEF PathsInv, ResetTogether
<1>3. TriggersCounted'
  BY <1>1 DEF PathsInv, TriggersCounted
<1>4. TriggerAwaited'
  BY <1>1 DEF PathsInv, TriggerAwaited, Idle, Listening, Path
<1>5. ResetTogether'
  BY <1>1, <1>2 DEF ResetTogether
<1> QED BY <1>3, <1>4, <1>5 DEF PathsInv

\* An idle engine stays idle until its pulse.
LEMMA FifoStepCounts == ASSUME PathsInv, FifoStep PROVE PathsInv'
<1>1. UNCHANGED <<wr_state, in_reset, pending, took, awake>>
  BY DEF FifoStep, captureVars, adcVars, pathVars
<1>2. CASE SoftClear
  <2>1. /\ spc = "idle" /\ issued < MaxTrig /\ issued' = issued + 1 /\ spc' = "cleared"
        /\ UNCHANGED <<acq, st, sys_rst>>
    BY <1>2 DEF SoftClear, engVars
  <2>2. TriggersCounted'
    BY <1>1, <2>1, ReadoutAssumption DEF PathsInv, TriggersCounted
  <2>3. TriggerAwaited' /\ ResetTogether'
    BY <1>1, <2>1 DEF PathsInv, TriggerAwaited, ResetTogether, Idle, Listening
  <2> QED BY <2>2, <2>3 DEF PathsInv
<1>3. CASE Engine \/ Daemon
  <2>1. UNCHANGED <<spc, issued, acq, sys_rst>> /\ (st = "IDLE" => st' = "IDLE")
    BY <1>3 DEF Engine, Settle, Arm, Write, RaiseDone, EndWait, Reset, SyncDone,
                Daemon, Poll, ReadGroup, SendChannel, ClearDone, swVars, engVars
  <2>2. TriggersCounted'
    BY <1>1, <2>1 DEF PathsInv, TriggersCounted
  <2>3. TriggerAwaited' /\ ResetTogether'
    BY <1>1, <2>1 DEF PathsInv, TriggerAwaited, ResetTogether, Idle, Listening
  <2> QED BY <2>2, <2>3 DEF PathsInv
<1>4. CASE SysRelease
  <2>1. UNCHANGED <<spc, issued, acq, st>> /\ ~sys_rst'
    BY <1>4 DEF SysRelease, swVars
  <2>2. TriggersCounted'
    BY <1>1, <2>1 DEF PathsInv, TriggersCounted
  <2>3. TriggerAwaited' /\ ResetTogether'
    BY <1>1, <2>1 DEF PathsInv, TriggerAwaited, ResetTogether, Idle, Listening
  <2> QED BY <2>2, <2>3 DEF PathsInv
<1> QED BY <1>2, <1>3, <1>4 DEF FifoStep

LEMMA DmaStepCounts == ASSUME PathsInv, DmaStep PROVE PathsInv'
<1>1. /\ UNCHANGED <<spc, issued, acq, st, sys_rst, pending, took>>
      /\ sys_rst => in_reset' = in_reset
      /\ awake' = (awake /\ in_reset' = "none")
  BY DEF DmaStep, vars, swVars, engVars
<1>2. wr_state = "IDLE" => wr_state' = "IDLE"
  BY DEF DmaStep, EngineStep, AssertReset, ReleaseReset, WriteTestEnable, AdcClock, IdleClock,
         Sample, Overflow, BetweenBursts, DrainClock, Take, NotReady, adcVars
<1>3. TriggersCounted'
  BY <1>1 DEF PathsInv, TriggersCounted
<1>4. TriggerAwaited'
  BY <1>1, <1>2 DEF PathsInv, TriggerAwaited, Idle, Listening
<1>5. ResetTogether'
  BY <1>1 DEF PathsInv, ResetTogether
<1> QED BY <1>3, <1>4, <1>5 DEF PathsInv

\* rfadc_reset takes both paths and the pulses between them and the trigger.
LEMMA RfadcResetCounts == ASSUME PathsInv, RfadcReset PROVE PathsInv'
<1>1. /\ pending' = {} /\ ~awake' /\ in_reset' = "both"
      /\ UNCHANGED <<spc, issued, acq, took>>
  BY DEF RfadcReset, SysReset, AssertReset, captureVars, swVars
<1>2. TriggersCounted'
  BY <1>1 DEF PathsInv, TriggersCounted
<1>3. TriggerAwaited' /\ ResetTogether'
  BY <1>1 DEF PathsInv, TriggerAwaited, ResetTogether
<1> QED BY <1>2, <1>3 DEF PathsInv

LEMMA PathsStutter == ASSUME PathsInv, UNCHANGED allVars PROVE PathsInv'
BY DEF PathsInv, TriggersCounted, TriggerAwaited, ResetTogether, Idle, Listening,
       allVars, vars, swVars, engVars, captureVars, adcVars, pathVars

LEMMA PathsStep == ASSUME PathsInv, [PathsNext]_allVars PROVE PathsInv'
BY SoftTriggerCounts, FifoPulseCounts, DmaPulseCounts, FifoStepCounts, DmaStepCounts,
   RfadcResetCounts, PathsStutter DEF PathsNext

LEMMA PathsInvariant == PathsSpec => []PathsInv
<1>1. PathsInv /\ [PathsNext]_allVars => PathsInv'
  BY PathsStep
<1> QED BY PathsInitHolds, <1>1, PTL DEF PathsSpec
-----------------------------------------------------------------------------
\* The FIFO path under the common trigger and the common reset is FifoReadout: its
\* engines are never triggered more often than soft_trig was called.
THEOREM FifoPathImplements == PathsSpec => Spec
<1>1. PathsInit => Init
  BY DEF PathsInit
<1>2. PathsInv /\ [PathsNext]_allVars => [Next]_vars
  <2> SUFFICES ASSUME PathsInv, [PathsNext]_allVars PROVE [Next]_vars
    OBVIOUS
  <2>1. CASE SoftTrigger
    BY <2>1 DEF SoftTrigger, Next
  <2>2. CASE FifoPulse
    BY <2>2, FifoPulseCounts DEF FifoPulse, Next
  <2>3. CASE DmaPulse \/ DmaStep
    BY <2>3 DEF DmaPulse, DmaStep
  <2>4. CASE FifoStep
    BY <2>4 DEF FifoStep, Next
  <2>5. CASE RfadcReset
    BY <2>5 DEF RfadcReset, Next
  <2>6. CASE UNCHANGED allVars
    BY <2>6 DEF allVars
  <2> QED BY <2>1, <2>2, <2>3, <2>4, <2>5, <2>6 DEF PathsNext
<1> QED BY <1>1, <1>2, PathsInvariant, PTL DEF PathsSpec, Spec

\* The DMA path under the common trigger and the common reset is Adc2Dma.
THEOREM DmaPathImplements == PathsSpec => CaptureSpec
<1>1. PathsInit => CaptureInit
  BY DEF PathsInit
<1>2. [PathsNext]_allVars => [CaptureNext]_captureVars
  <2> SUFFICES ASSUME [PathsNext]_allVars PROVE [CaptureNext]_captureVars
    OBVIOUS
  <2>1. CASE SoftTrigger \/ FifoPulse \/ FifoStep
    BY <2>1 DEF SoftTrigger, FifoPulse, FifoStep
  <2>2. CASE DmaPulse
    BY <2>2 DEF DmaPulse, CaptureNext
  <2>3. CASE DmaStep
    BY <2>3 DEF DmaStep, CaptureNext
  <2>4. CASE RfadcReset
    BY <2>4 DEF RfadcReset, CaptureNext, EngineStep
  <2>5. CASE UNCHANGED allVars
    BY <2>5 DEF allVars
  <2> QED BY <2>1, <2>2, <2>3, <2>4, <2>5 DEF PathsNext
<1> QED BY <1>1, <1>2, PTL DEF PathsSpec, CaptureSpec

\* What is proved of each path holds of the two together.
THEOREM PathsKeepTheirPromises ==
  PathsSpec => [](/\ MessageStartsWithAcquisition /\ EnginesWaitForDaemon
                  /\ InSequence /\ OnlyFinalIsLast /\ LastMeansComplete)
BY FifoPathImplements, DmaPathImplements, StartsWithAcquisition, EnginesWait,
   SamplesInSequence, OnlyFinalMarked, LastWhenComplete, PTL

\* A soft trigger that finds both paths idle starts an acquisition on both, in
\* whatever order the pulses of trigger_sync come.
THEOREM BothTake == PathsSpec => []TakenByBoth
<1>1. PathsInv => TakenByBoth
  BY DEF PathsInv, TriggerAwaited, TakenByBoth
<1> QED BY <1>1, PathsInvariant, PTL
=============================================================================
