------------------------ MODULE DmaAcquisitionProofs ------------------------
(***************************************************************************)
(* Proofs about DmaAcquisition for any number of clients, triggers, chunks *)
(* and FIFO places.                                                        *)
(***************************************************************************)
EXTENDS DmaAcquisition, SequenceTheorems, TLAPS

Chunk == [id : Nat, last : BOOLEAN]

LEMMA ChunkNumbers ==
  /\ SentChunk \in Nat /\ NumChunk \in Nat /\ LenChunk \in Nat
  /\ SentChunk >= 1 /\ SentChunk <= NumChunk /\ NumChunk <= LenChunk
BY AcquisitionAssumption

FabricType ==
  /\ fifo \in Seq(Chunk)
  /\ conv \in Seq(Chunk) /\ Len(conv) <= 1
  /\ cap \in [st : {"idle", "run", "drain", "fault"}, id : Nat, next : 1 .. NumChunk]
  /\ caps \in Nat
  /\ dma \in [st : {"reset", "run", "done"}, pos : 1 .. LenChunk]
  /\ ddr \in [1 .. SentChunk -> Nat]
  /\ copy \in Seq(Nat)
  /\ early \in BOOLEAN /\ fresh \in BOOLEAN

\* Chunks of the capture under way that were taken and that reached DDR.
Captured == IF cap.st = "drain" THEN NumChunk ELSE cap.next - 1
Written == IF dma.st = "run" THEN dma.pos - 1 ELSE NumChunk

\* Everything in the FIFO, in the converter and in the part of DDR written so far
\* belongs to the capture that began in time, in its order.
OwnCapture ==
  /\ cap.st # "idle" /\ cap.id = intime
  /\ dma.st # "reset"
  /\ \A j \in 1 .. Len(conv) : /\ conv[j].id = intime
                               /\ conv[j].last <=> (Written + j = NumChunk)
  /\ \A j \in 1 .. Len(fifo) : /\ fifo[j].id = intime
                               /\ fifo[j].last <=> (Written + Len(conv) + j = NumChunk)
  /\ Captured = Written + Len(conv) + Len(fifo)
  /\ \A k \in 1 .. SentChunk : k <= Written => ddr[k] = intime

\* The capture that began in time has reached DDR, and the transfer is over:
\* whatever the engine does now does not matter.
Stored == dma.st = "done" /\ \A k \in 1 .. SentChunk : ddr[k] = intime

\* The engine is only idle with its FIFO empty; a capture that finds the DMA fresh
\* finds everything behind it empty.  The delay of the daemon leaves nothing of it
\* unwritten, unless it met a full FIFO.
CaptureInv ==
  /\ cap.st = "idle" => fifo = <<>>
  /\ fresh => /\ cap.st = "idle" /\ conv = <<>> /\ dma = [st |-> "run", pos |-> 1]
              /\ intime = None /\ dpc \notin {"dmarst", "length", "redmarst", "relength"}
  /\ intime # None =>
       dpc \in {"wait", "late", "read", "refiforst"} /\ (OwnCapture \/ Stored)
  /\ (/\ intime # None /\ cap.st # "fault"
      /\ dpc = "read" \/ (dpc = "late" /\ ~early)) => Written = NumChunk
  /\ dpc # "read" => copy = <<>>
  /\ (intime # None /\ dpc = "read" /\ (cap.st # "fault" \/ Stored))
        => \A i \in 1 .. Len(copy) : copy[i] = intime

LEMMA FabricInit == Init => FabricType /\ CaptureInv
<1> SUFFICES ASSUME Init PROVE FabricType /\ CaptureInv
  OBVIOUS
<1>1. /\ <<>> \in Seq(Chunk) /\ <<>> \in Seq(Nat) /\ Len(<<>>) = 0
  BY EmptySeq
<1>2. FabricType
  <2>1. cap \in [st : {"idle", "run", "drain", "fault"}, id : Nat, next : 1 .. NumChunk]
    BY ChunkNumbers DEF Init, NoCapture
  <2>2. dma \in [st : {"reset", "run", "done"}, pos : 1 .. LenChunk]
    BY ChunkNumbers DEF Init, DmaReset
  <2>3. ddr \in [1 .. SentChunk -> Nat]
    BY DEF Init
  <2>4. fifo \in Seq(Chunk) /\ conv \in Seq(Chunk) /\ Len(conv) <= 1 /\ copy \in Seq(Nat)
    BY <1>1 DEF Init
  <2> QED BY <2>1, <2>2, <2>3, <2>4 DEF Init, FabricType
<1> QED BY <1>2 DEF Init, CaptureInv

\* A capture that met a full FIFO does not reach its end.
LEMMA FaultFallsShort ==
  ASSUME FabricType, OwnCapture, cap.st # "drain"
  PROVE  /\ Captured = cap.next - 1 /\ Captured < NumChunk /\ Written < NumChunk
         /\ dma.st = "run" /\ Written = dma.pos - 1 /\ Written \in Nat
<1> USE ChunkNumbers
<1>1. /\ cap.next \in 1 .. NumChunk /\ dma.pos \in 1 .. LenChunk
      /\ Len(conv) \in Nat /\ Len(fifo) \in Nat
  BY LenProperties DEF FabricType
<1>2. Captured = cap.next - 1 /\ Captured = Written + Len(conv) + Len(fifo)
  BY DEF Captured, OwnCapture
<1>3. Captured < NumChunk
  BY <1>1, <1>2
<1>4. Written = NumChunk \/ (dma.st = "run" /\ Written = dma.pos - 1)
  BY DEF Written
<1>5. Written # NumChunk
  BY <1>1, <1>2, <1>3
<1> QED BY <1>1, <1>2, <1>3, <1>4, <1>5

\* What has been written to its end is in DDR.
LEMMA DoneIsStored ==
  ASSUME FabricType, OwnCapture \/ Stored, Written = NumChunk
  PROVE  \A k \in 1 .. SentChunk : ddr[k] = intime
<1>1. CASE OwnCapture
  <2> SUFFICES ASSUME NEW k \in 1 .. SentChunk PROVE ddr[k] = intime
    OBVIOUS
  <2>1. k <= Written
    BY ChunkNumbers
  <2> QED BY <1>1, <2>1 DEF OwnCapture
<1>2. CASE Stored
  BY <1>2 DEF Stored
<1> QED BY <1>1, <1>2

\* CaptureChunk puts the next chunk at the end of the FIFO, or gives up.
LEMMA TakeChunk ==
  ASSUME FabricType, CaptureInv, CaptureChunk PROVE FabricType' /\ CaptureInv'
<1> USE ChunkNumbers
<1>1. /\ cap.st = "run"
      /\ UNCHANGED <<caps, conv, dma, ddr, dpc, copy, early, fresh, intime>>
  BY DEF CaptureChunk, damVars
<1>2. /\ Len(fifo) \in Nat /\ Len(conv) \in Nat /\ cap.next \in 1 .. NumChunk /\ cap.id \in Nat
      /\ Written' = Written /\ (Stored' <=> Stored) /\ ~fresh
  BY <1>1, LenProperties DEF FabricType, CaptureInv, Written, Stored
<1>3. CASE ~(Len(fifo) < FifoDepth)
  <2>1. cap' = [cap EXCEPT !.st = "fault"] /\ fifo' = fifo
    BY <1>3 DEF CaptureChunk
  <2>2. FabricType' /\ cap'.st = "fault" /\ cap'.id = cap.id /\ cap'.next = cap.next
    BY <1>1, <2>1 DEF FabricType
  <2>3. OwnCapture => OwnCapture'
    BY <1>1, <1>2, <2>1, <2>2 DEF OwnCapture, Captured
  <2> QED BY <1>1, <1>2, <2>1, <2>2, <2>3 DEF CaptureInv
<1>4. CASE Len(fifo) < FifoDepth
  <2> DEFINE e == [id |-> cap.id, last |-> cap.next = NumChunk]
  <2>1. /\ fifo' = Append(fifo, e)
        /\ cap' = IF cap.next = NumChunk THEN [cap EXCEPT !.st = "drain"]
                                         ELSE [cap EXCEPT !.next = @ + 1]
    BY <1>4 DEF CaptureChunk
  <2>2. e \in Chunk
    BY <1>2 DEF Chunk
  <2>3. /\ fifo' \in Seq(Chunk) /\ fifo' # <<>> /\ Len(fifo') = Len(fifo) + 1
        /\ \A j \in 1 .. Len(fifo) : fifo'[j] = fifo[j]
        /\ fifo'[Len(fifo) + 1] = e
    <3>1. fifo \in Seq(Chunk)
      BY DEF FabricType
    <3> HIDE DEF e
    <3>2. /\ Append(fifo, e) \in Seq(Chunk) /\ Append(fifo, e) # <<>>
          /\ Len(Append(fifo, e)) = Len(fifo) + 1
          /\ \A j \in 1 .. Len(fifo) : Append(fifo, e)[j] = fifo[j]
          /\ Append(fifo, e)[Len(fifo) + 1] = e
      BY <2>2, <3>1, AppendProperties
    <3> QED BY <2>1, <3>2
  <2>4. FabricType' /\ cap'.st \notin {"idle", "fault"} /\ cap'.id = cap.id
    <3>1. CASE cap.next = NumChunk
      <4>1. cap' = [cap EXCEPT !.st = "drain"]
        BY <2>1, <3>1
      <4> QED BY <1>1, <2>3, <4>1 DEF FabricType
    <3>2. CASE cap.next # NumChunk
      <4>1. cap' = [cap EXCEPT !.next = cap.next + 1] /\ cap.next + 1 \in 1 .. NumChunk
        BY <1>2, <2>1, <3>2
      <4> QED BY <1>1, <2>3, <4>1 DEF FabricType
    <3> QED BY <3>1, <3>2
  <2>5. ASSUME OwnCapture PROVE OwnCapture'
    <3>1. /\ Captured = Written + Len(conv) + Len(fifo) /\ Captured = cap.next - 1
          /\ Written \in Nat /\ dma.st = "run"
      BY <1>1, <2>5, FaultFallsShort DEF OwnCapture
    <3>2. Written + Len(conv) + (Len(fifo) + 1) = cap.next
      BY <1>2, <3>1
    <3>3. Captured' = Written + Len(conv) + Len(fifo')
      <4>1. Captured' = cap.next
        BY <1>1, <1>2, <2>1 DEF FabricType, Captured
      <4> QED BY <2>3, <3>2, <4>1
    <3>4. ASSUME NEW j \in 1 .. Len(fifo')
          PROVE  fifo'[j].id = intime /\ (fifo'[j].last <=> (Written + Len(conv) + j = NumChunk))
      <4>1. CASE j \in 1 .. Len(fifo)
        <5>1. fifo'[j] = fifo[j] /\ fifo[j].id = intime
              /\ (fifo[j].last <=> (Written + Len(conv) + j = NumChunk))
          BY <2>3, <2>5, <4>1 DEF OwnCapture
        <5> QED BY <5>1
      <4>2. CASE j = Len(fifo) + 1
        <5>1. fifo'[j] = e /\ cap.id = intime
          BY <2>3, <2>5, <4>2 DEF OwnCapture
        <5>2. Written + Len(conv) + j = cap.next
          BY <3>2, <4>2
        <5>3. e.last = (cap.next = NumChunk) /\ e.id = cap.id
          OBVIOUS
        <5> HIDE DEF e
        <5>4. fifo'[j].id = intime /\ fifo'[j].last = (cap.next = NumChunk)
          BY <5>1, <5>3
        <5> QED BY <5>2, <5>4
      <4> QED BY <1>2, <2>3, <4>1, <4>2
    <3> QED BY <1>1, <1>2, <2>4, <2>5, <3>3, <3>4 DEF OwnCapture
  <2> QED BY <1>1, <1>2, <2>4, <2>5 DEF CaptureInv
<1> QED BY <1>3, <1>4

\* Convert moves the chunk at the head of the FIFO into the empty converter.
LEMMA MoveChunk ==
  ASSUME FabricType, CaptureInv, Convert PROVE FabricType' /\ CaptureInv'
<1> USE ChunkNumbers
<1>1. /\ fifo # <<>> /\ conv = <<>> /\ conv' = <<Head(fifo)>> /\ fifo' = Tail(fifo)
      /\ UNCHANGED <<cap, caps, dma, ddr, dpc, copy, early, fresh, intime>>
  BY DEF Convert, damVars
<1>2. /\ Len(fifo) \in Nat /\ Head(fifo) = fifo[1] /\ fifo[1] \in Chunk /\ 1 \in 1 .. Len(fifo)
      /\ fifo' \in Seq(Chunk) /\ Len(fifo') = Len(fifo) - 1
      /\ \A j \in 1 .. Len(fifo') : fifo'[j] = fifo[j + 1]
  <2>1. fifo \in Seq(Chunk) /\ Len(fifo) \in Nat /\ Len(fifo) # 0
    BY <1>1, LenProperties, EmptySeq DEF FabricType
  <2> QED BY <1>1, <2>1, HeadTailProperties, ElementOfSeq
<1>3. Len(conv) = 0 /\ Len(conv') = 1 /\ conv'[1] = fifo[1] /\ conv' \in Seq(Chunk)
  BY <1>1, <1>2, EmptySeq
<1>4. FabricType'
  BY <1>1, <1>2, <1>3 DEF FabricType
<1>5. Written' = Written /\ Captured' = Captured /\ (Stored' <=> Stored) /\ Written \in Int
  BY <1>1 DEF Written, Captured, Stored, FabricType
<1>6. cap.st # "idle"
  BY <1>1 DEF CaptureInv
<1>7. ASSUME OwnCapture PROVE OwnCapture'
  <2>1. fifo[1].id = intime /\ (fifo[1].last <=> (Written + Len(conv) + 1 = NumChunk))
    BY <1>2, <1>7 DEF OwnCapture
  <2>2. ASSUME NEW j \in 1 .. Len(conv')
        PROVE  conv'[j].id = intime /\ (conv'[j].last <=> (Written + j = NumChunk))
    <3>1. j = 1 /\ Written + Len(conv) + 1 = Written + j
      BY <1>3, <1>5
    <3> QED BY <1>3, <2>1, <3>1
  <2>3. ASSUME NEW j \in 1 .. Len(fifo')
        PROVE  fifo'[j].id = intime /\ (fifo'[j].last <=> (Written + Len(conv') + j = NumChunk))
    <3>1. j + 1 \in 1 .. Len(fifo) /\ Written + Len(conv) + (j + 1) = Written + Len(conv') + j
      BY <1>2, <1>3, <1>5
    <3> QED BY <1>2, <1>7, <3>1 DEF OwnCapture
  <2>4. Captured = Written + Len(conv') + Len(fifo')
    BY <1>2, <1>3, <1>5, <1>7 DEF OwnCapture
  <2> QED BY <1>1, <1>5, <1>7, <2>2, <2>3, <2>4 DEF OwnCapture
<1> QED BY <1>1, <1>4, <1>5, <1>6, <1>7 DEF CaptureInv

\* DmaWrite moves the chunk in the converter to its place in DDR.
LEMMA WriteChunk ==
  ASSUME FabricType, CaptureInv, DmaWrite PROVE FabricType' /\ CaptureInv'
<1> USE ChunkNumbers
<1>1. /\ conv # <<>> /\ dma.st = "run" /\ conv' = <<>> /\ ToDdr(dma.pos)
      /\ dma' = IF Head(conv).last \/ dma.pos = LenChunk
                THEN [st |-> "done", pos |-> 1] ELSE [dma EXCEPT !.pos = @ + 1]
      /\ UNCHANGED <<cap, caps, fifo, dpc, copy, early, fresh, intime>>
  BY DEF DmaWrite, damVars
<1>2. /\ Len(conv) = 1 /\ Head(conv) = conv[1] /\ conv[1] \in Chunk /\ Len(conv') = 0
      /\ conv' \in Seq(Chunk) /\ Len(fifo) \in Nat
  <2>1. conv \in Seq(Chunk) /\ Len(conv) \in Nat /\ Len(conv) # 0 /\ Len(conv) <= 1
    BY <1>1, LenProperties, EmptySeq DEF FabricType
  <2>2. Len(fifo) \in Nat
    BY LenProperties DEF FabricType
  <2>3. Len(conv) = 1 /\ 1 \in 1 .. Len(conv)
    <3>1. ASSUME NEW n \in Nat, n # 0, n <= 1 PROVE n = 1 /\ 1 \in 1 .. n
      BY <3>1
    <3> QED BY <2>1, <3>1
  <2>4. Len(conv) = 1 /\ conv[1] \in Chunk
    BY <2>1, <2>3, ElementOfSeq
  <2>5. Head(conv) = conv[1]
    BY <2>1, <1>1, HeadTailProperties
  <2>6. conv' \in Seq(Chunk) /\ Len(conv') = 0
    BY <1>1, EmptySeq
  <2> QED BY <2>2, <2>4, <2>5, <2>6
<1>3. dma.pos \in 1 .. LenChunk /\ cap.next \in 1 .. NumChunk /\ Written = dma.pos - 1
  BY <1>1 DEF FabricType, Written
<1>4. FabricType'
  <2>1. ddr' \in [1 .. SentChunk -> Nat]
    BY <1>1, <1>2 DEF FabricType, ToDdr, Chunk
  <2>2. dma' \in [st : {"reset", "run", "done"}, pos : 1 .. LenChunk]
    <3>1. CASE Head(conv).last \/ dma.pos = LenChunk
      BY <1>1, <3>1
    <3>2. CASE ~(Head(conv).last \/ dma.pos = LenChunk)
      <4>1. dma' = [dma EXCEPT !.pos = dma.pos + 1] /\ dma.pos + 1 \in 1 .. LenChunk
        BY <1>1, <1>3, <3>2
      <4> QED BY <4>1 DEF FabricType
    <3> QED BY <3>1, <3>2
  <2> QED BY <1>1, <1>2, <2>1, <2>2 DEF FabricType
<1>5. ~fresh
  BY <1>1 DEF CaptureInv
<1>6. ASSUME intime # None
      PROVE  OwnCapture' /\ Written # NumChunk /\ (cap.st = "fault" => dma'.st = "run")
  <2>1. /\ OwnCapture /\ Captured = Written + 1 + Len(fifo)
        /\ Captured' = Captured /\ Captured \in Nat /\ Captured <= NumChunk
    <3>1. OwnCapture
      BY <1>1, <1>6 DEF CaptureInv, Stored
    <3>2. Captured' = Captured /\ Captured = Written + Len(conv) + Len(fifo)
      BY <1>1, <3>1 DEF Captured, OwnCapture
    <3>3. Captured \in Nat /\ Captured <= NumChunk
      BY <1>3 DEF Captured
    <3> QED BY <1>2, <3>1, <3>2, <3>3
  <2>2. Written + 1 <= NumChunk /\ Written \in Nat /\ dma.pos <= NumChunk
    BY <1>2, <1>3, <2>1
  <2>3. conv[1].id = intime /\ (conv[1].last <=> (Written + 1 = NumChunk))
    BY <1>2, <2>1 DEF OwnCapture
  <2>4. Written' = Written + 1 /\ dma'.st # "reset"
    <3>1. CASE Head(conv).last \/ dma.pos = LenChunk
      <4>1. Written + 1 = NumChunk
        <5>1. conv[1].last \/ dma.pos = LenChunk
          BY <1>2, <3>1
        <5>2. CASE conv[1].last
          BY <2>3, <5>2
        <5>3. CASE dma.pos = LenChunk
          BY <1>3, <2>2, <5>3
        <5> QED BY <5>1, <5>2, <5>3
      <4>2. dma' = [st |-> "done", pos |-> 1]
        BY <1>1, <3>1
      <4> QED BY <4>1, <4>2 DEF Written
    <3>2. CASE ~(Head(conv).last \/ dma.pos = LenChunk)
      <4>1. dma' = [dma EXCEPT !.pos = dma.pos + 1]
        BY <1>1, <3>2
      <4>2. dma'.st = "run" /\ dma'.pos = dma.pos + 1
        BY <1>1, <4>1 DEF FabricType
      <4>3. Written' = dma'.pos - 1
        BY <4>2, Zenon DEF Written
      <4> QED BY <1>3, <4>2, <4>3
    <3> QED BY <3>1, <3>2
  <2>5. ASSUME NEW j \in 1 .. Len(fifo)
        PROVE  fifo[j].id = intime /\ (fifo[j].last <=> (Written' + Len(conv') + j = NumChunk))
    <3>1. Written + Len(conv) + j = Written' + Len(conv') + j
      BY <1>2, <2>2, <2>4
    <3> QED BY <2>1, <3>1 DEF OwnCapture
  <2>6. ASSUME NEW k \in 1 .. SentChunk, k <= Written' PROVE ddr'[k] = intime
    <3>1. dma.pos \in Nat /\ (k = dma.pos \/ k <= Written)
      BY <1>3, <2>4, <2>6
    <3>2. CASE k = dma.pos
      <4>1. ddr'[k] = Head(conv).id
        BY <1>1, <3>2 DEF ToDdr, FabricType
      <4> QED BY <1>2, <2>3, <4>1
    <3>3. CASE k # dma.pos /\ k <= Written
      <4>1. ddr'[k] = ddr[k]
        BY <1>1, <3>3 DEF ToDdr, FabricType
      <4> QED BY <2>1, <3>3, <4>1 DEF OwnCapture
    <3> QED BY <3>1, <3>2, <3>3
  <2>7. Captured' = Written' + Len(conv') + Len(fifo')
    BY <1>1, <1>2, <2>1, <2>2, <2>4
  <2>8. OwnCapture'
    <3>1. \A j \in 1 .. Len(conv') : FALSE
      BY <1>2
    <3> QED BY <1>1, <2>1, <2>4, <2>5, <2>6, <2>7, <3>1 DEF OwnCapture
  <2>9. cap.st = "fault" => dma'.st = "run"
    <3> SUFFICES ASSUME cap.st = "fault" PROVE dma'.st = "run"
      OBVIOUS
    <3>1. Written + 1 < NumChunk
      BY <1>2, <1>3, <2>1, <2>2, FaultFallsShort
    <3>2. ~Head(conv).last
      BY <1>2, <2>2, <2>3, <3>1
    <3>3. dma.pos # LenChunk
      BY <1>3, <3>1
    <3>4. dma' = [dma EXCEPT !.pos = dma.pos + 1]
      BY <1>1, <3>2, <3>3
    <3> QED BY <1>1, <3>4 DEF FabricType
  <2> QED BY <2>2, <2>8, <2>9
<1>7. ASSUME intime # None, dpc = "read", cap.st # "fault" \/ Stored' PROVE FALSE
  <2>1. cap.st # "fault"
    BY <1>6, <1>7 DEF Stored
  <2> QED BY <1>6, <1>7, <2>1 DEF CaptureInv
<1> QED BY <1>1, <1>4, <1>5, <1>6, <1>7 DEF CaptureInv

\* A capture begins: in time if the daemon has just begun to wait.
LEMMA BeginCapture ==
  ASSUME FabricType, CaptureInv, DmaTrigger PROVE FabricType' /\ CaptureInv'
<1> USE ChunkNumbers
<1>1. UNCHANGED <<fifo, conv, dma, ddr, dpc, copy, early>> /\ Written' = Written
  BY DEF DmaTrigger, Written
<1>2. CASE cap.st # "idle"
  <2>1. UNCHANGED <<cap, caps, fresh, intime>>
    BY <1>2 DEF DmaTrigger
  <2> QED BY <1>1, <2>1 DEF FabricType, CaptureInv, OwnCapture, Stored, Captured
<1>3. CASE cap.st = "idle"
  <2>1. /\ cap' = [st |-> "run", id |-> caps + 1, next |-> 1] /\ caps' = caps + 1
        /\ intime' = IF dpc = "wait" /\ fresh THEN caps + 1 ELSE intime
        /\ fresh' = FALSE
    BY <1>3 DEF DmaTrigger
  <2>2. FabricType'
    <3>1. /\ cap' \in [st : {"idle", "run", "drain", "fault"}, id : Nat, next : 1 .. NumChunk]
          /\ caps' \in Nat /\ fresh' \in BOOLEAN
      <4>1. caps + 1 \in Nat /\ 1 \in 1 .. NumChunk
        BY DEF FabricType
      <4>2. cap' \in [st : {"idle", "run", "drain", "fault"}, id : Nat, next : 1 .. NumChunk]
        BY <2>1, <4>1
      <4> QED BY <2>1, <4>1, <4>2
    <3> QED BY <1>1, <3>1 DEF FabricType
  <2>3. fifo = <<>> /\ Len(fifo) = 0 /\ (intime # None => Stored)
    BY <1>3, EmptySeq DEF CaptureInv, OwnCapture
  <2>4. CASE dpc = "wait" /\ fresh
    <3>1. dma = [st |-> "run", pos |-> 1] /\ conv = <<>> /\ Len(conv) = 0
      BY <2>4, EmptySeq DEF CaptureInv
    <3>2. Written' = 0 /\ Captured' = 0
      BY <1>1, <2>1, <3>1 DEF Written, Captured
    <3>3. OwnCapture'
      BY <1>1, <2>1, <2>3, <2>4, <3>1, <3>2 DEF OwnCapture
    <3> QED BY <1>1, <2>1, <2>2, <2>4, <3>3 DEF CaptureInv
  <2>5. CASE ~(dpc = "wait" /\ fresh)
    <3>1. intime' = intime /\ (Stored' <=> Stored)
      BY <1>1, <2>1, <2>5 DEF Stored
    <3> QED BY <1>1, <1>3, <2>1, <2>2, <2>3, <3>1 DEF CaptureInv
  <2> QED BY <2>4, <2>5
<1> QED BY <1>2, <1>3

\* rfadc_reset gives up what is under way.  What has been stored stays stored.
LEMMA CutCapture ==
  ASSUME FabricType, CaptureInv, AdcReset PROVE FabricType' /\ CaptureInv'
<1> USE ChunkNumbers
<1>1. /\ cap' = NoCapture /\ fifo' = <<>>
      /\ intime' = IF cap.st = "idle" \/ dma.st = "done" THEN intime ELSE None
      /\ UNCHANGED <<caps, conv, dma, ddr, dpc, copy, early, fresh>> /\ Written' = Written
  BY DEF AdcReset, Written
<1>2. FabricType' /\ cap'.st = "idle"
  BY <1>1, EmptySeq DEF FabricType, NoCapture
<1>3. ASSUME intime' # None PROVE intime' = intime /\ Stored /\ Stored' /\ Written = NumChunk
  <2>1. intime' = intime /\ (OwnCapture \/ Stored) /\ (cap.st = "idle" \/ dma.st = "done")
    BY <1>1, <1>3 DEF CaptureInv
  <2>2. dma.st = "done"
    BY <2>1 DEF OwnCapture, Stored
  <2>3. Written = NumChunk
    BY <2>2 DEF Written
  <2>4. Stored
    BY <2>1, <2>2, <2>3, DoneIsStored DEF Stored
  <2> QED BY <1>1, <2>1, <2>3, <2>4 DEF Stored
<1>4. fresh => intime = None /\ intime' = None
  BY <1>1 DEF CaptureInv
<1> QED BY <1>1, <1>2, <1>3, <1>4 DEF CaptureInv

\* The daemon waits and reads.
LEMMA ReadOut ==
  ASSUME FabricType, CaptureInv, WaitEnds \/ StartRead \/ ReadChunk \/ Push
  PROVE  FabricType' /\ CaptureInv'
<1> USE ChunkNumbers
<1>1. /\ UNCHANGED <<fifo, conv, cap, caps, dma, ddr, fresh, intime>>
      /\ Captured' = Captured /\ Written' = Written /\ (Stored' <=> Stored)
  BY DEF WaitEnds, StartRead, ReadChunk, Push, plVars, Captured, Written, Stored
<1>2. OwnCapture' <=> OwnCapture
  BY <1>1 DEF OwnCapture
\* In flight is nothing of a capture that is over: it is all in DDR.
<1>3. ASSUME intime # None, cap.st # "fault", ~UnderWay PROVE Written = NumChunk
  <2>1. CASE Stored
    BY <2>1 DEF Stored, Written
  <2>2. CASE OwnCapture
    <3>1. /\ Captured = Written + Len(conv) + Len(fifo) /\ cap.st = "drain"
          /\ dma.st # "run" \/ (fifo = <<>> /\ conv = <<>>)
      BY <1>3, <2>2 DEF OwnCapture, FabricType, UnderWay
    <3>2. Captured = NumChunk
      BY <3>1 DEF Captured
    <3>3. CASE fifo = <<>> /\ conv = <<>>
      <4>1. Len(fifo) = 0 /\ Len(conv) = 0 /\ Written \in Int
        BY <3>3, EmptySeq DEF Written, FabricType
      <4> QED BY <3>1, <3>2, <4>1
    <3>4. CASE dma.st # "run"
      BY <3>4 DEF Written
    <3> QED BY <3>1, <3>3, <3>4
  <2> QED BY <1>3, <2>1, <2>2 DEF CaptureInv
<1>4. CASE WaitEnds
  <2>1. dpc' = "late" /\ copy' = copy /\ early' = UnderWay /\ dpc = "wait"
    BY <1>4 DEF WaitEnds
  <2>2. UnderWay \in BOOLEAN
    BY DEF UnderWay
  <2>3. FabricType'
    BY <1>1, <2>1, <2>2 DEF FabricType
  <2> QED BY <1>1, <1>2, <1>3, <2>1, <2>3 DEF CaptureInv
<1>5. CASE StartRead
  <2>1. /\ dpc = "late" /\ dpc' = "read" /\ copy' = copy /\ early' = FALSE
        /\ early => ~UnderWay
    BY <1>5 DEF StartRead
  <2>2. FabricType' /\ Len(copy') = 0
    BY <1>1, <2>1, EmptySeq DEF FabricType, CaptureInv
  <2>3. intime # None /\ cap.st # "fault" => Written = NumChunk
    BY <1>3, <2>1 DEF CaptureInv
  <2> QED BY <1>1, <1>2, <2>1, <2>2, <2>3 DEF CaptureInv
<1>6. CASE ReadChunk
  <2>1. /\ dpc = "read" /\ dpc' = dpc /\ early' = early /\ Len(copy) < SentChunk
        /\ copy' = Append(copy, ddr[Len(copy) + 1])
    BY <1>6 DEF ReadChunk
  <2>2. Len(copy) \in Nat /\ Len(copy) + 1 \in 1 .. SentChunk /\ copy \in Seq(Nat)
    BY <2>1, LenProperties DEF FabricType
  <2>3. ddr[Len(copy) + 1] \in Nat
    BY <2>2 DEF FabricType
  <2>4. /\ copy' \in Seq(Nat) /\ Len(copy') = Len(copy) + 1
        /\ \A i \in 1 .. Len(copy) : copy'[i] = copy[i]
        /\ copy'[Len(copy) + 1] = ddr[Len(copy) + 1]
    BY <2>1, <2>2, <2>3, AppendProperties
  <2>5. FabricType'
    BY <1>1, <2>1, <2>4 DEF FabricType
  <2>6. ASSUME intime # None, cap.st # "fault" \/ Stored, NEW i \in 1 .. Len(copy')
        PROVE  copy'[i] = intime
    <3>1. \A j \in 1 .. Len(copy) : copy[j] = intime
      BY <2>1, <2>6 DEF CaptureInv
    <3>2. Written = NumChunk /\ (OwnCapture \/ Stored)
      BY <2>1, <2>6 DEF CaptureInv, Stored, Written
    <3>3. ddr[Len(copy) + 1] = intime
      BY <2>2, <3>2, DoneIsStored
    <3>4. CASE i \in 1 .. Len(copy)
      BY <2>4, <3>1, <3>4
    <3>5. CASE i = Len(copy) + 1
      BY <2>4, <3>3, <3>5
    <3> QED BY <2>2, <2>4, <3>4, <3>5
  <2> QED BY <1>1, <1>2, <2>1, <2>5, <2>6 DEF CaptureInv
<1>7. CASE Push
  <2>1. dpc' = "refiforst" /\ dpc = "read" /\ copy' = <<>> /\ early' = early
    BY <1>7 DEF Push
  <2>2. FabricType'
    BY <1>1, <2>1, EmptySeq DEF FabricType
  <2> QED BY <1>1, <1>2, <2>1, <2>2 DEF CaptureInv
<1> QED BY <1>4, <1>5, <1>6, <1>7

\* Arming: nothing is left of the capture engine and its FIFO, and the DMA is
\* fresh if nothing has been left in the converter.
LEMMA Arming ==
  ASSUME FabricType, CaptureInv,
         Poll \/ Remember \/ FifoReset \/ DmaCoreReset \/ DmaLength
  PROVE  FabricType' /\ CaptureInv'
<1> USE ChunkNumbers
<1>1. CASE FifoReset
  <2>1. /\ cap' = NoCapture /\ fifo' = <<>> /\ intime' = None /\ fresh' = FALSE
        /\ dpc' \in {"dmarst", "redmarst"} /\ dpc # "read"
        /\ UNCHANGED <<caps, conv, dma, ddr, copy, early>>
    BY <1>1 DEF FifoReset, AfterArm
  <2>2. FabricType' /\ cap'.st = "idle"
    <3>1. 1 \in 1 .. NumChunk /\ 0 \in Nat
      OBVIOUS
    <3>2. /\ cap' \in [st : {"idle", "run", "drain", "fault"}, id : Nat, next : 1 .. NumChunk]
          /\ cap'.st = "idle"
      BY <2>1, <3>1 DEF NoCapture
    <3>3. fifo' \in Seq(Chunk)
      BY <2>1, EmptySeq
    <3> QED BY <2>1, <3>2, <3>3 DEF FabricType
  <2> QED BY <2>1, <2>2 DEF CaptureInv
<1>2. CASE DmaCoreReset
  <2>1. /\ dma' = DmaReset /\ dpc' \in {"length", "relength"}
        /\ dpc \in {"dmarst", "redmarst"}
        /\ UNCHANGED <<cap, fifo, conv, caps, fresh, intime, ddr, copy, early>>
    BY <1>2 DEF DmaCoreReset, AfterArm
  <2> QED BY <2>1 DEF FabricType, CaptureInv, DmaReset
<1>3. CASE DmaLength
  <2>1. /\ dma' = [st |-> "run", pos |-> 1] /\ dpc' \in {"wait", "poll"}
        /\ dpc \in {"length", "relength"} /\ fresh' = (cap.st = "idle" /\ conv = <<>>)
        /\ UNCHANGED <<cap, fifo, conv, caps, intime, ddr, copy, early>>
    BY <1>3 DEF DmaLength, AfterArm
  <2>2. intime = None
    BY <2>1 DEF CaptureInv
  <2>3. FabricType'
    BY <2>1 DEF FabricType
  <2> QED BY <2>1, <2>2, <2>3 DEF CaptureInv
<1>4. CASE Poll \/ Remember
  <2>1. /\ dpc \in {"poll", "changed"} /\ dpc' \in {"changed", "fiforst"}
        /\ UNCHANGED <<cap, fifo, conv, dma, caps, fresh, intime, ddr, copy, early>>
    BY <1>4 DEF Poll, Remember, plVars
  <2> QED BY <2>1 DEF FabricType, CaptureInv
<1> QED BY <1>1, <1>2, <1>3, <1>4

LEMMA CaptureStep == FabricType /\ CaptureInv /\ [Next]_vars => FabricType' /\ CaptureInv'
<1> SUFFICES ASSUME FabricType, CaptureInv, [Next]_vars PROVE FabricType' /\ CaptureInv'
  OBVIOUS
<1>1. CASE \/ UNCHANGED vars \/ TbtEdge \/ TriggerDone
           \/ \E c \in Client : SoftTrig(c)
  <2>1. UNCHANGED <<cap, fifo, conv, dma, caps, fresh, intime, ddr, copy, early, dpc>>
    BY <1>1 DEF vars, damVars, plVars, TbtEdge, TriggerDone, SoftTrig, Load, Store, Trigger
  <2> QED BY <2>1 DEF FabricType, CaptureInv, OwnCapture, Stored, Captured, Written
<1> QED BY <1>1, TakeChunk, MoveChunk, WriteChunk, BeginCapture, CutCapture, ReadOut, Arming
        DEF Next, Fabric, Daemon

\* What the daemon sends after a capture that began in time, with the width
\* converter empty, and that no rfadc_reset cut off, is that capture, complete and
\* in order, whatever the numbers of chunks and of FIFO places and whatever other
\* clients, triggers and resets do.
THEOREM InTimeCorrect == Spec => []InTimeCaptureIsSent
<1>1. CaptureInv /\ FabricType => InTimeCaptureIsSent
  <2> SUFFICES ASSUME CaptureInv, dpc = "read", Len(copy) = SentChunk, intime # None,
                      cap.st # "fault"
      PROVE  \A i \in 1 .. SentChunk : copy[i] = intime
    BY DEF InTimeCaptureIsSent
  <2> QED BY DEF CaptureInv
<1> QED BY <1>1, FabricInit, CaptureStep, PTL DEF Spec
=============================================================================
