----------------------------- MODULE TimeOfDay ------------------------------
(***************************************************************************)
(* timeofDayReceiver.v: the seconds arrive as a serial stream of 0 events  *)
(* (0x70) and 1 events (0x71), most significant bit first, and are latched *)
(* by event 0x7d, which also clears the offset that counts clocks.         *)
(*                                                                         *)
(* One step is one edge of evr_rcvd_clk.                                   *)
(***************************************************************************)
EXTENDS Naturals, Sequences

CONSTANTS NumBits,  \* 32, bits of the seconds
          OffWord,  \* 2^32: the offset wraps around
          NoFrame

ASSUME TimeAssumption ==
  /\ NumBits \in Nat \ {0}
  /\ OffWord \in Nat \ {0, 1}

Bit == {0, 1}
Index == 0 .. NumBits - 1

VARIABLES
  Position, Seconds, secondsReg, Offset, clear, clear_reg, TimeStamp,
  framed,  \* history: only proper bit events since a latch event
  bits,    \* history: the bits received since then
  gap,     \* history: clocks since the last latch event, up to 2
  told     \* history: the whole frame latched last, or NoFrame

todVars == <<Position, Seconds, secondsReg, Offset, clear, clear_reg, TimeStamp,
             framed, bits, gap, told>>

Zero == [i \in Index |-> 0]

\* After reset.  Position, secondsReg, Offset and the two clear bits have none
\* and are as they were.
TodInit ==
  /\ Position \in Index
  /\ Seconds = Zero
  /\ secondsReg \in [Index -> Bit]
  /\ Offset \in 0 .. OffWord - 1
  /\ clear \in BOOLEAN /\ clear_reg \in BOOLEAN
  /\ TimeStamp = [s |-> Zero, ns |-> 0]
  /\ framed = FALSE /\ bits = <<>> /\ gap = 0 /\ told = NoFrame

IsBit(e) == e \in {"zero", "one"}
BitOf(e) == IF e = "one" THEN 1 ELSE 0

\* Mutant of MovePosition: the pointer stays where it is at the latch event.
MovePositionNoLatch(e) ==
  Position' = IF IsBit(e) THEN (Position + NumBits - 1) % NumBits ELSE Position

MovePosition(e) ==
  Position' = IF e = "latch" THEN NumBits - 1
              ELSE IF IsBit(e) THEN (Position + NumBits - 1) % NumBits
              ELSE Position

\* The bits of the last frame are cleared two clocks after the latch event.
TakeSeconds(e, rst) ==
  Seconds' = IF rst \/ clear_reg THEN Zero
             ELSE IF IsBit(e) THEN [Seconds EXCEPT ![Position] = BitOf(e)]
             ELSE Seconds

Latch(e) == secondsReg' = IF e = "latch" THEN Seconds ELSE secondsReg

CountOffset(e) == Offset' = IF e = "latch" THEN 0 ELSE (Offset + 1) % OffWord

Clear(e) == clear' = (e = "latch") /\ clear_reg' = clear

\* Mutant of Stamp: the stamp is taken past the latch.
StampUnlatched(rst) ==
  TimeStamp' = IF rst THEN [s |-> Zero, ns |-> 0]
               ELSE [s |-> Seconds, ns |-> Offset]

Stamp(rst) ==
  TimeStamp' = IF rst THEN [s |-> Zero, ns |-> 0]
               ELSE [s |-> secondsReg, ns |-> Offset]
-----------------------------------------------------------------------------
\* A proper frame: NumBits bits after a latch event, none of them in the two
\* clocks that follow it.
TodObserve(e, rst) ==
  /\ gap' = IF e = "latch" THEN 0 ELSE IF gap < 2 THEN gap + 1 ELSE gap
  /\ framed' = (/\ ~rst
                /\ \/ e = "latch"
                   \/ framed /\ (IsBit(e) => gap = 2 /\ Len(bits) < NumBits))
  /\ bits' = IF ~framed' \/ e = "latch" THEN <<>>
             ELSE IF IsBit(e) THEN Append(bits, BitOf(e)) ELSE bits
  /\ told' = IF rst THEN NoFrame
             ELSE IF e # "latch" THEN told
             ELSE IF framed /\ Len(bits) = NumBits THEN bits ELSE NoFrame

\* One clock with event e on the stream.
TodClock(e, rst) ==
  /\ MovePosition(e) /\ TakeSeconds(e, rst) /\ Latch(e) /\ CountOffset(e)
  /\ Clear(e) /\ Stamp(rst)
  /\ TodObserve(e, rst)
=============================================================================
