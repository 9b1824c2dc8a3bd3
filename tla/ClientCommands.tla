--------------------------- MODULE ClientCommands ---------------------------
(***************************************************************************)
(* From the byte stream of one client to the registers: psc_recvmsg of     *)
(* pscmsg.c with its receive and skip loops, the receive loop of           *)
(* handle_client, client_msg (main.c) and reg_settings (control.c).        *)
(*                                                                         *)
(* The unit of the stream is a word of four bytes: a header is two words,  *)
(* magic with identifier and then length.  A call of recv() returns any    *)
(* number of words up to what was asked for, and fails when it has waited  *)
(* too long or the client has closed.  Of the words of a body reg_settings *)
(* reads the first two, address and value; the buffer they are in is       *)
(* zeroed for a new client and keeps what earlier messages left.           *)
(***************************************************************************)
EXTENDS Naturals, Sequences, FiniteSets

CONSTANTS RxMax,     \* words of rxbuf
          SkipBuf,   \* words of the buffer psc_recvskip reads into (128 bytes)
          Message,   \* the messages a client may send
          MaxMsgs    \* bound: messages in a behaviour

\* Addresses of psc_msg.h; Other stands for every address that is not listed.
SOFT_TRIG_MSG == 0
EVENT_SRC_SEL_MSG == 4
EVENT_NO_MSG == 8
FIFO_TRIG_DLY_MSG == 12
DMA_TRIG_DLY_MSG == 16
Other == 20
Address == {SOFT_TRIG_MSG, EVENT_SRC_SEL_MSG, EVENT_NO_MSG,
            FIFO_TRIG_DLY_MSG, DMA_TRIG_DLY_MSG, Other}
Register == {EVENT_SRC_SEL_MSG, EVENT_NO_MSG, FIFO_TRIG_DLY_MSG, DMA_TRIG_DLY_MSG}

ASSUME CommandsAssumption ==
  /\ RxMax \in Nat /\ RxMax >= 2
  /\ SkipBuf \in Nat \ {0}
  /\ MaxMsgs \in Nat
  /\ Message \subseteq [magic : BOOLEAN, mid : Nat, len : Nat,
                        addr : Address, val : Nat]

VARIABLES
  log,      \* the messages the client has sent
  wire,     \* words that were sent and not received
  hpc,      \* handler: where in psc_recvmsg, or "apply", "ended", "lost"
  need,     \* psc_recvall: words it still has to receive
  hdr,      \* words of the header received so far
  left,     \* psc_recvskip: len
  rxbuf,    \* psc_client.rxbuf
  regs,     \* the four registers reg_settings writes
  trigs,    \* soft triggers
  handled,  \* history: messages given to client_msg
  stalled   \* history: a receive failed inside the loop of psc_recvskip

rxVars == <<hpc, need, hdr, left, rxbuf>>
vars == <<log, wire, rxVars, regs, trigs, handled, stalled>>

Init ==
  /\ log = <<>> /\ wire = <<>>
  /\ hpc = "head" /\ need = 2 /\ hdr = <<>> /\ left = 0
  /\ rxbuf = [i \in 1 .. RxMax |-> 0]
  /\ regs = [r \in Register |-> 0]
  /\ trigs = 0
  /\ handled = 0 /\ stalled = FALSE
-----------------------------------------------------------------------------
\* The client.  The header of a message is at 1 and 2, its body from 3 on.
Words(n, len) == [j \in 1 .. len + 2 |-> [msg |-> n, at |-> j]]

Send(m) ==
  /\ Len(log) < MaxMsgs
  /\ log' = Append(log, m)
  /\ wire' = wire \o Words(Len(log) + 1, m.len)
  /\ UNCHANGED <<rxVars, regs, trigs, handled, stalled>>

Content(w) == CASE w.at = 3 -> log[w.msg].addr
                [] w.at = 4 -> log[w.msg].val
                [] OTHER -> 0
-----------------------------------------------------------------------------
\* psc_recvall: one call of recv() after the other until need is 0.
Recv(k) ==
  /\ k \in 1 .. Len(wire)
  /\ k <= need
  /\ wire' = SubSeq(wire, k + 1, Len(wire))
  /\ need' = need - k
  /\ UNCHANGED <<log, regs, trigs, handled, stalled>>

RecvHead ==
  /\ hpc = "head"
  /\ \E k \in 1 .. 2 : Recv(k) /\ hdr' = hdr \o SubSeq(wire, 1, k)
  /\ UNCHANGED <<hpc, left, rxbuf>>

\* The message a complete header announces; what is not a header has no magic.
IsHeader == hdr[1].at = 1 /\ log[hdr[1].msg].magic
Announced == log[hdr[1].msg]

Rlen == IF Announced.len > RxMax THEN RxMax ELSE Announced.len

\* psc_recvhead is done: a wrong magic is an error and ends the handler.
HeadDone ==
  /\ hpc = "head" /\ need = 0
  /\ IF IsHeader
     THEN hpc' = "body" /\ need' = Rlen
     ELSE hpc' = "ended" /\ UNCHANGED need
  /\ UNCHANGED <<log, wire, hdr, left, rxbuf, regs, trigs, handled, stalled>>

RecvBody ==
  /\ hpc = "body"
  /\ \E k \in 1 .. RxMax :
       /\ Recv(k)
       /\ LET got == Rlen - need IN
            rxbuf' = [i \in 1 .. RxMax |-> IF i \in got + 1 .. got + k
                                           THEN Content(wire[i - got]) ELSE rxbuf[i]]
  /\ UNCHANGED <<hpc, hdr, left>>

\* Mutant of SkipOn: what is skipped last does not fit into the buffer.
SkipOnLong(n) ==
  /\ left' = n
  /\ IF n > 2 * SkipBuf
     THEN hpc' = "chunk" /\ need' = SkipBuf
     ELSE hpc' = "rest" /\ need' = n

\* psc_recvskip: pieces of the size of its buffer, and then the rest.
SkipOn(n) ==
  /\ left' = n
  /\ IF n > SkipBuf
     THEN hpc' = "chunk" /\ need' = SkipBuf
     ELSE hpc' = "rest" /\ need' = n

\* Mutant of BodyDone: as many words are skipped as the message has.
BodyDoneSkipsAll ==
  /\ hpc = "body" /\ need = 0
  /\ IF Rlen < Announced.len
     THEN SkipOn(Announced.len)
     ELSE hpc' = "apply" /\ UNCHANGED <<left, need>>
  /\ UNCHANGED <<log, wire, hdr, rxbuf, regs, trigs, handled, stalled>>

BodyDone ==
  /\ hpc = "body" /\ need = 0
  /\ IF Rlen < Announced.len
     THEN SkipOn(Announced.len - Rlen)
     ELSE hpc' = "apply" /\ UNCHANGED <<left, need>>
  /\ UNCHANGED <<log, wire, hdr, rxbuf, regs, trigs, handled, stalled>>

RecvChunk ==
  /\ hpc = "chunk"
  /\ \E k \in 1 .. SkipBuf : Recv(k)
  /\ UNCHANGED <<hpc, hdr, left, rxbuf>>

ChunkDone ==
  /\ hpc = "chunk" /\ need = 0
  /\ SkipOn(left - SkipBuf)
  /\ UNCHANGED <<log, wire, hdr, rxbuf, regs, trigs, handled, stalled>>

\* A failure ends the loop but not the function: it goes on to receive all of
\* len, of which a part may have been received already.
ChunkFails ==
  /\ hpc = "chunk" /\ need > 0
  /\ hpc' = "rest" /\ need' = left
  /\ stalled' = TRUE
  /\ UNCHANGED <<log, wire, hdr, left, rxbuf, regs, trigs, handled>>

\* What is received beyond the end of the buffer destroys the thread's stack:
\* nothing is said about the handler from there on.
RecvRest ==
  /\ hpc = "rest"
  /\ \E k \in 1 .. left :
       /\ Recv(k)
       /\ hpc' = IF left - need + k > SkipBuf THEN "lost" ELSE "rest"
  /\ UNCHANGED <<hdr, left, rxbuf>>

RestDone ==
  /\ hpc = "rest" /\ need = 0
  /\ hpc' = "apply"
  /\ UNCHANGED <<log, wire, need, hdr, left, rxbuf, regs, trigs, handled, stalled>>

\* Mutant of RecvFails: the handler goes back to waiting for a header.
RecvFailsWaits ==
  /\ hpc \in {"head", "body", "rest"} /\ need > 0
  /\ hpc' = "head" /\ need' = 2 /\ hdr' = <<>>
  /\ UNCHANGED <<log, wire, left, rxbuf, regs, trigs, handled, stalled>>

\* Elsewhere an error of recv() ends the handler.
RecvFails ==
  /\ hpc \in {"head", "body", "rest"} /\ need > 0
  /\ hpc' = "ended"
  /\ UNCHANGED <<log, wire, need, hdr, left, rxbuf, regs, trigs, handled, stalled>>
-----------------------------------------------------------------------------
\* reg_settings(msg) with the first two words of the buffer, whatever the
\* length of the message was.
addr == rxbuf[1]
data == rxbuf[2]

set_trigsrc == IF data \in {0, 1}
               THEN regs' = [regs EXCEPT ![EVENT_SRC_SEL_MSG] = data]
               ELSE UNCHANGED regs

\* Mutant of reg_settings: a case that ends without break.
reg_settings_falls_through ==
  /\ CASE addr = EVENT_SRC_SEL_MSG -> set_trigsrc
       [] addr = FIFO_TRIG_DLY_MSG ->
            regs' = [regs EXCEPT ![addr] = data, ![DMA_TRIG_DLY_MSG] = data]
       [] addr \in Register \ {EVENT_SRC_SEL_MSG, FIFO_TRIG_DLY_MSG} ->
            regs' = [regs EXCEPT ![addr] = data]
       [] OTHER -> UNCHANGED regs
  /\ trigs' = IF addr = SOFT_TRIG_MSG /\ data = 1 THEN trigs + 1 ELSE trigs

reg_settings ==
  /\ CASE addr = EVENT_SRC_SEL_MSG -> set_trigsrc
       [] addr \in Register \ {EVENT_SRC_SEL_MSG} ->
            regs' = [regs EXCEPT ![addr] = data]
       [] OTHER -> UNCHANGED regs
  /\ trigs' = IF addr = SOFT_TRIG_MSG /\ data = 1 THEN trigs + 1 ELSE trigs

\* client_msg, and back to psc_recvmsg.
Apply ==
  /\ hpc = "apply"
  /\ IF Announced.mid = 1 THEN reg_settings ELSE UNCHANGED <<regs, trigs>>
  /\ hpc' = "head" /\ need' = 2 /\ hdr' = <<>>
  /\ handled' = handled + 1
  /\ UNCHANGED <<log, wire, left, rxbuf, stalled>>
-----------------------------------------------------------------------------
Handler == RecvHead \/ HeadDone \/ RecvBody \/ BodyDone
           \/ RecvChunk \/ ChunkDone \/ RecvRest \/ RestDone \/ Apply

Next == (\E m \in Message : Send(m)) \/ Handler \/ ChunkFails \/ RecvFails

Spec == Init /\ [][Next]_vars

\* The handler is scheduled; failures and further messages need not come.
FairSpec == Spec /\ WF_vars(Handler)
-----------------------------------------------------------------------------
\* However the stream is cut into pieces, and whatever is truncated and skipped
\* of long messages, the words taken for a header are the header of the message
\* after the one that was handled last: no message is lost, repeated or invented.
FramingKept ==
  (hpc = "head" /\ need = 0 /\ ~stalled) =>
    \A j \in 1 .. 2 : hdr[j] = [msg |-> handled + 1, at |-> j]

\* psc_recvskip stays inside its buffer unless a receive fails in its loop.
SkipStaysInBuffer == hpc = "lost" => stalled

\* The settings a client has sent, up to the message handled last.
Setting(n) == n <= handled /\ log[n].mid = 1
Accepted(n, r) == /\ Setting(n) /\ log[n].addr = r
                  /\ r = EVENT_SRC_SEL_MSG => log[n].val \in {0, 1}
Commanded(r) == LET s == {n \in 1 .. Len(log) : Accepted(n, r)} IN
                  IF s = {} THEN 0
                  ELSE log[CHOOSE n \in s : \A k \in s : k <= n].val

\* The registers hold what the client commanded last, each its own, and there
\* were as many soft triggers as the client asked for: neither pings, unknown
\* addresses, truncation nor fragments of the stream make a difference.
\* (A settings message of less than two words has to be excluded: it is
\* completed with what an earlier message left in the buffer.)
RegistersAsCommanded ==
  (~stalled /\ \A n \in 1 .. Len(log) : Setting(n) => log[n].len >= 2) =>
    /\ \A r \in Register : regs[r] = Commanded(r)
    /\ trigs = Cardinality({n \in 1 .. Len(log) :
                 Setting(n) /\ log[n].addr = SOFT_TRIG_MSG /\ log[n].val = 1})

\* Every message is handled in the end unless a receive has failed: no length,
\* zero and multiples of the buffers included, makes a loop wait for words that
\* do not come.
EveryMessageHandled ==
  \A n \in 1 .. MaxMsgs :
    (Len(log) >= n) ~> (handled >= n \/ hpc = "ended" \/ stalled)
=============================================================================
