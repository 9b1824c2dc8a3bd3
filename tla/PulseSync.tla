----------------------------- MODULE PulseSync ------------------------------
(***************************************************************************)
(* sync_pulse_ack_cc.vhd: a pulse of the clock src_clk is passed to the    *)
(* clock rcv_clk by a request that stays up until it is acknowledged.      *)
(* Request and acknowledge each cross through sync_single_bit_cc.vhd, two  *)
(* registers.  A pulse that comes while the handshake is under way is not  *)
(* refused: it merges with the one before it, or is lost.                  *)
(*                                                                         *)
(* The state is one record, so that a module can have several; an edge of  *)
(* a clock is an operator on it.  Which clock ticks next is not said here, *)
(* and a synchroniser that resolves late is one that was clocked early.    *)
(***************************************************************************)
EXTENDS Naturals

\* s_req, r_req_d; the two registers of each inst_*_sync, the later of which
\* is r_req and s_ack.  History: due, a pulse was accepted and has not arrived;
\* crowded, one came during a handshake, or a reset did, since the last time
\* the two sides were at rest.
Link == [s_req : BOOLEAN, req_p : BOOLEAN, r_req : BOOLEAN, r_req_d : BOOLEAN,
         ack_p : BOOLEAN, s_ack : BOOLEAN, due : BOOLEAN, crowded : BOOLEAN]

Rest == [s_req |-> FALSE, req_p |-> FALSE, r_req |-> FALSE, r_req_d |-> FALSE,
         ack_p |-> FALSE, s_ack |-> FALSE, due |-> FALSE, crowded |-> FALSE]

src_busy(l) == l.s_req \/ l.s_ack
rcv_pulse(l) == l.r_req /\ ~l.r_req_d

AtRest(l) == ~(src_busy(l) \/ l.req_p \/ l.r_req \/ l.r_req_d \/ l.ack_p)

\* Mutants of SrcEdge: the request is up for one clock, as in a plain
\* synchroniser; the acknowledge does not take it back.
SrcEdgePlain(l, src_pulse, src_reset) ==
  [l EXCEPT !.s_req = ~src_reset /\ src_pulse,
            !.ack_p = l.r_req, !.s_ack = l.ack_p,
            !.due = l.due \/ (src_pulse /\ ~src_reset)]

SrcEdgeHeld(l, src_pulse, src_reset) ==
  [l EXCEPT !.s_req = ~src_reset /\ (src_pulse \/ l.s_req),
            !.ack_p = l.r_req, !.s_ack = l.ack_p]

\* An edge of src_clk.
SrcEdge(l, src_pulse, src_reset) ==
  [s_req |-> ~src_reset /\ (src_pulse \/ (l.s_req /\ ~l.s_ack)),
   req_p |-> l.req_p, r_req |-> l.r_req, r_req_d |-> l.r_req_d,
   ack_p |-> l.r_req, s_ack |-> l.ack_p,
   due |-> \/ l.due /\ ~(l.crowded /\ AtRest(l))
           \/ src_pulse /\ ~src_reset /\ ~src_busy(l),
   crowded |-> \/ ~AtRest(l) /\ (l.crowded \/ src_reset)
               \/ src_pulse /\ src_busy(l)]

\* An edge of rcv_clk, at which the receiver also acts on rcv_pulse.
RcvEdge(l) ==
  [s_req |-> l.s_req, req_p |-> l.s_req, r_req |-> l.req_p, r_req_d |-> l.r_req,
   ack_p |-> l.ack_p, s_ack |-> l.s_ack,
   due |-> l.due /\ ~rcv_pulse(l), crowded |-> l.crowded]
-----------------------------------------------------------------------------
(***************************************************************************)
(* A link alone, with pulses and resets at any time.                       *)
(***************************************************************************)
VARIABLE link

LinkInit == link = Rest

LinkNext ==
  \/ \E pulse, reset \in BOOLEAN : link' = SrcEdge(link, pulse, reset)
  \/ link' = RcvEdge(link)

LinkSpec == LinkInit /\ [][LinkNext]_link
-----------------------------------------------------------------------------
\* While nobody sends into a handshake, every pulse arrives exactly once: the
\* receiver sees none that was not sent, and the sender does not become ready
\* for another one before the last has arrived.
Once(l) ==
  ~l.crowded => /\ rcv_pulse(l) => l.due
                /\ ~src_busy(l) => ~l.due

OncePerPulse == Once(link)
=============================================================================
