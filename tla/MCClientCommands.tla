-------------------------- MODULE MCClientCommands --------------------------
(***************************************************************************)
(* Instances of ClientCommands for TLC: a few messages of every kind, with *)
(* lengths around the sizes of the two buffers.                            *)
(***************************************************************************)
EXTENDS ClientCommands

Msg(mid, len, a, v) ==
  [magic |-> TRUE, mid |-> mid, len |-> len, addr |-> a, val |-> v]

MCMessage ==
  { Msg(1, 2, SOFT_TRIG_MSG, 1), Msg(1, 2, SOFT_TRIG_MSG, 2),
    Msg(1, 3, EVENT_SRC_SEL_MSG, 1), Msg(1, 2, EVENT_SRC_SEL_MSG, 2),
    Msg(1, 4, EVENT_NO_MSG, 2), Msg(1, 8, FIFO_TRIG_DLY_MSG, 1),
    Msg(1, 5, DMA_TRIG_DLY_MSG, 2), Msg(1, 7, Other, 1),
    Msg(1, 0, Other, 0), Msg(1, 1, DMA_TRIG_DLY_MSG, 0),
    Msg(5, 0, Other, 0), Msg(5, 6, FIFO_TRIG_DLY_MSG, 2),
    [Msg(1, 2, EVENT_NO_MSG, 1) EXCEPT !.magic = FALSE] }
=============================================================================
