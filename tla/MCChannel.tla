------------------------------ MODULE MCChannel ------------------------------
(***************************************************************************)
(* Two senders and two receivers on a channel of two cells, whose counters *)
(* wrap around at 4.                                                       *)
(***************************************************************************)
EXTENDS Channel

CONSTANTS s1, s2, r1, r2, x, y

MCSenders == {s1, s2}
MCReceivers == {r1, r2}
MCChars == {x, y}
=============================================================================
