----------------------------- MODULE MCQueuePad -----------------------------
(* The instance of QueuePad that TLC explores. *)
EXTENDS QueuePad, TLC

CONSTANTS p1, p2, b1, b2, b3

MCProducers == {p1, p2}
MCBufs == {b1, b2, b3}
=============================================================================
