----------------------------- MODULE BoundedFifo -----------------------------
(***************************************************************************)
(* What a channel in shared memory promises to its processes: a queue of   *)
(* bounded length whose two operations are atomic.                         *)
(***************************************************************************)
EXTENDS Naturals, Sequences

CONSTANTS Receivers, Chars, Capacity

VARIABLES queue,  \* the characters sent and not yet received, oldest first
          got     \* the last character each receiver has received

bvars == <<queue, got>>

BInit == /\ queue = <<>>
         /\ got \in [Receivers -> Chars]

BSend(c) == /\ Len(queue) < Capacity
            /\ queue' = Append(queue, c)
            /\ UNCHANGED got

BRecv(p) == /\ queue # <<>>
            /\ queue' = Tail(queue)
            /\ got' = [got EXCEPT ![p] = Head(queue)]

BNext == \/ \E c \in Chars : BSend(c)
         \/ \E p \in Receivers : BRecv(p)

BSpec == BInit /\ [][BNext]_bvars
=============================================================================
