----------------------------- MODULE BufferFifo -----------------------------
(***************************************************************************)
(* What a queueing pad of the ViPlugs engine promises to the elements on   *)
(* its two sides, with no thread, lock or condition variable in sight:     *)
(* buffers leave the pad in the order in which they entered it, each at    *)
(* most once, and, as long as the pad is open, each of them does leave it. *)
(* A buffer leaves by being handed downstream, or, while nothing is linked *)
(* downstream, by being thrown away.                                       *)
(***************************************************************************)
EXTENDS Sequences

CONSTANT Bufs

VARIABLES fifo,       \* the buffers inside the pad, oldest first
          delivered,  \* the buffers handed downstream, in order
          open,       \* FALSE once the pad has been destroyed
          linked      \* TRUE once a downstream has been set

fvars == <<fifo, delivered, open, linked>>

FInit == /\ fifo = <<>>
         /\ delivered = <<>>
         /\ open = TRUE
         /\ linked = FALSE

Put(b) == /\ open
          /\ fifo' = Append(fifo, b)
          /\ UNCHANGED <<delivered, open, linked>>

Deliver == /\ open
           /\ linked
           /\ fifo # <<>>
           /\ delivered' = Append(delivered, Head(fifo))
           /\ fifo' = Tail(fifo)
           /\ UNCHANGED <<open, linked>>

Discard == /\ open
           /\ ~linked
           /\ fifo # <<>>
           /\ fifo' = Tail(fifo)
           /\ UNCHANGED <<delivered, open, linked>>

Link == /\ open
        /\ ~linked
        /\ linked' = TRUE
        /\ UNCHANGED <<fifo, delivered, open>>

\* What is still inside when the pad is destroyed stays undelivered.
Close == /\ open
         /\ open' = FALSE
         /\ UNCHANGED <<fifo, delivered, linked>>

FNext == \/ \E b \in Bufs : Put(b)
         \/ Deliver
         \/ Discard
         \/ Link
         \/ Close

FSpec == FInit /\ [][FNext]_fvars /\ WF_fvars(Deliver \/ Discard)
=============================================================================
