------------------------------- MODULE Channel -------------------------------
(***************************************************************************)
(* One channel of the full-duplex shared memory IPC                        *)
(* (sharememory_POSIX/2_full_duplex/ipc.c): a ring buffer in memory that   *)
(* several processes map, two counting semaphores and a binary one.        *)
(*                                                                         *)
(* channel_send() and channel_recv() are modelled for any set of senders   *)
(* and of receivers; one action is one semaphore operation, or the         *)
(* critical section between the two operations on the mutex.  w and r are  *)
(* uint32_t and wrap around at Width.                                      *)
(***************************************************************************)
EXTENDS Naturals, FiniteSets

CONSTANTS Senders, Receivers,  \* the processes
          Chars,               \* what they send
          BufSize,             \* BUF_SIZE
          Width                \* 2^32: the number of values of w and of r

\* BUF_SIZE is 256, which divides 2^32.
ASSUME BufSizeAssumption == BufSize \in Nat \ {0}
ASSUME WidthAssumption == /\ Width \in Nat
                          /\ Width > BufSize
                          /\ Width % BufSize = 0
ASSUME ProcsAssumption == /\ IsFiniteSet(Senders) /\ IsFiniteSet(Receivers)
                          /\ Senders \cap Receivers = {}

VARIABLES ch,  \* the channel_t in shared memory
          op   \* where each process is in its call, and its local c

vars == <<ch, op>>

Procs == Senders \cup Receivers

TypeOK ==
  /\ ch \in [w : 0..Width - 1, r : 0..Width - 1, buf : [0..BufSize - 1 -> Chars],
             empty : Nat, full : Nat, mutex : Nat]
  /\ op \in [Procs -> [at : {"idle", "lock", "critical", "unlock", "post"}, c : Chars]]

\* channel_init(); the bytes of buf are whatever the memory holds.
Fresh(buf) == [w |-> 0, r |-> 0, buf |-> buf, empty |-> BufSize, full |-> 0, mutex |-> 1]

Init == /\ \E buf \in [0..BufSize - 1 -> Chars] : ch = Fresh(buf)
        /\ op \in [Procs -> [at : {"idle"}, c : Chars]]

Goto(p, at) == op' = [op EXCEPT ![p].at = at]

-----------------------------------------------------------------------------
(* channel_send() *)

SendWaitEmpty(p, c) == /\ op[p].at = "idle"
                       /\ ch.empty > 0
                       /\ ch' = [ch EXCEPT !.empty = @ - 1]
                       /\ op' = [op EXCEPT ![p] = [at |-> "lock", c |-> c]]

\* sem_wait(&ch->mutex), in both functions.
WaitMutex(p) == /\ op[p].at = "lock"
                /\ ch.mutex > 0
                /\ ch' = [ch EXCEPT !.mutex = @ - 1]
                /\ Goto(p, "critical")

\* Mutant: w is incremented before the character is written.
SendPut_WFirst(p) == /\ op[p].at = "critical"
                     /\ ch' = [ch EXCEPT !.buf[(ch.w + 1) % BufSize] = op[p].c,
                                         !.w = (@ + 1) % Width]
                     /\ Goto(p, "unlock")

SendPut(p) == /\ op[p].at = "critical"
              /\ ch' = [ch EXCEPT !.buf[ch.w % BufSize] = op[p].c,
                                  !.w = (@ + 1) % Width]
              /\ Goto(p, "unlock")

\* sem_post(&ch->mutex), in both functions.
PostMutex(p) == /\ op[p].at = "unlock"
                /\ ch' = [ch EXCEPT !.mutex = @ + 1]
                /\ Goto(p, "post")

\* Mutant: channel_send() posts the semaphore it waited on.
SendPostFull_Empty(p) == /\ op[p].at = "post"
                         /\ ch' = [ch EXCEPT !.empty = @ + 1]
                         /\ Goto(p, "idle")

SendPostFull(p) == /\ op[p].at = "post"
                   /\ ch' = [ch EXCEPT !.full = @ + 1]
                   /\ Goto(p, "idle")

SendStep(p) == WaitMutex(p) \/ SendPut(p) \/ PostMutex(p) \/ SendPostFull(p)

-----------------------------------------------------------------------------
(* channel_recv() *)

RecvWaitFull(p) == /\ op[p].at = "idle"
                   /\ ch.full > 0
                   /\ ch' = [ch EXCEPT !.full = @ - 1]
                   /\ Goto(p, "lock")

RecvTake(p) == /\ op[p].at = "critical"
               /\ op' = [op EXCEPT ![p] = [at |-> "unlock", c |-> ch.buf[ch.r % BufSize]]]
               /\ ch' = [ch EXCEPT !.r = (@ + 1) % Width]

\* Mutant: The cell that was read is not given back.
RecvPostEmpty_Never(p) == /\ op[p].at = "post"
                          /\ Goto(p, "idle")
                          /\ UNCHANGED ch

RecvPostEmpty(p) == /\ op[p].at = "post"
                    /\ ch' = [ch EXCEPT !.empty = @ + 1]
                    /\ Goto(p, "idle")

RecvStep(p) == WaitMutex(p) \/ RecvTake(p) \/ PostMutex(p) \/ RecvPostEmpty(p)

-----------------------------------------------------------------------------
Next == \/ \E p \in Senders : (\E c \in Chars : SendWaitEmpty(p, c)) \/ SendStep(p)
        \/ \E p \in Receivers : RecvWaitFull(p) \/ RecvStep(p)

Spec == Init /\ [][Next]_vars

-----------------------------------------------------------------------------
(* Properties *)

\* At most one process is between its sem_wait and its sem_post on the mutex,
\* and the mutex says so.
InCritical == {p \in Procs : op[p].at \in {"critical", "unlock"}}
MutexIsBinary == ch.mutex + Cardinality(InCritical) = 1

\* Every cell of the buffer is accounted for: it is free, it is full, or one
\* process between its two counting semaphores has it.
InCall == {p \in Procs : op[p].at # "idle"}
CellsAccountedFor == ch.empty + ch.full + Cardinality(InCall) = BufSize

\* The number of characters in the buffer, across a wrap-around of w.
Count == (ch.w + Width - ch.r) % Width

\* The senders that have written a character and not posted it, and the receivers
\* that have waited for one and not taken it.
Written == {p \in Senders : op[p].at \in {"unlock", "post"}}
Claimed == {p \in Receivers : op[p].at \in {"lock", "critical"}}

\* The semaphores keep w from overtaking r by more than the buffer, and r from
\* overtaking w: Count is what full says, plus the characters written and not
\* posted, plus the characters claimed and not taken.
CountMatchesSemaphores == Count = ch.full + Cardinality(Written) + Cardinality(Claimed)

\* The characters between r and w, oldest first.
Contents == [i \in 1..Count |-> ch.buf[(ch.r + i - 1) % BufSize]]

Abstract == INSTANCE BoundedFifo
              WITH Capacity <- BufSize,
                   queue <- Contents,
                   got <- [p \in Receivers |-> op[p].c]

\* channel_send() and channel_recv() are atomic operations of a queue of at
\* most BufSize characters, whatever their semaphore steps interleave with and
\* also where w and r wrap around: a character is queued by SendPut and taken by
\* RecvTake, in the same order.
ImplementsBoundedFifo == Abstract!BSpec
=============================================================================
