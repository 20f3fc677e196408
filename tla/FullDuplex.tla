----------------------------- MODULE FullDuplex ------------------------------
(***************************************************************************)
(* The two processes of the full-duplex shared memory IPC                  *)
(* (sharememory_POSIX/2_full_duplex: process_a.c, process_b.c) on their    *)
(* two channels.                                                           *)
(*                                                                         *)
(* A initialises both channels, then sends the letters 'a' to 'z' one at a *)
(* time and waits for the reply to each; B replies with the letter in      *)
(* upper case and ends after 'z'.  build_and_run.sh starts B five seconds  *)
(* after A: B starts on initialised channels.  A user may interrupt A and  *)
(* start it again, at most MaxStarts times in all; the shared memory       *)
(* object keeps its contents in between.                                   *)
(***************************************************************************)
EXTENDS Integers

CONSTANTS A, B,         \* the two processes
          First, Last,  \* the codes of 'a' and 'z'
          BufSize,      \* BUF_SIZE
          Width,        \* 2^32
          MaxStarts     \* bound: how often A is started

ASSUME LettersAssumption == /\ First \in Nat /\ Last \in Nat
                            /\ 33 <= First /\ First <= Last
ASSUME SizesAssumption == BufSize \in Nat \ {0} /\ Width \in Nat \ {0}
ASSUME ProcessesAssumption == A # B

VARIABLES a2b, a2bOp,    \* the channel from A to B, and the calls on it
          b2a, b2aOp,    \* the channel from B to A, and the calls on it
          aAt, aChar, aReply,  \* process A: where it is, its c and its reply
          bAt, bChar,    \* process B: where it is, its c
          starts,        \* how often A has been started
          ready,         \* channel_init() has been called on both channels
          disturbed      \* history: and it was called again after B had started

avars == <<aAt, aChar, aReply, starts, ready, disturbed>>
bvars == <<bAt, bChar>>
vars == <<a2b, a2bOp, b2a, b2aOp, avars, bvars>>

\* reply = c - 32; a new shared memory object holds zero bytes.
Upper(c) == c - 32
Letters == {0} \cup (First..Last)
Chars == Letters \cup {Upper(c) : c \in Letters}

A2B == INSTANCE Channel
         WITH Senders <- {A}, Receivers <- {B}, ch <- a2b, op <- a2bOp
B2A == INSTANCE Channel
         WITH Senders <- {B}, Receivers <- {A}, ch <- b2a, op <- b2aOp

\* A new shared memory object is filled with zeros, its semaphores too.
Zeroed == [w |-> 0, r |-> 0, buf |-> [i \in 0..BufSize - 1 |-> 0],
           empty |-> 0, full |-> 0, mutex |-> 0]
NoCall == [at |-> "idle", c |-> 0]

Init == /\ a2b = Zeroed /\ a2bOp = [p \in {A, B} |-> NoCall]
        /\ b2a = Zeroed /\ b2aOp = [p \in {A, B} |-> NoCall]
        /\ aAt = "init a2b" /\ aChar = First /\ aReply = 0 /\ starts = 1
        /\ bAt = "not started" /\ bChar = 0
        /\ ready = FALSE /\ disturbed = FALSE

-----------------------------------------------------------------------------
(* Process A *)

\* sem_init() of a semaphore that B is waiting on is undefined: glibc forgets the
\* waiter, and B may stay asleep whatever is posted later.
ForgetB(waiting) == /\ bAt' \in IF waiting THEN {bAt, "stuck"} ELSE {bAt}
                    /\ UNCHANGED bChar
                    /\ disturbed' = (disturbed \/ bAt # "not started")

InitA2B == /\ aAt = "init a2b"
           /\ a2b' = A2B!Fresh(a2b.buf)
           /\ ForgetB(bAt = "receive" /\ \/ a2bOp[B].at = "idle" /\ a2b.full = 0
                                         \/ a2bOp[B].at = "lock" /\ a2b.mutex = 0)
           /\ aAt' = "init b2a"
           /\ UNCHANGED <<a2bOp, b2a, b2aOp, aChar, aReply, starts, ready>>

InitB2A == /\ aAt = "init b2a"
           /\ b2a' = B2A!Fresh(b2a.buf)
           /\ ForgetB(bAt = "send" /\ \/ b2aOp[B].at = "idle" /\ b2a.empty = 0
                                      \/ b2aOp[B].at = "lock" /\ b2a.mutex = 0)
           /\ aAt' = "send"
           /\ ready' = TRUE
           /\ UNCHANGED <<a2b, a2bOp, b2aOp, aChar, aReply, starts>>

\* One step of channel_send(&shm->a2b, c); the call returns with its last.
SendLetter == /\ aAt = "send"
              /\ A2B!SendWaitEmpty(A, aChar) \/ A2B!SendStep(A)
              /\ aAt' = IF a2bOp'[A].at = "idle" THEN "receive" ELSE "send"
              /\ UNCHANGED <<b2a, b2aOp, aChar, aReply, starts, ready, disturbed, bvars>>

\* One step of reply = channel_recv(&shm->b2a).
ReceiveReply == /\ aAt = "receive"
                /\ B2A!RecvWaitFull(A) \/ B2A!RecvStep(A)
                /\ IF b2aOp'[A].at = "idle"
                     THEN aAt' = "sleep" /\ aReply' = b2aOp'[A].c
                     ELSE UNCHANGED <<aAt, aReply>>
                /\ UNCHANGED <<a2b, a2bOp, aChar, starts, ready, disturbed, bvars>>

\* The loop's c++ and its test; after the last letter A ends.
NextLetter == /\ aAt = "sleep"
              /\ aChar' = aChar + 1
              /\ aAt' = IF aChar' <= Last THEN "send" ELSE "ended"
              /\ UNCHANGED <<a2b, a2bOp, b2a, b2aOp, aReply, starts, ready, disturbed, bvars>>

\* A is interrupted wherever it is, and started again.  Once B has ended and
\* unlinked the object, a new A works on another one.
Kill == /\ aAt \notin {"ended", "killed"}
        /\ starts < MaxStarts
        /\ aAt' = "killed"
        /\ UNCHANGED <<a2b, a2bOp, b2a, b2aOp, aChar, aReply, starts, ready, disturbed, bvars>>

Restart == /\ aAt = "killed"
           /\ bAt # "ended"
           /\ starts' = starts + 1
           /\ aAt' = "init a2b"
           /\ aChar' = First
           /\ a2bOp' = [a2bOp EXCEPT ![A] = NoCall]
           /\ b2aOp' = [b2aOp EXCEPT ![A] = NoCall]
           /\ UNCHANGED <<a2b, b2a, aReply, ready, disturbed, bvars>>

-----------------------------------------------------------------------------
(* Process B *)

StartB == /\ bAt = "not started"
          /\ ready
          /\ bAt' = "receive"
          /\ UNCHANGED <<a2b, a2bOp, b2a, b2aOp, avars, bChar>>

\* One step of c = channel_recv(&shm->a2b).
ReceiveLetter == /\ bAt = "receive"
                 /\ A2B!RecvWaitFull(B) \/ A2B!RecvStep(B)
                 /\ IF a2bOp'[B].at = "idle"
                      THEN bAt' = "send" /\ bChar' = a2bOp'[B].c
                      ELSE UNCHANGED bvars
                 /\ UNCHANGED <<b2a, b2aOp, avars>>

\* Mutant: B goes on after the last letter.
SendReply_NoBreak == /\ bAt = "send"
                     /\ B2A!SendWaitEmpty(B, Upper(bChar)) \/ B2A!SendStep(B)
                     /\ bAt' = IF b2aOp'[B].at = "idle" THEN "receive" ELSE "send"
                     /\ UNCHANGED <<a2b, a2bOp, avars, bChar>>

\* One step of channel_send(&shm->b2a, reply); B ends after the last letter.
SendReply == /\ bAt = "send"
             /\ B2A!SendWaitEmpty(B, Upper(bChar)) \/ B2A!SendStep(B)
             /\ bAt' = CASE b2aOp'[B].at # "idle" -> "send"
                         [] b2aOp'[B].at = "idle" /\ bChar = Last -> "ended"
                         [] OTHER -> "receive"
             /\ UNCHANGED <<a2b, a2bOp, avars, bChar>>

-----------------------------------------------------------------------------
AStep == InitA2B \/ InitB2A \/ SendLetter \/ ReceiveReply \/ NextLetter
BStep == ReceiveLetter \/ SendReply

\* B has ended, and so has A.
Ended == aAt \in {"ended", "killed"} /\ bAt = "ended" /\ UNCHANGED vars

Next == AStep \/ Kill \/ Restart \/ StartB \/ BStep \/ Ended

\* The kernel runs both processes, and the script starts B.  Each semaphore has
\* one process waiting on it at most, except the mutexes, where the other is in
\* a critical section that it leaves without waiting: weak fairness is enough.
Spec == Init /\ [][Next]_vars /\ WF_vars(AStep) /\ WF_vars(StartB) /\ WF_vars(BStep)

-----------------------------------------------------------------------------
(* Properties *)

\* The reply that A prints under a letter is that letter in upper case: the two
\* loops stay in step, also when A was started again before B was running.
RepliesMatch == aAt = "sleep" /\ ~disturbed => aReply = Upper(aChar)

\* The processes answer each other one letter at a time: neither of them waits
\* for a free cell, whatever the size of the buffers.
NeverWaitsForSpace ==
  ~disturbed => /\ aAt = "send" /\ a2bOp[A].at = "idle" => a2b.empty > 0
                /\ bAt = "send" /\ b2aOp[B].at = "idle" => b2a.empty > 0

\* Both processes end, unless A is left interrupted or disturbs a running B.
BothEnd == []~disturbed /\ <>[](aAt # "killed") => <>(aAt = "ended" /\ bAt = "ended")
=============================================================================
