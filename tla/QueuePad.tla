------------------------------ MODULE QueuePad ------------------------------
(***************************************************************************)
(* The QueuePad of the ViPlugs engine (core/component/queue_pad): a pad    *)
(* with an unbounded queue, a mutex, a condition variable and a worker     *)
(* thread that the constructor starts and the destructor joins.            *)
(*                                                                         *)
(* Three kinds of thread touch it: producers, which call push(); the       *)
(* worker, which runs run(); and the owner, which calls set_next() and the *)
(* destructor.  One action is one step between two points at which         *)
(* another thread can see, or change, the shared state.                    *)
(*                                                                         *)
(* The condition variable is the set of threads that wait on it.  Only the *)
(* worker ever waits, so the set is the Boolean inWait; a notification     *)
(* clears it, and so does a spurious wake-up.                              *)
(*                                                                         *)
(* Callers respect the lifetime of the object: no push() is in progress    *)
(* when the destructor starts, none starts afterwards, and set_next() does *)
(* not run while the worker is reading next.                               *)
(***************************************************************************)
EXTENDS Naturals, Sequences, FiniteSets

CONSTANTS Producers,  \* threads that push
          Bufs,       \* the buffers; each is pushed at most once (a bound)
          Worker,     \* the pad's own thread
          NoThread    \* the holder of a free mutex

ASSUME WorkerAssumption == Worker \notin Producers
ASSUME NoThreadAssumption == NoThread \notin Producers \cup {Worker}

VARIABLES q,        \* the std::queue
          mtx,      \* the thread that holds the mutex, or NoThread
          inWait,   \* the worker is in the wait set of cv
          running,  \* the atomic flag
          linked,   \* next holds a function
          pc,       \* where each producer is in push()
          arg,      \* the argument of that push()
          wpc,      \* where the worker is in run()
          hand,     \* the worker's local buf: a sequence of at most one buffer
          opc,      \* where the owner is in the life of the pad
          pushed,   \* history: the buffers in the order push() queued them
          dropped,  \* history: the buffers popped while next was empty
          delivered \* history: the buffers passed to next, in order

shared == <<q, mtx, inWait, running, linked>>
history == <<pushed, dropped, delivered>>
vars == <<q, mtx, inWait, running, linked, pc, arg, wpc, hand, opc,
          pushed, dropped, delivered>>

SeqRange(s) == {s[i] : i \in DOMAIN s}

TypeOK == /\ q \in Seq(Bufs)
          /\ mtx \in Producers \cup {Worker, NoThread}
          /\ inWait \in BOOLEAN
          /\ running \in BOOLEAN
          /\ linked \in BOOLEAN
          /\ pc \in [Producers -> {"idle", "locked", "notify"}]
          /\ arg \in [Producers -> Bufs]
          /\ wpc \in {"test", "lock", "eval", "block", "wait", "woke", "call", "exit"}
          /\ hand \in {<<>>} \cup {<<b>> : b \in Bufs}
          /\ opc \in {"live", "notify", "join", "dead"}
          /\ pushed \in Seq(Bufs)
          /\ dropped \in Seq(Bufs)
          /\ delivered \in Seq(Bufs)

\* The constructor: the worker is started in its body, after every member.
Init == /\ q = <<>>
        /\ mtx = NoThread
        /\ inWait = FALSE
        /\ running = TRUE
        /\ linked = FALSE
        /\ pc = [p \in Producers |-> "idle"]
        /\ arg \in {[p \in Producers |-> b] : b \in Bufs}
        /\ wpc = "test"
        /\ hand = <<>>
        /\ opc = "live"
        /\ pushed = <<>>
        /\ dropped = <<>>
        /\ delivered = <<>>

-----------------------------------------------------------------------------
(* push() *)

\* A buffer no producer has pushed or is about to push (a bound).
Fresh(b) == /\ b \notin SeqRange(pushed)
            /\ \A p \in Producers : pc[p] = "locked" => arg[p] # b

PushLock(p, b) == /\ opc = "live"
                  /\ pc[p] = "idle"
                  /\ Fresh(b)
                  /\ mtx = NoThread
                  /\ mtx' = p
                  /\ pc' = [pc EXCEPT ![p] = "locked"]
                  /\ arg' = [arg EXCEPT ![p] = b]
                  /\ UNCHANGED <<q, inWait, running, linked, wpc, hand, opc, history>>

\* The queue grows without a limit: max_size is declared and never read.
PushQueue(p) == /\ pc[p] = "locked"
                /\ q' = Append(q, arg[p])
                /\ pushed' = Append(pushed, arg[p])
                /\ mtx' = NoThread
                /\ pc' = [pc EXCEPT ![p] = "notify"]
                /\ UNCHANGED <<inWait, running, linked, arg, wpc, hand, opc, dropped, delivered>>

\* Mutant: push() forgets notify_one().
PushNotify_Silent(p) ==
  /\ pc[p] = "notify"
  /\ pc' = [pc EXCEPT ![p] = "idle"]
  /\ UNCHANGED <<shared, arg, wpc, hand, opc, history>>

PushNotify(p) == /\ pc[p] = "notify"
                 /\ inWait' = FALSE
                 /\ pc' = [pc EXCEPT ![p] = "idle"]
                 /\ UNCHANGED <<q, mtx, running, linked, arg, wpc, hand, opc, history>>

Push(p) == PushQueue(p) \/ PushNotify(p)

-----------------------------------------------------------------------------
(* run() *)

RunTest == /\ wpc = "test"
           /\ wpc' = IF running THEN "lock" ELSE "exit"
           /\ UNCHANGED <<shared, pc, arg, hand, opc, history>>

RunLock == /\ wpc = "lock"
           /\ mtx = NoThread
           /\ mtx' = Worker
           /\ wpc' = "eval"
           /\ UNCHANGED <<q, inWait, running, linked, pc, arg, hand, opc, history>>

\* Mutant: the predicate only asks for the stop flag.
RunEval_OnlyStop ==
  /\ wpc = "eval"
  /\ wpc' = IF ~running THEN "woke" ELSE "block"
  /\ UNCHANGED <<shared, pc, arg, hand, opc, history>>

\* The predicate of cv.wait(): the queue is read under the mutex, the flag
\* is not written under it.
RunEval == /\ wpc = "eval"
           /\ wpc' = IF q # <<>> \/ ~running THEN "woke" ELSE "block"
           /\ UNCHANGED <<shared, pc, arg, hand, opc, history>>

\* Enter the wait set and release the mutex in one step.
RunBlock == /\ wpc = "block"
            /\ inWait' = TRUE
            /\ mtx' = NoThread
            /\ wpc' = "wait"
            /\ UNCHANGED <<q, running, linked, pc, arg, hand, opc, history>>

\* Mutant: the predicate is tested once, not after every wake-up.
RunWake_IfNotWhile ==
  /\ wpc = "wait" /\ ~inWait /\ mtx = NoThread
  /\ mtx' = Worker
  /\ wpc' = "woke"
  /\ UNCHANGED <<q, inWait, running, linked, pc, arg, hand, opc, history>>

\* Out of the wait set: take the mutex again and re-evaluate the predicate.
RunWake == /\ wpc = "wait"
           /\ ~inWait
           /\ mtx = NoThread
           /\ mtx' = Worker
           /\ wpc' = "eval"
           /\ UNCHANGED <<q, inWait, running, linked, pc, arg, hand, opc, history>>

SpuriousWakeup == /\ wpc = "wait"
                  /\ inWait
                  /\ inWait' = FALSE
                  /\ UNCHANGED <<q, mtx, running, linked, pc, arg, wpc, hand, opc, history>>

\* Mutant: q.back() instead of q.front().
RunPop_Back ==
  /\ wpc = "woke"
  /\ mtx' = NoThread
  /\ \/ /\ ~running /\ q = <<>>
        /\ wpc' = "exit"
        /\ UNCHANGED <<q, hand>>
     \/ /\ q # <<>>
        /\ wpc' = "call"
        /\ hand' = <<q[Len(q)]>>
        /\ q' = SubSeq(q, 1, Len(q) - 1)
  /\ UNCHANGED <<inWait, running, linked, pc, arg, opc, history>>

\* Mutant: the whole queue is swapped out at once.
RunPop_Drain ==
  /\ wpc = "woke"
  /\ mtx' = NoThread
  /\ wpc' = IF q = <<>> THEN "exit" ELSE "call"
  /\ hand' = q
  /\ q' = <<>>
  /\ UNCHANGED <<inWait, running, linked, pc, arg, opc, history>>

\* The wait is over: leave the loop, or take the oldest buffer.
RunPop == /\ wpc = "woke"
          /\ mtx' = NoThread
          /\ \/ /\ ~running /\ q = <<>>
                /\ wpc' = "exit"
                /\ UNCHANGED <<q, hand>>
             \/ /\ running \/ q # <<>>
                /\ wpc' = "call"
                /\ hand' = <<Head(q)>>
                /\ q' = Tail(q)
          /\ UNCHANGED <<inWait, running, linked, pc, arg, opc, history>>

\* Mutant: a buffer popped while the pad stops is not passed on.
RunCall_NotWhenStopping ==
  /\ wpc = "call"
  /\ IF linked /\ running
     THEN delivered' = delivered \o hand /\ UNCHANGED dropped
     ELSE dropped' = dropped \o hand /\ UNCHANGED delivered
  /\ hand' = <<>>
  /\ wpc' = "test"
  /\ UNCHANGED <<shared, pc, arg, opc, pushed>>

\* if (next) next(buf): with no next the buffer is released unseen.
RunCall == /\ wpc = "call"
           /\ IF linked
              THEN delivered' = delivered \o hand /\ UNCHANGED dropped
              ELSE dropped' = dropped \o hand /\ UNCHANGED delivered
           /\ hand' = <<>>
           /\ wpc' = "test"
           /\ UNCHANGED <<shared, pc, arg, opc, pushed>>

Run == RunTest \/ RunLock \/ RunEval \/ RunBlock \/ RunWake \/ RunPop \/ RunCall

-----------------------------------------------------------------------------
(* The owner: set_next() and the destructor *)

SetNext == /\ opc = "live"
           /\ ~linked
           /\ wpc # "call"
           /\ linked' = TRUE
           /\ UNCHANGED <<q, mtx, inWait, running, pc, arg, wpc, hand, opc, history>>

\* running = false, without the mutex.
DtorStop == /\ opc = "live"
            /\ \A p \in Producers : pc[p] = "idle"
            /\ running' = FALSE
            /\ opc' = "notify"
            /\ UNCHANGED <<q, mtx, inWait, linked, pc, arg, wpc, hand, history>>

\* Mutant: the destructor does not notify.
DtorNotify_Silent ==
  /\ opc = "notify"
  /\ opc' = "join"
  /\ UNCHANGED <<shared, pc, arg, wpc, hand, history>>

DtorNotify == /\ opc = "notify"
              /\ inWait' = FALSE
              /\ opc' = "join"
              /\ UNCHANGED <<q, mtx, running, linked, pc, arg, wpc, hand, history>>

\* Mutant: the worker is detached, not joined.
DtorJoin_Detach ==
  /\ opc = "join"
  /\ opc' = "dead"
  /\ UNCHANGED <<shared, pc, arg, wpc, hand, history>>

DtorJoin == /\ opc = "join"
            /\ wpc = "exit"
            /\ opc' = "dead"
            /\ UNCHANGED <<shared, pc, arg, wpc, hand, history>>

Dtor == DtorNotify \/ DtorJoin

-----------------------------------------------------------------------------
Next == \/ \E p \in Producers : \/ \E b \in Bufs : PushLock(p, b)
                                \/ Push(p)
        \/ Run
        \/ SpuriousWakeup
        \/ SetNext
        \/ DtorStop
        \/ Dtor

\* Threads that can run do run.  Nobody has to call push(), set_next() or the
\* destructor, and a spurious wake-up need not come.
Fairness == /\ WF_vars(Run)
            /\ WF_vars(Dtor)
            /\ \A p \in Producers : WF_vars(Push(p))

Spec == Init /\ [][Next]_vars /\ Fairness

-----------------------------------------------------------------------------
(* Properties *)

\* Exactly the thread between lock and unlock holds the mutex, so two threads
\* are never inside the critical sections of push() and run() together.
MutexOwner == /\ \A p \in Producers : pc[p] = "locked" <=> mtx = p
              /\ wpc \in {"eval", "block", "woke"} <=> mtx = Worker

\* run() calls q.front() only on a queue that is not empty: between the
\* predicate and the pop nobody empties it, and the flag never comes back.
FrontIsDefined == wpc = "woke" /\ running => q # <<>>

\* Every buffer that push() queued is, in the same order, already dropped,
\* already delivered, in the worker's hand or still queued: none is lost,
\* duplicated or overtaken by another one.
Fifo == pushed = dropped \o delivered \o hand \o q

\* No push is missed: the worker sleeps over a non-empty queue only while some
\* producer is still on its way to notify_one(), or the destructor to
\* notify_all().
NoMissedPush == wpc = "wait" /\ inWait /\ q # <<>>
                  => \/ \E p \in Producers : pc[p] = "notify"
                     \/ opc = "notify"

\* The destructor frees nothing that the worker could still use.
WorkerGoneWhenDead == opc = "dead" => wpc = "exit" /\ mtx = NoThread /\ ~inWait

\* A queued buffer is passed on or dropped, unless the pad is destroyed first.
QueuedIsConsumed ==
  \A b \in Bufs : b \in SeqRange(pushed)
                    ~> b \in SeqRange(dropped \o delivered) \/ opc = "dead"

\* ~QueuePad() returns whenever the worker, at the moment running is cleared,
\* is anywhere but between the predicate of cv.wait() and the wait itself.
DtorReturnsOutsideGap == opc = "notify" /\ wpc # "block" ~> opc = "dead"

\* ~QueuePad() returns.
DtorReturns == opc = "notify" ~> opc = "dead"

\* The pad implements the abstract FIFO of BufferFifo: what the abstract pad
\* holds is what the worker holds followed by what the queue holds.
Abstract == INSTANCE BufferFifo WITH fifo <- hand \o q, open <- opc # "dead"
ImplementsBufferFifo == Abstract!FSpec
=============================================================================
