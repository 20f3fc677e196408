---------------------------- MODULE ThreadProofs ----------------------------
(***************************************************************************)
(* The safety properties of the two components whose threads meet in       *)
(* memory: QueuePad, for any set of producers and of buffers, and          *)
(* RobotApp, for every set of G-code files, acceleration and number of     *)
(* keys.                                                                   *)
(***************************************************************************)
EXTENDS QueuePad, RobotApp, FiniteSetTheorems, SequenceTheorems, TLAPS

-----------------------------------------------------------------------------
(* QueuePad *)

\* The parts of the inductive invariant that are no property of their own:
\* the flag is cleared exactly by the destructor, no push() is in progress
\* from then on, the wait set holds nobody but a waiting worker, a buffer is
\* in the worker's hand only while it calls next, and between a predicate that
\* failed and the wait the queue stays empty; nothing is delivered before next
\* is set.
Bookkeeping == /\ running <=> opc = "live"
               /\ opc # "live" => \A p \in Producers : pc[p] = "idle"
               /\ inWait => wpc = "wait"
               /\ hand # <<>> => wpc = "call"
               /\ wpc = "block" => q = <<>>
               /\ opc = "dead" => wpc = "exit"
               /\ ~linked => delivered = <<>>

IInv == TypeOK /\ Bookkeeping /\ MutexOwner /\ FrontIsDefined /\ NoMissedPush

USE WorkerAssumption, NoThreadAssumption

-----------------------------------------------------------------------------
(* One lemma for each conjunct of the invariant *)

LEMMA InitIInv == Init => IInv
<1> SUFFICES ASSUME Init PROVE IInv
  OBVIOUS
<1> USE DEF Init
<1>1. TypeOK
  BY EmptySeq DEF TypeOK
<1>2. Bookkeeping /\ FrontIsDefined /\ NoMissedPush
  BY DEF Bookkeeping, FrontIsDefined, NoMissedPush
<1>3. MutexOwner
  BY DEF MutexOwner
<1> QED
  BY <1>1, <1>2, <1>3 DEF IInv

LEMMA HandIsSeq == TypeOK => hand \in Seq(Bufs)
<1>1. \A b \in Bufs : <<b>> \in Seq(Bufs)
  OBVIOUS
<1>2. <<>> \in Seq(Bufs)
  BY EmptySeq
<1> QED
  BY <1>1, <1>2 DEF TypeOK

LEMMA NextTypeOK == IInv /\ [Next]_vars => TypeOK'
<1> SUFFICES ASSUME IInv, [Next]_vars PROVE TypeOK'
  OBVIOUS
<1> USE DEF IInv, TypeOK, shared, history
<1>1. ASSUME NEW p \in Producers, NEW b \in Bufs, PushLock(p, b) PROVE TypeOK'
  BY <1>1 DEF PushLock
<1>2. ASSUME NEW p \in Producers, PushQueue(p) PROVE TypeOK'
  <2>1. /\ Append(q, arg[p]) \in Seq(Bufs)
        /\ Append(pushed, arg[p]) \in Seq(Bufs)
    BY AppendProperties
  <2> QED
    BY <1>2, <2>1 DEF PushQueue
<1>3. ASSUME NEW p \in Producers, PushNotify(p) PROVE TypeOK'
  BY <1>3 DEF PushNotify
<1>4. CASE RunTest
  BY <1>4 DEF RunTest
<1>5. CASE RunLock
  BY <1>5 DEF RunLock
<1>6. CASE RunEval
  BY <1>6 DEF RunEval
<1>7. CASE RunBlock
  BY <1>7 DEF RunBlock
<1>8. CASE RunWake
  BY <1>8 DEF RunWake
<1>9. CASE SpuriousWakeup
  BY <1>9 DEF SpuriousWakeup
<1>10. CASE RunPop
  <2>1. CASE q = <<>>
    <3>1. ~running
      BY <1>10, <2>1 DEF RunPop, FrontIsDefined
    <3> QED
      BY <1>10, <2>1, <3>1 DEF RunPop
  <2>2. CASE q # <<>>
    <3>1. Head(q) \in Bufs /\ Tail(q) \in Seq(Bufs)
      BY <2>2, HeadTailProperties
    <3>2. /\ hand' = <<Head(q)>> /\ q' = Tail(q) /\ wpc' = "call" /\ mtx' = NoThread
          /\ UNCHANGED <<inWait, running, linked, pc, arg, opc, history>>
      BY <1>10, <2>2 DEF RunPop
    <3> QED
      BY <3>1, <3>2
  <2> QED
    BY <2>1, <2>2
<1>11. CASE RunCall
  <2>1. hand \in Seq(Bufs)
    BY HandIsSeq
  <2>2. /\ delivered \o hand \in Seq(Bufs)
        /\ dropped \o hand \in Seq(Bufs)
    BY <2>1, ConcatProperties
  <2> QED
    BY <1>11, <2>2 DEF RunCall
<1>12. CASE SetNext
  BY <1>12 DEF SetNext
<1>13. CASE DtorStop
  BY <1>13 DEF DtorStop
<1>14. CASE DtorNotify
  BY <1>14 DEF DtorNotify
<1>15. CASE DtorJoin
  BY <1>15 DEF DtorJoin
<1>16. CASE UNCHANGED vars
  BY <1>16 DEF vars
<1> QED
  BY <1>1, <1>2, <1>3, <1>4, <1>5, <1>6, <1>7, <1>8,
     <1>9, <1>10, <1>11, <1>12, <1>13, <1>14, <1>15, <1>16 DEF Next, Push, Run, Dtor

LEMMA NextBookkeeping == IInv /\ [Next]_vars => Bookkeeping'
<1> SUFFICES ASSUME IInv, [Next]_vars PROVE Bookkeeping'
  OBVIOUS
<1> USE DEF IInv, TypeOK, Bookkeeping, MutexOwner, shared, history
<1>1. ASSUME NEW p \in Producers, NEW b \in Bufs, PushLock(p, b) PROVE Bookkeeping'
  BY <1>1 DEF PushLock
<1>2. ASSUME NEW p \in Producers, PushQueue(p) PROVE Bookkeeping'
  BY <1>2 DEF PushQueue
<1>3. ASSUME NEW p \in Producers, PushNotify(p) PROVE Bookkeeping'
  BY <1>3 DEF PushNotify
<1>4. CASE RunTest
  BY <1>4 DEF RunTest
<1>5. CASE RunLock
  BY <1>5 DEF RunLock
<1>6. CASE RunEval
  BY <1>6 DEF RunEval
<1>7. CASE RunBlock
  BY <1>7 DEF RunBlock
<1>8. CASE RunWake
  BY <1>8 DEF RunWake
<1>9. CASE SpuriousWakeup
  BY <1>9 DEF SpuriousWakeup
<1>10. CASE RunPop
  BY <1>10 DEF RunPop
<1>11. CASE RunCall
  BY <1>11 DEF RunCall
<1>12. CASE SetNext
  BY <1>12 DEF SetNext
<1>13. CASE DtorStop
  BY <1>13 DEF DtorStop
<1>14. CASE DtorNotify
  BY <1>14 DEF DtorNotify
<1>15. CASE DtorJoin
  BY <1>15 DEF DtorJoin
<1>16. CASE UNCHANGED vars
  BY <1>16 DEF vars
<1> QED
  BY <1>1, <1>2, <1>3, <1>4, <1>5, <1>6, <1>7, <1>8,
     <1>9, <1>10, <1>11, <1>12, <1>13, <1>14, <1>15, <1>16 DEF Next, Push, Run, Dtor

LEMMA NextMutexOwner == IInv /\ [Next]_vars => MutexOwner'
<1> SUFFICES ASSUME IInv, [Next]_vars PROVE MutexOwner'
  OBVIOUS
<1> USE DEF IInv, TypeOK, MutexOwner, shared, history
<1>1. ASSUME NEW p \in Producers, NEW b \in Bufs, PushLock(p, b) PROVE MutexOwner'
  BY <1>1 DEF PushLock
<1>2. ASSUME NEW p \in Producers, PushQueue(p) PROVE MutexOwner'
  BY <1>2 DEF PushQueue
<1>3. ASSUME NEW p \in Producers, PushNotify(p) PROVE MutexOwner'
  BY <1>3 DEF PushNotify
<1>4. CASE RunTest
  BY <1>4 DEF RunTest
<1>5. CASE RunLock
  BY <1>5 DEF RunLock
<1>6. CASE RunEval
  BY <1>6 DEF RunEval
<1>7. CASE RunBlock
  BY <1>7 DEF RunBlock
<1>8. CASE RunWake
  BY <1>8 DEF RunWake
<1>9. CASE SpuriousWakeup
  BY <1>9 DEF SpuriousWakeup
<1>10. CASE RunPop
  BY <1>10 DEF RunPop
<1>11. CASE RunCall
  BY <1>11 DEF RunCall
<1>12. CASE SetNext
  BY <1>12 DEF SetNext
<1>13. CASE DtorStop
  BY <1>13 DEF DtorStop
<1>14. CASE DtorNotify
  BY <1>14 DEF DtorNotify
<1>15. CASE DtorJoin
  BY <1>15 DEF DtorJoin
<1>16. CASE UNCHANGED vars
  BY <1>16 DEF vars
<1> QED
  BY <1>1, <1>2, <1>3, <1>4, <1>5, <1>6, <1>7, <1>8,
     <1>9, <1>10, <1>11, <1>12, <1>13, <1>14, <1>15, <1>16 DEF Next, Push, Run, Dtor

LEMMA NextFrontIsDefined == IInv /\ [Next]_vars => FrontIsDefined'
<1> SUFFICES ASSUME IInv, [Next]_vars PROVE FrontIsDefined'
  OBVIOUS
<1> USE DEF IInv, TypeOK, Bookkeeping, MutexOwner, FrontIsDefined, shared, history
<1>1. ASSUME NEW p \in Producers, NEW b \in Bufs, PushLock(p, b) PROVE FrontIsDefined'
  BY <1>1 DEF PushLock
<1>2. ASSUME NEW p \in Producers, PushQueue(p) PROVE FrontIsDefined'
  BY <1>2 DEF PushQueue
<1>3. ASSUME NEW p \in Producers, PushNotify(p) PROVE FrontIsDefined'
  BY <1>3 DEF PushNotify
<1>4. CASE RunTest
  BY <1>4 DEF RunTest
<1>5. CASE RunLock
  BY <1>5 DEF RunLock
<1>6. CASE RunEval
  BY <1>6 DEF RunEval
<1>7. CASE RunBlock
  BY <1>7 DEF RunBlock
<1>8. CASE RunWake
  BY <1>8 DEF RunWake
<1>9. CASE SpuriousWakeup
  BY <1>9 DEF SpuriousWakeup
<1>10. CASE RunPop
  BY <1>10 DEF RunPop
<1>11. CASE RunCall
  BY <1>11 DEF RunCall
<1>12. CASE SetNext
  BY <1>12 DEF SetNext
<1>13. CASE DtorStop
  BY <1>13 DEF DtorStop
<1>14. CASE DtorNotify
  BY <1>14 DEF DtorNotify
<1>15. CASE DtorJoin
  BY <1>15 DEF DtorJoin
<1>16. CASE UNCHANGED vars
  BY <1>16 DEF vars
<1> QED
  BY <1>1, <1>2, <1>3, <1>4, <1>5, <1>6, <1>7, <1>8,
     <1>9, <1>10, <1>11, <1>12, <1>13, <1>14, <1>15, <1>16 DEF Next, Push, Run, Dtor

LEMMA NextNoMissedPush == IInv /\ [Next]_vars => NoMissedPush'
<1> SUFFICES ASSUME IInv, [Next]_vars PROVE NoMissedPush'
  OBVIOUS
<1> USE DEF IInv, TypeOK, Bookkeeping, MutexOwner, NoMissedPush, shared, history
<1>1. ASSUME NEW p \in Producers, NEW b \in Bufs, PushLock(p, b) PROVE NoMissedPush'
  BY <1>1 DEF PushLock
<1>2. ASSUME NEW p \in Producers, PushQueue(p) PROVE NoMissedPush'
  BY <1>2 DEF PushQueue
<1>3. ASSUME NEW p \in Producers, PushNotify(p) PROVE NoMissedPush'
  BY <1>3 DEF PushNotify
<1>4. CASE RunTest
  BY <1>4 DEF RunTest
<1>5. CASE RunLock
  BY <1>5 DEF RunLock
<1>6. CASE RunEval
  BY <1>6 DEF RunEval
<1>7. CASE RunBlock
  BY <1>7 DEF RunBlock
<1>8. CASE RunWake
  BY <1>8 DEF RunWake
<1>9. CASE SpuriousWakeup
  BY <1>9 DEF SpuriousWakeup
<1>10. CASE RunPop
  BY <1>10 DEF RunPop
<1>11. CASE RunCall
  BY <1>11 DEF RunCall
<1>12. CASE SetNext
  BY <1>12 DEF SetNext
<1>13. CASE DtorStop
  BY <1>13 DEF DtorStop
<1>14. CASE DtorNotify
  BY <1>14 DEF DtorNotify
<1>15. CASE DtorJoin
  BY <1>15 DEF DtorJoin
<1>16. CASE UNCHANGED vars
  BY <1>16 DEF vars
<1> QED
  BY <1>1, <1>2, <1>3, <1>4, <1>5, <1>6, <1>7, <1>8,
     <1>9, <1>10, <1>11, <1>12, <1>13, <1>14, <1>15, <1>16 DEF Next, Push, Run, Dtor

LEMMA NextIInv == IInv /\ [Next]_vars => IInv'
BY NextTypeOK, NextBookkeeping, NextMutexOwner, NextFrontIsDefined, NextNoMissedPush DEF IInv

THEOREM Invariance == Spec => []IInv
BY InitIInv, NextIInv, PTL DEF Spec

-----------------------------------------------------------------------------
(* The properties *)

\* Every reachable state of the pad is well typed; in particular the worker
\* never holds more than one buffer.
THEOREM TypeCorrect == Spec => []TypeOK
<1>1. IInv => TypeOK
  BY DEF IInv
<1> QED
  BY <1>1, Invariance, PTL

\* push() and the worker's critical section exclude each other.
THEOREM MutualExclusion == Spec => []MutexOwner
<1>1. IInv => MutexOwner
  BY DEF IInv
<1> QED
  BY <1>1, Invariance, PTL

\* run() never calls front() or pop() on an empty queue.
THEOREM PopIsSafe == Spec => []FrontIsDefined
<1>1. IInv => FrontIsDefined
  BY DEF IInv
<1> QED
  BY <1>1, Invariance, PTL

\* The worker never sleeps over a queued buffer that nobody is about to
\* announce.
THEOREM NoPushIsMissed == Spec => []NoMissedPush
<1>1. IInv => NoMissedPush
  BY DEF IInv
<1> QED
  BY <1>1, Invariance, PTL

\* When the destructor returns, the worker has left run(), holds no lock and
\* is in no wait set.
THEOREM DtorIsSafe == Spec => []WorkerGoneWhenDead
<1>1. IInv => WorkerGoneWhenDead
  <2> SUFFICES ASSUME IInv, opc = "dead"
               PROVE  wpc = "exit" /\ mtx = NoThread /\ ~inWait
    BY DEF WorkerGoneWhenDead
  <2>1. wpc = "exit" /\ ~inWait
    BY DEF IInv, Bookkeeping
  <2>2. mtx # Worker
    BY <2>1 DEF IInv, MutexOwner
  <2>3. \A p \in Producers : mtx # p
    BY DEF IInv, Bookkeeping, MutexOwner
  <2> QED
    BY <2>1, <2>2, <2>3 DEF IInv, TypeOK
<1> QED
  BY <1>1, Invariance, PTL

-----------------------------------------------------------------------------
(* No buffer is lost, duplicated or overtaken *)

LEMMA BufsConcatAssociative ==
  \A s, t, u \in Seq(Bufs) : (s \o t) \o u = s \o (t \o u)
BY ConcatAssociative

\* Appending to the second of two sequences appends to both.
LEMMA ConcatAppend ==
  ASSUME NEW s \in Seq(Bufs), NEW t \in Seq(Bufs), NEW b \in Bufs
  PROVE  Append(s \o t, b) = s \o Append(t, b)
<1>1. <<b>> \in Seq(Bufs) /\ s \o t \in Seq(Bufs)
  BY ConcatProperties
<1>2. Append(s \o t, b) = (s \o t) \o <<b>>
  BY <1>1, AppendIsConcat
<1>3. Append(t, b) = t \o <<b>>
  BY AppendIsConcat
<1>4. (s \o t) \o <<b>> = s \o (t \o <<b>>)
  BY <1>1, BufsConcatAssociative
<1> QED
  BY <1>2, <1>3, <1>4

\* Moving the first element of the last of three sequences.
LEMMA ConcatShift ==
  ASSUME NEW s \in Seq(Bufs), NEW t \in Seq(Bufs), t # <<>>
  PROVE  s \o t = (s \o <<Head(t)>>) \o Tail(t)
<1>1. /\ Head(t) \in Bufs
      /\ Tail(t) \in Seq(Bufs)
      /\ t = <<Head(t)>> \o Tail(t)
  BY HeadTailProperties
<1>2. <<Head(t)>> \in Seq(Bufs)
  BY <1>1
<1> QED
  BY SMTT(60), <1>1, <1>2, BufsConcatAssociative

LEMMA NextFifo == IInv /\ Fifo /\ [Next]_vars => Fifo'
<1> SUFFICES ASSUME IInv, Fifo, [Next]_vars PROVE Fifo'
  OBVIOUS
<1> USE DEF Fifo, shared, history
<1>t. /\ q \in Seq(Bufs)
      /\ hand \in Seq(Bufs)
      /\ dropped \in Seq(Bufs)
      /\ delivered \in Seq(Bufs)
  BY HandIsSeq DEF IInv, TypeOK
<1>1. ASSUME NEW p \in Producers, PushQueue(p) PROVE Fifo'
  <2> DEFINE before == dropped \o delivered \o hand
  <2>1. arg[p] \in Bufs /\ before \in Seq(Bufs)
    BY <1>t, ConcatProperties DEF IInv, TypeOK
  <2>2. Append(before \o q, arg[p]) = before \o Append(q, arg[p])
    <3> HIDE DEF before
    <3> QED
      BY <1>t, <2>1, ConcatAppend
  <2> QED
    BY <1>1, <2>2 DEF PushQueue
<1>2. CASE RunPop
  <2>1. CASE q = <<>>
    BY <1>2, <2>1 DEF IInv, FrontIsDefined, RunPop
  <2>2. CASE q # <<>>
    <3> DEFINE before == dropped \o delivered
    <3>1. before \in Seq(Bufs) /\ hand = <<>>
      BY <1>2, <1>t, ConcatProperties DEF IInv, Bookkeeping, RunPop
    <3>2. pushed = before \o q
      BY <3>1, ConcatEmptySeq
    <3>3. pushed = (before \o <<Head(q)>>) \o Tail(q)
      BY <1>t, <2>2, <3>1, <3>2, ConcatShift
    <3> QED
      BY <1>2, <2>2, <3>3 DEF RunPop
  <2> QED
    BY <2>1, <2>2
<1>3. CASE RunCall
  <2>1. hand' = <<>> /\ q' = q /\ pushed' = pushed
    BY <1>3 DEF RunCall
  <2>2. CASE linked
    <3>1. delivered' = delivered \o hand /\ dropped' = dropped
      BY <1>3, <2>2 DEF RunCall
    <3>2. (dropped \o delivered) \o hand = dropped \o (delivered \o hand)
      BY SMTT(60), <1>t, BufsConcatAssociative
    <3>3. dropped \o (delivered \o hand) \in Seq(Bufs)
      BY <1>t, ConcatProperties
    <3>4. (dropped \o (delivered \o hand)) \o <<>> = dropped \o (delivered \o hand)
      BY <3>3, ConcatEmptySeq
    <3> QED
      BY <2>1, <3>1, <3>2, <3>4
  <2>3. CASE ~linked
    <3>1. delivered' = <<>> /\ delivered = <<>> /\ dropped' = dropped \o hand
      BY <1>3, <2>3 DEF RunCall, IInv, Bookkeeping
    <3>2. dropped \o hand \in Seq(Bufs)
      BY <1>t, ConcatProperties
    <3> QED
      BY <1>t, <2>1, <3>1, <3>2, ConcatEmptySeq
  <2> QED
    BY <2>2, <2>3
<1>4. ASSUME UNCHANGED <<q, hand, history>> PROVE Fifo'
  BY <1>4
<1>5. ASSUME NEW p \in Producers,
             (\E b \in Bufs : PushLock(p, b)) \/ PushNotify(p)
      PROVE  Fifo'
  BY <1>4, <1>5 DEF PushLock, PushNotify
<1>6. CASE RunTest \/ RunLock \/ RunEval \/ RunBlock \/ RunWake \/ SpuriousWakeup
  BY <1>4, <1>6 DEF RunTest, RunLock, RunEval, RunBlock, RunWake, SpuriousWakeup
<1>7. CASE SetNext \/ DtorStop \/ Dtor
  BY <1>4, <1>7 DEF SetNext, DtorStop, Dtor, DtorNotify, DtorJoin
<1>8. CASE UNCHANGED vars
  BY <1>4, <1>8 DEF vars
<1> QED
  BY <1>1, <1>2, <1>3, <1>5, <1>6, <1>7, <1>8 DEF Next, Push, Run

\* Buffers leave the pad in the order in which push() queued them, none is
\* lost and none leaves twice, however the threads interleave.
THEOREM FifoOrder == Spec => []Fifo
<1>1. Init => Fifo
  BY ConcatEmptySeq, EmptySeq DEF Init, Fifo
<1>2. IInv /\ Fifo /\ [Next]_vars => Fifo'
  BY NextFifo
<1> QED
  BY <1>1, <1>2, Invariance, PTL DEF Spec

-----------------------------------------------------------------------------
(* The pad is a FIFO: every step is one of BufferFifo's or changes nothing   *)
(* that BufferFifo speaks of                                                 *)

LEMMA AbstractInit == Init => Abstract!FInit
BY ConcatEmptySeq, EmptySeq DEF Init, Abstract!FInit

LEMMA AbstractStutter ==
  ASSUME UNCHANGED <<hand, q, delivered, opc, linked>>
  PROVE  UNCHANGED Abstract!fvars
BY DEF Abstract!fvars

LEMMA AbstractPut ==
  ASSUME IInv, NEW p \in Producers, PushQueue(p)
  PROVE  Abstract!FNext
<1>1. /\ arg[p] \in Bufs
      /\ opc = "live" /\ opc' = "live"
  BY DEF PushQueue, IInv, TypeOK, Bookkeeping
<1>2. hand' \o q' = Append(hand \o q, arg[p])
  <2>1. hand \in Seq(Bufs) /\ q \in Seq(Bufs)
    BY HandIsSeq DEF IInv, TypeOK
  <2>2. Append(hand \o q, arg[p]) = hand \o Append(q, arg[p])
    BY <1>1, <2>1, ConcatAppend
  <2> QED
    BY <2>2 DEF PushQueue
<1>3. Abstract!Put(arg[p])
  BY <1>1, <1>2 DEF PushQueue, Abstract!Put
<1> QED
  BY <1>1, <1>3 DEF Abstract!FNext

\* A pop moves the oldest buffer from the queue into the worker's hand.
LEMMA AbstractPop ==
  ASSUME IInv, RunPop
  PROVE  UNCHANGED Abstract!fvars
<1>1. q \in Seq(Bufs) /\ hand = <<>>
  BY DEF RunPop, IInv, TypeOK, Bookkeeping
<1>2. hand' \o q' = hand \o q
  <2>1. CASE q = <<>>
    BY <2>1 DEF RunPop, IInv, FrontIsDefined
  <2>2. CASE q # <<>>
    <3>1. q = <<Head(q)>> \o Tail(q)
      BY <1>1, <2>2, HeadTailProperties
    <3>2. hand \o q = q
      BY <1>1, ConcatEmptySeq
    <3> QED
      BY <2>2, <3>1, <3>2 DEF RunPop
  <2> QED
    BY <2>1, <2>2
<1> QED
  BY <1>2 DEF RunPop, Abstract!fvars, history

\* The buffer in the worker's hand leaves, downstream or unseen.
LEMMA AbstractCall ==
  ASSUME IInv, RunCall
  PROVE  Abstract!FNext \/ UNCHANGED Abstract!fvars
<1>t. /\ q \in Seq(Bufs) /\ delivered \in Seq(Bufs)
      /\ opc # "dead" /\ opc' = opc /\ q' = q /\ hand' = <<>> /\ linked' = linked
      /\ linked \in BOOLEAN
  BY DEF RunCall, IInv, TypeOK, Bookkeeping, shared
<1>1. CASE hand = <<>>
  BY <1>1, <1>t, ConcatEmptySeq DEF RunCall, Abstract!fvars
<1>2. ASSUME NEW b \in Bufs, hand = <<b>> PROVE Abstract!FNext
  <2>1. /\ hand \o q # <<>>
        /\ Head(hand \o q) = b
        /\ Tail(hand \o q) = q
    BY <1>2, <1>t
  <2>2. hand' \o q' = q
    BY <1>t, ConcatEmptySeq
  <2>3. CASE linked
    <3>1. delivered' = Append(delivered, b)
      BY <1>2, <1>t, <2>3, AppendIsConcat DEF RunCall
    <3>2. Abstract!Deliver
      BY <1>t, <2>1, <2>2, <2>3, <3>1 DEF Abstract!Deliver
    <3> QED
      BY <3>2 DEF Abstract!FNext
  <2>4. CASE ~linked
    <3>1. Abstract!Discard
      BY <1>t, <2>1, <2>2, <2>4 DEF RunCall, Abstract!Discard
    <3> QED
      BY <3>1 DEF Abstract!FNext
  <2> QED
    BY <2>3, <2>4
<1> QED
  BY <1>1, <1>2 DEF IInv, TypeOK

LEMMA AbstractOwner ==
  ASSUME IInv, SetNext \/ DtorStop \/ Dtor
  PROVE  Abstract!FNext \/ UNCHANGED Abstract!fvars
<1>1. CASE SetNext
  <2>1. Abstract!Link
    BY <1>1 DEF SetNext, Abstract!Link, history
  <2> QED
    BY <2>1 DEF Abstract!FNext
<1>2. CASE DtorStop \/ DtorNotify
  BY <1>2 DEF DtorStop, DtorNotify, Abstract!fvars, history
<1>3. CASE DtorJoin
  <2>1. Abstract!Close
    BY <1>3 DEF DtorJoin, Abstract!Close, shared, history
  <2> QED
    BY <2>1 DEF Abstract!FNext
<1> QED
  BY <1>1, <1>2, <1>3 DEF Dtor

LEMMA AbstractNext ==
  IInv /\ [Next]_vars => [Abstract!FNext]_Abstract!fvars
<1> SUFFICES ASSUME IInv, [Next]_vars PROVE Abstract!FNext \/ UNCHANGED Abstract!fvars
  OBVIOUS
<1>1. ASSUME NEW p \in Producers, PushQueue(p) PROVE Abstract!FNext
  BY <1>1, AbstractPut
<1>2. ASSUME NEW p \in Producers, (\E b \in Bufs : PushLock(p, b)) \/ PushNotify(p)
      PROVE  UNCHANGED Abstract!fvars
  BY <1>2, AbstractStutter DEF PushLock, PushNotify, history
<1>3. CASE RunPop
  BY <1>3, AbstractPop
<1>4. CASE RunCall
  BY <1>4, AbstractCall
<1>5. CASE RunTest \/ RunLock \/ RunEval \/ RunBlock \/ RunWake \/ SpuriousWakeup
  BY <1>5, AbstractStutter
  DEF RunTest, RunLock, RunEval, RunBlock, RunWake, SpuriousWakeup, shared, history
<1>6. CASE SetNext \/ DtorStop \/ Dtor
  BY <1>6, AbstractOwner
<1>7. CASE UNCHANGED vars
  BY <1>7, AbstractStutter DEF vars
<1> QED
  BY <1>1, <1>2, <1>3, <1>4, <1>5, <1>6, <1>7 DEF Next, Push, Run

\* The pad implements the FIFO it promises to be, for any producers and any
\* buffers: the safety half of ImplementsBufferFifo.
THEOREM IsBufferFifo == Spec => Abstract!FInit /\ [][Abstract!FNext]_Abstract!fvars
BY AbstractInit, AbstractNext, Invariance, PTL DEF Spec

-----------------------------------------------------------------------------
(* RobotApp *)

\* Where the thread is tells whether main() may join it, and what it is at.
ExecInv ==
  /\ done <=> xpc \in {"none", "check", "clear", "ended"}
  /\ mpc # "end" => (joinable <=> xpc # "none")
  /\ mpc = "start" => xpc = "none"
  /\ mpc = "join" => joinable /\ done

MoveInv ==
  /\ xpc \in {"load", "move", "smooth", "final"} => ci \in 1..Len(file)
  /\ xpc = "move" => rem > 0
  /\ xpc \in {"smooth", "final"} => file[ci].kind = "smooth"

RobotIInv == RTypeOK /\ ExecInv /\ MoveInv

\* No step is late while the flag is 1; a move that loads the flag is about to
\* take a step only if none was late before, a smooth one if those were its own.
LateInv ==
  /\ flag = 1 \/ xpc = "move" => late = Punctual
  /\ xpc \in {"smooth", "final"} => late.cmds \subseteq {ci}
  /\ \/ late = Punctual
     \/ \E c \in Nat : /\ late.cmds = {c}
                       /\ late.steps <= 1 \/ file[c].kind = "smooth"

\* A command of a file has the fields of a command.
LEMMA CommandType ==
  ASSUME file \in Files, ci \in 1..Len(file)
  PROVE  /\ file \in Seq(Command) /\ file[ci] \in Command
         /\ file[ci].n \in Nat /\ file[ci].speed \in Nat
<1>1. file \in Seq(Command)
  BY FilesAssumption
<1>2. file[ci] \in Command
  BY <1>1
<1> QED BY <1>1, <1>2 DEF Command

\* The speed of a smooth move's next step is a natural number.
LEMMA NextSpeedType ==
  ASSUME file \in Files, ci \in 1..Len(file), v \in Nat
  PROVE  NextSpeed \in Nat
<1>1. file[ci].speed \in Nat /\ Accel \in Nat
  BY CommandType, BoundsAssumption
<1>2. Capped(v + Accel) \in Nat
  BY <1>1 DEF Capped
<1>3. Braked(Capped(v + Accel)) \in Nat
  BY <1>1, <1>2 DEF Braked
<1> QED BY <1>2, <1>3 DEF NextSpeed

LEMMA RobotInit == RInit => RobotIInv /\ LateInv
<1> SUFFICES ASSUME RInit PROVE RobotIInv /\ LateInv
  OBVIOUS
<1>1. Len(file) \in Nat
  BY FilesAssumption DEF RInit
<1>2. Punctual \in [cmds: SUBSET (Nat \ {0}), steps: 0..2]
  BY DEF Punctual
<1>3. ci \in 1..Len(file) + 1 /\ err \in 0..MaxErr /\ keys \in 0..MaxKeys
  BY <1>1, BoundsAssumption DEF RInit
<1>4. late \in [cmds: SUBSET (Nat \ {0}), steps: 0..2]
  BY <1>2 DEF RInit
<1>5. flag \in 0..2 /\ rem \in Nat /\ v \in Nat /\ file \in Files
  BY DEF RInit
<1>6. RTypeOK
  BY <1>3, <1>4, <1>5 DEF RInit, RTypeOK
<1> QED BY <1>6 DEF RInit, RobotIInv, ExecInv, MoveInv, LateInv

LEMMA ArmStepType ==
  ASSUME RTypeOK, ci \in Nat \ {0}, ArmStep
  PROVE  /\ err' \in 0..MaxErr
         /\ late' \in [cmds: SUBSET (Nat \ {0}), steps: 0..2]
  BY DEF RTypeOK, ArmStep

\* No step of main() or of the user disturbs the invariant.
LEMMA RobotMain == RobotIInv /\ (Main \/ User) => RobotIInv'
<1> SUFFICES ASSUME RobotIInv, Main \/ User PROVE RobotIInv'
  OBVIOUS
<1> USE BoundsAssumption DEF RobotIInv, RTypeOK, ExecInv, MoveInv, MainGoto, execVars, Punctual
<1>1. CASE LoopTest BY <1>1 DEF LoopTest
<1>2. CASE SimTest BY <1>2 DEF SimTest
<1>3. CASE SimStep BY <1>3 DEF SimStep
<1>4. CASE Reached BY <1>4 DEF Reached
<1>5. CASE FlagTest BY <1>5 DEF FlagTest
<1>6. CASE DoneTest BY <1>6 DEF DoneTest
<1>7. CASE Join BY <1>7 DEF Join
<1>8. CASE StartThread BY <1>8 DEF StartThread
<1>9. CASE PollReturn BY <1>9 DEF PollReturn
<1>10. CASE ExitJoin BY <1>10 DEF ExitJoin
<1>11. CASE KeyS BY <1>11 DEF KeyS, Press
<1>12. CASE KeyJoint BY <1>12 DEF KeyJoint, Press
<1>13. CASE KeyG BY <1>13 DEF KeyG, Press
<1>14. CASE KeyI BY <1>14 DEF KeyI, Press
<1>15. CASE CloseWindow BY <1>15 DEF CloseWindow
<1> QED BY <1>1, <1>2, <1>3, <1>4, <1>5, <1>6, <1>7, <1>8, <1>9, <1>10, <1>11, <1>12,
           <1>13, <1>14, <1>15 DEF Main, User

\* Nor does a step of the thread.
LEMMA RobotThread == RobotIInv /\ Thread => RobotIInv'
<1> SUFFICES ASSUME RobotIInv, Thread PROVE RobotIInv'
  OBVIOUS
<1>a. Len(file) \in Nat
  BY FilesAssumption DEF RobotIInv, RTypeOK
<1>b. ci \in 1..Len(file) => file[ci].n \in Nat /\ NextSpeed \in Nat
  BY CommandType, NextSpeedType DEF RobotIInv, RTypeOK
<1> USE BoundsAssumption DEF RobotIInv, RTypeOK, ExecInv, MoveInv, ThreadGoto, mainVars
<1>1. CASE Parse BY <1>1, <1>a DEF Parse
<1>2. CASE BeginCommand
  <2>1. CASE ci > Len(file) \/ flag # 1
    BY <1>2, <2>1 DEF BeginCommand
  <2>2. CASE ~(ci > Len(file) \/ flag # 1)
    <3>1. ci \in 1..Len(file)
      BY <2>2, <1>a
    <3> DEFINE c == file[ci]
    <3>2. CASE c.kind = "unknown"
      BY SMTT(60), <1>2, <2>2, <3>2 DEF BeginCommand
    <3>3. CASE c.kind # "unknown" /\ (c.kind = "instant" \/ c.n = 0)
      BY SMTT(60), <1>2, <2>2, <3>1, <3>3, <1>a DEF BeginCommand
    <3>4. CASE c.kind # "unknown" /\ ~(c.kind = "instant" \/ c.n = 0)
      BY SMTT(60), <1>2, <2>2, <3>1, <3>4, <1>a, <1>b DEF BeginCommand
    <3> QED BY <3>2, <3>3, <3>4
  <2> QED BY <2>1, <2>2
<1>3. CASE CheckedLoad BY <1>3, <1>a DEF CheckedLoad
<1>4. CASE CheckedMove BY <1>4, <1>a, ArmStepType DEF CheckedMove
<1>5. CASE SmoothStep BY <1>5, <1>a, <1>b, ArmStepType DEF SmoothStep
<1>6. CASE SmoothEnd BY <1>6 DEF SmoothEnd
<1>7. CASE FinalMove BY <1>7, <1>a, ArmStepType DEF FinalMove
<1>8. CASE SetDone BY <1>8 DEF SetDone
<1>9. CASE CheckFlag BY <1>9 DEF CheckFlag
<1>10. CASE ClearFlag BY <1>10 DEF ClearFlag
<1> QED BY <1>1, <1>2, <1>3, <1>4, <1>5, <1>6, <1>7, <1>8, <1>9, <1>10 DEF Thread

LEMMA RobotStutter == RobotIInv /\ UNCHANGED rvars => RobotIInv'
  BY DEF RobotIInv, RTypeOK, ExecInv, MoveInv, rvars, execVars, mainVars

LEMMA RobotInductive == RSpec => []RobotIInv
<1>1. RInit => RobotIInv BY RobotInit
<1>2. RobotIInv /\ [RNext]_rvars => RobotIInv'
  BY RobotMain, RobotThread, RobotStutter DEF RNext
<1> QED BY <1>1, <1>2, PTL DEF RSpec

\* Every variable keeps its type: no move overshoots its end (moveLinearSmooth(),
\* GCodeExecutor.cpp 163) and no command beyond the last is read.
THEOREM RobotTypeCorrect == RSpec => []RTypeOK
<1>1. RobotIInv => RTypeOK BY DEF RobotIInv
<1> QED BY <1>1, RobotInductive, PTL

\* application.cpp 105-108: the G-code file is never executed by two threads.
THEOREM ExecutorIsAlone == RSpec => []OneExecutor
<1>1. RobotIInv => OneExecutor
  BY DEF RobotIInv, RTypeOK, ExecInv, OneExecutor
<1> QED BY <1>1, RobotInductive, PTL

-----------------------------------------------------------------------------
(* Late steps *)

\* A step of the arm keeps the late steps within one command.
LEMMA ArmStepLate ==
  ASSUME RobotIInv, LateInv, xpc \in {"move", "smooth", "final"}, ArmStep, UNCHANGED <<flag, file>>
  PROVE  /\ flag' = 1 => late' = Punctual
         /\ late'.cmds \subseteq {ci}
         /\ \/ late' = Punctual
            \/ \E c \in Nat : /\ late'.cmds = {c}
                              /\ late'.steps <= 1 \/ file'[c].kind = "smooth"
<1>1. CASE flag = 1
  BY <1>1 DEF LateInv, ArmStep, Punctual
<1>2. CASE flag # 1
  <2>1. late.cmds \subseteq {ci} /\ ci \in Nat
    BY DEF LateInv, RobotIInv, RTypeOK, Punctual
  <2>2. late'.cmds = {ci}
    BY <1>2, <2>1 DEF ArmStep
  <2>3. CASE xpc = "move"
    BY <1>2, <2>1, <2>2, <2>3 DEF ArmStep, LateInv, Punctual
  <2>4. CASE xpc \in {"smooth", "final"}
    BY <1>2, <2>1, <2>2, <2>4 DEF RobotIInv, MoveInv
  <2> QED BY <2>3, <2>4
<1> QED BY <1>1, <1>2

LEMMA LateMain == RobotIInv /\ LateInv /\ (Main \/ User) => LateInv'
<1> SUFFICES ASSUME RobotIInv, LateInv, Main \/ User PROVE LateInv'
  OBVIOUS
<1> USE DEF LateInv, MainGoto, execVars
<1>1. CASE LoopTest \/ SimTest \/ SimStep \/ FlagTest \/ DoneTest \/ PollReturn \/ ExitJoin
  BY <1>1 DEF LoopTest, SimTest, SimStep, FlagTest, DoneTest, PollReturn, ExitJoin
<1>2. CASE Reached BY <1>2 DEF Reached
<1>3. CASE Join \/ StartThread BY <1>3 DEF Join, StartThread
<1>4. CASE KeyS \/ KeyJoint BY <1>4 DEF KeyS, KeyJoint
<1>5. CASE KeyG \/ KeyI BY <1>5 DEF KeyG, KeyI, Punctual
<1>6. CASE CloseWindow BY <1>6 DEF CloseWindow
<1> QED BY <1>1, <1>2, <1>3, <1>4, <1>5, <1>6 DEF Main, User

LEMMA LateThread == RobotIInv /\ LateInv /\ Thread => LateInv'
<1> SUFFICES ASSUME RobotIInv, LateInv, Thread PROVE LateInv'
  OBVIOUS
<1> USE DEF ThreadGoto, mainVars
<1>1. CASE Parse \/ SetDone \/ CheckFlag \/ ClearFlag
  BY <1>1 DEF LateInv, Parse, SetDone, CheckFlag, ClearFlag
<1>2. CASE BeginCommand
  BY <1>2 DEF LateInv, BeginCommand, Punctual
<1>3. CASE CheckedLoad
  BY <1>3 DEF LateInv, CheckedLoad
<1>4. CASE CheckedMove
  BY <1>4, ArmStepLate DEF LateInv, CheckedMove
<1>5. CASE SmoothStep
  BY <1>5, ArmStepLate DEF LateInv, SmoothStep
<1>6. CASE SmoothEnd
  BY <1>6 DEF LateInv, SmoothEnd
<1>7. CASE FinalMove
  BY <1>7, ArmStepLate DEF LateInv, FinalMove
<1> QED BY <1>1, <1>2, <1>3, <1>4, <1>5, <1>6, <1>7 DEF Thread

\* GCodeExecutor.cpp 21, 112, 204, 232, 249: after key I the thread begins no
\* command and takes at most one step, unless it is in a smooth move.
THEOREM LateMoves == RSpec => []LateMove
<1>1. RInit => LateInv BY RobotInit
<1>2. RobotIInv /\ LateInv /\ UNCHANGED rvars => LateInv'
  BY DEF LateInv, rvars, execVars, mainVars
<1>3. RobotIInv /\ LateInv /\ [RNext]_rvars => LateInv'
  BY <1>2, LateMain, LateThread DEF RNext
<1>4. LateInv => LateMove
  <2> SUFFICES ASSUME LateInv PROVE LateMove
    OBVIOUS
  <2>1. CASE late = Punctual
    BY <2>1, FS_EmptySet DEF LateMove, Punctual
  <2>2. ASSUME NEW c \in Nat, late.cmds = {c}, late.steps <= 1 \/ file[c].kind = "smooth"
        PROVE  LateMove
    <3>1. Cardinality(late.cmds) = 1
      BY <2>2, FS_Singleton
    <3>2. c \in late.cmds
      BY <2>2
    <3> QED BY <2>2, <3>1, <3>2 DEF LateMove
  <2> QED BY <2>1, <2>2 DEF LateInv
<1> QED BY <1>1, <1>3, <1>4, RobotInductive, PTL DEF RSpec
=============================================================================
