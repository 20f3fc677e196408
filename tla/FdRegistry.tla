----------------------------- MODULE FdRegistry -----------------------------
(***************************************************************************)
(* SharedFileDescription and the lock-free StaticFileDescriptionRegistry   *)
(* that counts its copies (helper_cpp_v0.0.1/smart_file_description).      *)
(*                                                                         *)
(* The registry is an array of slots, each an atomic descriptor number (-1 *)
(* when free) and an atomic count.  A descriptor's home is its number      *)
(* modulo the number of slots; look-ups and claims probe linearly from     *)
(* there.  Threads construct, copy, move, reset and lock handles; one      *)
(* action is one atomic operation on a slot, one system call, or one       *)
(* operation on a mutex.                                                   *)
(*                                                                         *)
(* The atomics are taken as sequentially consistent.  A handle is not      *)
(* changed while another thread uses it: each is a C++ object that one     *)
(* thread constructs or resets at a time, and that others may only read.   *)
(***************************************************************************)
EXTENDS Integers, FiniteSets

CONSTANTS Threads,
          Handles,   \* the SharedFileDescription objects (a bound)
          Fds,       \* the numbers open() may return (a bound)
          RawFds,    \* those the program has opened itself, outside any handle
          CopyFds,   \* those whose handles it copies; the others it only moves
          WrapsRace, \* whether two threads may wrap one number at the same time
          MaxSlots,  \* the template parameter
          CountMod,  \* the counts are kept modulo this: the width of size_t
          NoThread   \* the holder of a free mutex

ASSUME SlotsAssumption == /\ MaxSlots \in Nat \ {0}
                          /\ Fds \subseteq Nat
                          /\ RawFds \subseteq Fds /\ CopyFds \subseteq Fds
                          /\ WrapsRace \in BOOLEAN
ASSUME CountModAssumption == /\ IsFiniteSet(Handles)
                             /\ CountMod \in Nat /\ CountMod > Cardinality(Handles)
ASSUME NoThreadAssumption == NoThread \notin Threads

VARIABLES slot,   \* the registry
          io,     \* who holds each slot's mutex; index MaxSlots: the fallback
          fdOf,   \* the _fd of each handle
          open,   \* the descriptors the kernel has open
          raw,    \* those of them that no handle has ever wrapped
          th      \* the operation each thread is in

vars == <<slot, io, fdOf, open, raw, th>>

NoFd == -1
ASSUME HandlesAssumption == NoFd \notin Handles

Slots == 0..MaxSlots - 1
Home(f) == f % MaxSlots
Idle == [pc |-> "idle", h |-> NoFd, src |-> NoFd, fd |-> NoFd, i |-> 0]

\* The slot i steps from the home of a descriptor, and the one a thread looks at.
Place(f, i) == (Home(f) + i) % MaxSlots
At(t) == Place(th[t].fd, th[t].i)

\* The place of a thread in its operation, the handle that the operation
\* constructs or resets, the one it reads, and the descriptor.
Pcs == {"idle", "scan", "incr", "probe", "store", "find", "decr", "clear", "close",
        "mutex", "lock", "session"}
Ops == [pc : Pcs,
        h : Handles \cup {NoFd}, src : Handles \cup {NoFd}, fd : Fds \cup {NoFd},
        i : 0..MaxSlots]

TypeOK ==
  /\ slot \in [Slots -> [fd : Fds \cup {NoFd}, cnt : 0..CountMod - 1]]
  /\ io \in [0..MaxSlots -> Threads \cup {NoThread}]
  /\ fdOf \in [Handles -> Fds \cup {NoFd}]
  /\ open \subseteq Fds /\ raw \subseteq open
  /\ th \in [Threads -> Ops]

Init == /\ slot = [s \in Slots |-> [fd |-> NoFd, cnt |-> 0]]
        /\ io = [s \in 0..MaxSlots |-> NoThread]
        /\ fdOf = [h \in Handles |-> NoFd]
        /\ open = RawFds /\ raw = RawFds
        /\ th = [t \in Threads |-> Idle]

-----------------------------------------------------------------------------
(* Steps of a thread *)

Goto(t, pc, i) ==
  th' = [th EXCEPT ![t] = [pc |-> pc, h |-> th[t].h, src |-> th[t].src, fd |-> th[t].fd, i |-> i]]
Start(t, pc, h, src, f) ==
  th' = [th EXCEPT ![t] = [pc |-> pc, h |-> h, src |-> src, fd |-> f, i |-> 0]]
Return(t) == th' = [th EXCEPT ![t] = Idle]
Write(s, f, n) == slot' = [slot EXCEPT ![s] = [fd |-> f, cnt |-> n]]

\* On to the next slot of the probe, or, after the last one, what follows.
Advance(t, done) == IF th[t].i + 1 < MaxSlots
                    THEN Goto(t, th[t].pc, th[t].i + 1)
                    ELSE done

\* No other thread changes the handle; none even reads it.
Stable(h) == \A t \in Threads : th[t].h # h
Unused(h) == Stable(h) /\ \A t \in Threads : th[t].src # h

-----------------------------------------------------------------------------
(* Constructors: obtain the descriptor, then retain() it *)

\* SharedFileDescription(LinuxArgs, ...): the kernel picks a number that is not
\* in use.  The conversion from UniqueFileDescription takes the same steps.
Open(t, h) == /\ th[t].pc = "idle"
              /\ fdOf[h] = NoFd /\ Unused(h)
              /\ \E f \in Fds \ open :
                    /\ open' = open \cup {f}
                    /\ fdOf' = [fdOf EXCEPT ![h] = f]
                    /\ Start(t, "scan", h, NoFd, f)
              /\ UNCHANGED <<slot, io, raw>>

\* SharedFileDescription(int fd): several handles may be made from one number,
\* the registry counts by number.  The caller keeps the descriptor from being
\* reset while it is being wrapped.
Retaining(u) == th[u].pc \in {"scan", "incr", "probe", "store"}
Releasing(u) == th[u].pc \in {"find", "decr", "clear", "close"}
Wrapping(f) == \E u \in Threads : Retaining(u) /\ th[u].fd = f /\ th[u].src = NoFd

Wrap(t, h) == /\ th[t].pc = "idle"
              /\ fdOf[h] = NoFd /\ Unused(h)
              /\ \E f \in RawFds \cap open :
                    /\ \A u \in Threads : ~(Releasing(u) /\ th[u].fd = f)
                    /\ WrapsRace \/ ~Wrapping(f)
                    /\ fdOf' = [fdOf EXCEPT ![h] = f]
                    /\ raw' = raw \ {f}
                    /\ Start(t, "scan", h, NoFd, f)
              /\ UNCHANGED <<slot, io, open>>

Copy(t, h, g) == /\ th[t].pc = "idle"
                 /\ fdOf[h] = NoFd /\ Unused(h)
                 /\ fdOf[g] \in CopyFds /\ Stable(g)
                 /\ fdOf' = [fdOf EXCEPT ![h] = fdOf[g]]
                 /\ Start(t, "scan", h, g, fdOf[g])
                 /\ UNCHANGED <<slot, io, open, raw>>

\* A move passes the share on and leaves the registry alone.
Move(t, h, g) == /\ th[t].pc = "idle"
                 /\ fdOf[h] = NoFd /\ Unused(h)
                 /\ fdOf[g] # NoFd /\ Unused(g)
                 /\ fdOf' = [fdOf EXCEPT ![h] = fdOf[g], ![g] = NoFd]
                 /\ UNCHANGED <<slot, io, open, raw, th>>

-----------------------------------------------------------------------------
(* retain() *)

\* Step 1, one load: the slot of the descriptor, a free slot that ends the
\* scan, or another descriptor's slot.
RetainScan(t) ==
  /\ th[t].pc = "scan"
  /\ LET f == slot[At(t)].fd
     IN \/ f = th[t].fd /\ Goto(t, "incr", th[t].i)
        \/ f = NoFd /\ Goto(t, "probe", 0)
        \/ f \notin {th[t].fd, NoFd} /\ Advance(t, Goto(t, "probe", 0))
  /\ UNCHANGED <<slot, io, fdOf, open, raw>>

RetainIncr(t) == /\ th[t].pc = "incr"
                 /\ Write(At(t), slot[At(t)].fd, (slot[At(t)].cnt + 1) % CountMod)
                 /\ Return(t)
                 /\ UNCHANGED <<io, fdOf, open, raw>>

\* Step 2, one compare-and-swap: claim a free slot, or find that another thread
\* has claimed it for the same descriptor.  With no slot left the descriptor is
\* not counted, and nobody is told.
RetainClaim(t) ==
  /\ th[t].pc = "probe"
  /\ LET f == slot[At(t)].fd
     IN \/ /\ f = NoFd
           /\ Write(At(t), th[t].fd, slot[At(t)].cnt)
           /\ Goto(t, "store", th[t].i)
        \/ f = th[t].fd /\ Goto(t, "incr", th[t].i) /\ UNCHANGED slot
        \/ f \notin {th[t].fd, NoFd} /\ Advance(t, Return(t)) /\ UNCHANGED slot
  /\ UNCHANGED <<io, fdOf, open, raw>>

\* The count of a claimed slot is stored after the claim.
RetainStore(t) == /\ th[t].pc = "store"
                  /\ Write(At(t), slot[At(t)].fd, 1)
                  /\ Return(t)
                  /\ UNCHANGED <<io, fdOf, open, raw>>

-----------------------------------------------------------------------------
(* reset(): release(), then close() if the count fell to zero *)

Reset(t, h) == /\ th[t].pc = "idle"
               /\ fdOf[h] # NoFd /\ Unused(h) /\ ~Wrapping(fdOf[h])
               /\ Start(t, "find", h, NoFd, fdOf[h])
               /\ UNCHANGED <<slot, io, fdOf, open, raw>>

\* _fd = -1, and the handle is empty.
Emptied(t) == fdOf' = [fdOf EXCEPT ![th[t].h] = NoFd] /\ Return(t)

\* Mutant: release() stops at a free slot, as retain() does.
ReleaseFind_StopsAtFree(t) ==
  /\ th[t].pc = "find"
  /\ IF slot[At(t)].fd = th[t].fd
     THEN Goto(t, "decr", th[t].i) /\ UNCHANGED fdOf
     ELSE IF slot[At(t)].fd # NoFd /\ th[t].i + 1 < MaxSlots
     THEN Goto(t, "find", th[t].i + 1) /\ UNCHANGED fdOf
     ELSE Emptied(t)
  /\ UNCHANGED <<slot, io, open, raw>>

ReleaseFind(t) ==
  /\ th[t].pc = "find"
  /\ IF slot[At(t)].fd = th[t].fd
     THEN Goto(t, "decr", th[t].i) /\ UNCHANGED fdOf
     ELSE IF th[t].i + 1 < MaxSlots
     THEN Goto(t, "find", th[t].i + 1) /\ UNCHANGED fdOf
     ELSE Emptied(t)
  /\ UNCHANGED <<slot, io, open, raw>>

\* Mutant: every release reports the last one.
ReleaseDecr_AlwaysLast(t) ==
  /\ th[t].pc = "decr"
  /\ Write(At(t), slot[At(t)].fd, (slot[At(t)].cnt + CountMod - 1) % CountMod)
  /\ Goto(t, "clear", th[t].i)
  /\ UNCHANGED <<io, fdOf, open, raw>>

ReleaseDecr(t) ==
  /\ th[t].pc = "decr"
  /\ Write(At(t), slot[At(t)].fd, (slot[At(t)].cnt + CountMod - 1) % CountMod)
  /\ IF slot[At(t)].cnt = 1
     THEN Goto(t, "clear", th[t].i) /\ UNCHANGED fdOf
     ELSE Emptied(t)
  /\ UNCHANGED <<io, open, raw>>

\* Mutant: the slot is freed and the descriptor is not closed.
ReleaseClear_NoClose(t) ==
  /\ th[t].pc = "clear"
  /\ Write(At(t), NoFd, slot[At(t)].cnt)
  /\ Emptied(t)
  /\ UNCHANGED <<io, open, raw>>

ReleaseClear(t) == /\ th[t].pc = "clear"
                   /\ Write(At(t), NoFd, slot[At(t)].cnt)
                   /\ Goto(t, "close", th[t].i)
                   /\ UNCHANGED <<io, fdOf, open, raw>>

Close(t) == /\ th[t].pc = "close"
            /\ open' = open \ {th[t].fd}
            /\ Emptied(t)
            /\ UNCHANGED <<slot, io, raw>>

-----------------------------------------------------------------------------
(* lock(): a session, under the mutex of the descriptor's slot *)

Lock(t, h) == /\ th[t].pc = "idle"
              /\ fdOf[h] # NoFd /\ Stable(h)
              /\ Start(t, "mutex", NoFd, h, fdOf[h])
              /\ UNCHANGED <<slot, io, fdOf, open, raw>>

\* Mutant: the mutexes are indexed by descriptor.
GetMutex_ByFd(t) ==
  /\ th[t].pc = "mutex"
  /\ Goto(t, "lock", th[t].fd)
  /\ UNCHANGED <<slot, io, fdOf, open, raw>>

\* get_mutex(): the slot's own mutex, or the fallback if there is no slot.
GetMutex(t) ==
  /\ th[t].pc = "mutex"
  /\ IF slot[At(t)].fd = th[t].fd
     THEN Goto(t, "lock", At(t))
     ELSE Advance(t, Goto(t, "lock", MaxSlots))
  /\ UNCHANGED <<slot, io, fdOf, open, raw>>

\* Mutant: the session adopts the mutex without locking it.
SessionBegin_Adopt(t) ==
  /\ th[t].pc = "lock"
  /\ io' = [io EXCEPT ![th[t].i] = t]
  /\ Goto(t, "session", th[t].i)
  /\ UNCHANGED <<slot, fdOf, open, raw>>

\* From here on th[t].i is the index of the mutex.
SessionBegin(t) == /\ th[t].pc = "lock"
                   /\ io[th[t].i] = NoThread
                   /\ io' = [io EXCEPT ![th[t].i] = t]
                   /\ Goto(t, "session", th[t].i)
                   /\ UNCHANGED <<slot, fdOf, open, raw>>

SessionEnd(t) == /\ th[t].pc = "session"
                 /\ io' = [io EXCEPT ![th[t].i] = NoThread]
                 /\ Return(t)
                 /\ UNCHANGED <<slot, fdOf, open, raw>>

-----------------------------------------------------------------------------
Begin(t) == \E h \in Handles : \/ Open(t, h) \/ Wrap(t, h)
                               \/ \E g \in Handles : Copy(t, h, g) \/ Move(t, h, g)
                               \/ Reset(t, h)
                               \/ Lock(t, h)

Continue(t) == \/ RetainScan(t) \/ RetainIncr(t) \/ RetainClaim(t) \/ RetainStore(t)
               \/ ReleaseFind(t) \/ ReleaseDecr(t) \/ ReleaseClear(t) \/ Close(t)
               \/ GetMutex(t) \/ SessionBegin(t) \/ SessionEnd(t)

Next == \E t \in Threads : Begin(t) \/ Continue(t)

\* A thread finishes the operation it has begun; it need not begin another.
\* Two threads can alternate on one slot's mutex for ever, so taking it is
\* fair only if the mutex is.
Fairness == \A t \in Threads : WF_vars(Continue(t))

Spec == Init /\ [][Next]_vars /\ Fairness

-----------------------------------------------------------------------------
(* Properties *)

\* The share of a handle is in the count, or about to be: the handle has a
\* descriptor and its reset(), if one is under way, has not decremented yet.
GivenUp(h) == \E t \in Threads : th[t].h = h /\ th[t].pc \in {"clear", "close"}
Owns(h) == fdOf[h] # NoFd /\ ~GivenUp(h)
Counting(h) == \E t \in Threads : th[t].h = h /\ Retaining(t)

\* A constructed handle is registered, and the count of a slot is the number of
\* finished copies of its descriptor, but for the moment between the claim of the
\* slot and the first store.
CountIsExact ==
  /\ \A h \in Handles : Owns(h) /\ ~Counting(h) => \E s \in Slots : slot[s].fd = fdOf[h]
  /\ \A s \in Slots :
       slot[s].fd # NoFd
         => \/ slot[s].cnt = Cardinality({h \in Handles : /\ fdOf[h] = slot[s].fd
                                                          /\ Owns(h) /\ ~Counting(h)})
            \/ \E t \in Threads : th[t].pc = "store" /\ At(t) = s

\* close() is called on no descriptor that a handle still owns.
NeverClosedWhileOwned == \A h \in Handles : Owns(h) => fdOf[h] \in open

\* Two sessions on one descriptor exclude each other, whichever handles the
\* threads went through.
SessionsExclude ==
  \A t, u \in Threads : th[t].pc = "session" /\ th[u].pc = "session" /\ t # u
                          => th[t].fd # th[u].fd

\* The handles own and close descriptors as SharedDescriptor says.
Abstract == INSTANCE SharedDescriptor
              WITH own <- [h \in Handles |-> IF Owns(h) THEN fdOf[h] ELSE NoFd],
                   open <- open \ raw
ImplementsSharedDescriptor == Abstract!SSpec
=============================================================================
