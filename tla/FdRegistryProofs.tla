-------------------------- MODULE FdRegistryProofs --------------------------
(***************************************************************************)
(* The safety properties of FdRegistry, for any threads, handles and       *)
(* descriptors within the limits of the registry, and that it implements   *)
(* SharedDescriptor.                                                       *)
(***************************************************************************)
EXTENDS FdRegistry, FiniteSetTheorems, TLAPS

-----------------------------------------------------------------------------
(* The limits *)

\* Descriptors that several handles may share.
Shared == CopyFds \cup RawFds

\* Two descriptors that collide.
Twins(f, g) == f # g /\ Home(f) = Home(g)

\* No two threads wrap one number at once.  A shared descriptor does not collide
\* with any other, and where two others do, the next slot is nobody's home.  The
\* second part holds whenever all numbers are below the number of slots.
Roomy == /\ ~WrapsRace
         /\ \A f, g \in Fds :
              Twins(f, g) => /\ f \notin Shared /\ MaxSlots > 1
                             /\ \A e \in Fds : Home(e) # Place(f, 1)
                             /\ \A e \in Fds : Twins(f, e) => e = g

-----------------------------------------------------------------------------
(* The inductive invariant, part by part *)

\* Handles and descriptors: what a thread's program counter says of its handle.
Frames ==
  \A t \in Threads :
    /\ th[t].pc = "idle" => th[t].h = NoFd /\ th[t].src = NoFd
    /\ Retaining(t) \/ Releasing(t) => th[t].h \in Handles /\ fdOf[th[t].h] = th[t].fd
    /\ Retaining(t) /\ th[t].src # NoFd
         => fdOf[th[t].src] = th[t].fd /\ th[t].fd \in CopyFds /\ th[t].pc \in {"scan", "incr"}
    /\ Releasing(t) => th[t].src = NoFd
    /\ th[t].pc \in {"mutex", "lock", "session"}
         => th[t].h = NoFd /\ th[t].src \in Handles /\ fdOf[th[t].src] = th[t].fd
    /\ th[t].pc # "idle" => th[t].fd \in Fds

\* A handle that is constructed or reset is used by one thread.
Exclusive ==
  \A t, u \in Threads :
    th[t].h # NoFd => th[u].src # th[t].h /\ (t # u => th[u].h # th[t].h)

\* No descriptor is closed under a handle, none is left open without one, and what
\* is not shared has a single one.
Held == /\ raw \subseteq RawFds
        /\ \A h \in Handles : fdOf[h] # NoFd => fdOf[h] \in open \ raw
        /\ \A f \in open \ raw : \E h \in Handles : fdOf[h] = f
        /\ \A h, g \in Handles : h # g /\ fdOf[h] # NoFd /\ fdOf[h] = fdOf[g] => fdOf[h] \in Shared

\* While a descriptor is opened or wrapped, nobody releases it or wraps it again.
First(t) == Retaining(t) /\ th[t].src = NoFd
FirstAlone ==
  \A t, u \in Threads :
    First(t) /\ t # u /\ th[u].fd = th[t].fd => ~Releasing(u) /\ ~First(u)

\* Whoever claims a slot or gives it up has the only handle.
Solitary ==
  \A t \in Threads :
    th[t].pc \in {"probe", "store", "clear", "close"}
      => \A h \in Handles : fdOf[h] = th[t].fd => h = th[t].h

\* A descriptor in the registry has a handle, one slot, and that at its home or,
\* if it collides, in the next one.
InTable(f) == \E s \in Slots : slot[s].fd = f
Zone(f) == {s \in Slots : s = Home(f) \/ (s = Place(f, 1) /\ \E g \in Fds : Twins(f, g))}
Placed ==
  \A s \in Slots :
    slot[s].fd # NoFd
      => /\ s \in Zone(slot[s].fd)
         /\ \A r \in Slots : slot[r].fd = slot[s].fd => r = s
         /\ \E h \in Handles : fdOf[h] = slot[s].fd

\* How far a probe has come, and what it has seen.
Climbs(t) == th[t].pc \in {"scan", "probe"} /\ th[t].i = 1
Path(t) ==
  /\ th[t].pc \in {"scan", "probe", "incr", "store", "decr", "clear", "find", "mutex"}
       => th[t].i \in {0, 1}
  /\ th[t].pc \in {"probe", "close"} \/ (th[t].pc = "scan" /\ th[t].fd \notin Shared)
       => ~InTable(th[t].fd)
  /\ Climbs(t) => slot[At(t)].fd = NoFd /\ \E g \in Fds : Twins(th[t].fd, g)
  /\ th[t].pc \in {"incr", "store", "decr", "clear"} => slot[At(t)].fd = th[t].fd
  /\ th[t].pc \in {"find", "mutex"} /\ th[t].i = 1 => slot[Home(th[t].fd)].fd # th[t].fd
  /\ th[t].pc \in {"lock", "session"} => th[t].i \in Slots /\ slot[th[t].i].fd = th[t].fd
  /\ th[t].pc = "session" => io[th[t].i] = t
NoClash == \A t, u \in Threads : Climbs(t) /\ Climbs(u) => ~Twins(th[t].fd, th[u].fd)

\* A handle is in a count, unless it is under construction or given up; nothing
\* is counted that is not in the table, and counts are right but for a claimed slot.
Busy(h) ==
  \E t \in Threads :
    th[t].h = h /\ th[t].pc \in {"scan", "incr", "probe", "store", "clear", "close"}
Shares(f) == {h \in Handles : fdOf[h] = f /\ ~Busy(h)}
Registered == \A h \in Handles : fdOf[h] # NoFd /\ ~Busy(h) => InTable(fdOf[h])
Storing(s) == \E t \in Threads : th[t].pc = "store" /\ At(t) = s
Counted ==
  \A s \in Slots :
    slot[s].fd # NoFd /\ ~Storing(s) => slot[s].cnt = Cardinality(Shares(slot[s].fd))

Handled == Frames /\ Exclusive /\ Held /\ FirstAlone /\ Solitary
Tabled == Placed /\ (\A t \in Threads : Path(t)) /\ NoClash /\ Registered /\ Counted
IInv == TypeOK /\ Handled /\ Tabled

-----------------------------------------------------------------------------
(* Slots *)

LEMMA ModStep ==
  ASSUME NEW n \in Nat \ {0}, NEW x \in 0..n - 1
  PROVE  (x + 1) % n = IF x = n - 1 THEN 0 ELSE x + 1
  OBVIOUS

LEMMA ModSmall ==
  ASSUME NEW n \in Nat \ {0}, NEW x \in 0..n - 1
  PROVE  x % n = x
  OBVIOUS

LEMMA ModOnceOver ==
  ASSUME NEW n \in Nat \ {0}, NEW x \in n..2 * n - 1
  PROVE  x % n = x - n
  OBVIOUS

LEMMA HomeIsSlot ==
  ASSUME NEW f \in Fds
  PROVE  Home(f) \in Slots
<1>1. f \in Nat /\ MaxSlots \in Nat \ {0}
  BY SlotsAssumption
<1>2. f % MaxSlots \in 0..MaxSlots - 1
  BY <1>1
<1> QED
  BY <1>2 DEF Home, Slots

LEMMA PlaceIsSlot ==
  ASSUME NEW f \in Fds, NEW i \in Nat
  PROVE  Place(f, i) \in Slots
<1>1. Home(f) + i \in Nat /\ MaxSlots \in Nat \ {0}
  BY HomeIsSlot, SlotsAssumption DEF Slots
<1>2. (Home(f) + i) % MaxSlots \in 0..MaxSlots - 1
  BY <1>1
<1> QED
  BY <1>2 DEF Place, Slots

LEMMA PlaceZero ==
  ASSUME NEW f \in Fds
  PROVE  Place(f, 0) = Home(f)
<1>1. Home(f) \in 0..MaxSlots - 1 /\ MaxSlots \in Nat \ {0}
  BY HomeIsSlot, SlotsAssumption DEF Slots
<1>2. (Home(f) + 0) % MaxSlots = Home(f)
  BY <1>1
<1> QED
  BY <1>2 DEF Place

\* The next slots of different homes are different.
LEMMA PlaceOne ==
  ASSUME NEW f \in Fds, NEW g \in Fds, Place(f, 1) = Place(g, 1)
  PROVE  Home(f) = Home(g)
<1>1. /\ Home(f) \in 0..MaxSlots - 1 /\ Home(g) \in 0..MaxSlots - 1
      /\ MaxSlots \in Nat \ {0}
  BY HomeIsSlot, SlotsAssumption DEF Slots
<1>2. /\ (Home(f) + 1) % MaxSlots = IF Home(f) = MaxSlots - 1 THEN 0 ELSE Home(f) + 1
      /\ (Home(g) + 1) % MaxSlots = IF Home(g) = MaxSlots - 1 THEN 0 ELSE Home(g) + 1
  BY <1>1, ModStep
<1>3. (Home(f) + 1) % MaxSlots = (Home(g) + 1) % MaxSlots
  BY DEF Place
<1> QED
  BY <1>1, <1>2, <1>3

\* Only two that collide can want the same slot.
LEMMA ZonesApart ==
  ASSUME Roomy, NEW f \in Fds, NEW g \in Fds, NEW s \in Slots,
         s \in Zone(f), s \in Zone(g), f # g
  PROVE  Twins(f, g)
<1>1. CASE Home(f) = Home(g)
  BY <1>1 DEF Twins
<1>2. CASE s = Place(f, 1) /\ s = Place(g, 1)
  BY <1>2, PlaceOne DEF Twins
<1>3. ASSUME NEW a \in Fds, NEW b \in Fds, NEW e \in Fds, Twins(b, e)
      PROVE  Home(a) # Place(b, 1)
  BY <1>3 DEF Roomy
<1> QED
  BY <1>1, <1>2, <1>3 DEF Zone

-----------------------------------------------------------------------------
(* Steps of a thread *)

LEMMA UpdateType ==
  ASSUME NEW S, NEW T, NEW f \in [S -> T], NEW x \in S, NEW y \in T
  PROVE  /\ [f EXCEPT ![x] = y] \in [S -> T]
         /\ [f EXCEPT ![x] = y][x] = y
         /\ \A z \in S \ {x} : [f EXCEPT ![x] = y][z] = f[z]
  OBVIOUS

\* The thread's operation becomes r, those of the others stay.
Becomes(t, pc, h, src, f, i) ==
  /\ th' \in [Threads -> Ops]
  /\ th'[t].pc = pc /\ th'[t].h = h /\ th'[t].src = src /\ th'[t].fd = f /\ th'[t].i = i
  /\ \A u \in Threads \ {t} : th'[u] = th[u]

LEMMA SetBecomes ==
  ASSUME th \in [Threads -> Ops], NEW t \in Threads, NEW pc \in Pcs,
         NEW h \in Handles \cup {NoFd}, NEW src \in Handles \cup {NoFd},
         NEW f \in Fds \cup {NoFd}, NEW i \in 0..MaxSlots,
         th' = [th EXCEPT ![t] = [pc |-> pc, h |-> h, src |-> src, fd |-> f, i |-> i]]
  PROVE  Becomes(t, pc, h, src, f, i)
<1> DEFINE r == [pc |-> pc, h |-> h, src |-> src, fd |-> f, i |-> i]
<1>1. r \in Ops
  BY DEF Ops, Pcs
<1>2. /\ r.pc = pc /\ r.h = h /\ r.src = src /\ r.fd = f /\ r.i = i
  OBVIOUS
<1> HIDE DEF r
<1>3. /\ th' \in [Threads -> Ops] /\ th'[t] = r
      /\ \A u \in Threads \ {t} : th'[u] = th[u]
  BY <1>1, UpdateType DEF r
<1> QED
  BY <1>2, <1>3 DEF Becomes

LEMMA ThreadType ==
  ASSUME TypeOK, NEW t \in Threads
  PROVE  /\ th[t].pc \in Pcs
         /\ th[t].h \in Handles \cup {NoFd} /\ th[t].src \in Handles \cup {NoFd}
         /\ th[t].fd \in Fds \cup {NoFd} /\ th[t].i \in 0..MaxSlots
<1>1. th[t] \in Ops
  BY DEF TypeOK
<1> QED
  BY <1>1 DEF Ops, Pcs

LEMMA GotoBecomes ==
  ASSUME TypeOK, NEW t \in Threads, NEW pc \in Pcs, NEW i \in 0..MaxSlots, Goto(t, pc, i)
  PROVE  Becomes(t, pc, th[t].h, th[t].src, th[t].fd, i)
<1>1. th \in [Threads -> Ops]
  BY DEF TypeOK
<1> QED
  BY <1>1, ThreadType, SetBecomes DEF Goto

LEMMA StartBecomes ==
  ASSUME TypeOK, NEW t \in Threads, NEW pc \in Pcs, NEW h \in Handles \cup {NoFd},
         NEW src \in Handles \cup {NoFd}, NEW f \in Fds, Start(t, pc, h, src, f)
  PROVE  Becomes(t, pc, h, src, f, 0)
<1>1. th \in [Threads -> Ops]
  BY DEF TypeOK
<1>2. 0 \in 0..MaxSlots
  BY SlotsAssumption
<1> QED
  BY <1>1, <1>2, SetBecomes DEF Start

LEMMA ReturnBecomes ==
  ASSUME TypeOK, NEW t \in Threads, Return(t)
  PROVE  Becomes(t, "idle", NoFd, NoFd, NoFd, 0)
<1>1. th \in [Threads -> Ops]
  BY DEF TypeOK
<1>2. 0 \in 0..MaxSlots /\ "idle" \in Pcs
  BY SlotsAssumption DEF Pcs
<1> QED
  BY <1>1, <1>2, SetBecomes DEF Return, Idle

LEMMA WriteSlot ==
  ASSUME TypeOK, NEW s \in Slots, NEW f \in Fds \cup {NoFd}, NEW n \in 0..CountMod - 1,
         Write(s, f, n)
  PROVE  /\ slot' \in [Slots -> [fd : Fds \cup {NoFd}, cnt : 0..CountMod - 1]]
         /\ slot'[s].fd = f /\ slot'[s].cnt = n
         /\ \A r \in Slots \ {s} : slot'[r] = slot[r]
<1> DEFINE e == [fd |-> f, cnt |-> n]
<1>1. e \in [fd : Fds \cup {NoFd}, cnt : 0..CountMod - 1] /\ e.fd = f /\ e.cnt = n
  OBVIOUS
<1> HIDE DEF e
<1>2. /\ slot' \in [Slots -> [fd : Fds \cup {NoFd}, cnt : 0..CountMod - 1]]
      /\ slot'[s] = e
      /\ \A r \in Slots \ {s} : slot'[r] = slot[r]
  BY <1>1, UpdateType DEF TypeOK, Write, e
<1> QED
  BY <1>1, <1>2

-----------------------------------------------------------------------------
(* What threads and handles know of each other *)

Only(t) == \A h \in Handles : fdOf[h] = th[t].fd => h = th[t].h

\* A step within one operation.
LEMMA MoveOn ==
  ASSUME TypeOK, Handled, NEW t \in Threads, NEW pc \in Pcs, NEW i \in 0..MaxSlots,
         Becomes(t, pc, th[t].h, th[t].src, th[t].fd, i), UNCHANGED <<fdOf, open, raw>>,
         \/ Retaining(t) /\ pc \in {"scan", "incr", "probe", "store"}
         \/ Releasing(t) /\ pc \in {"find", "decr", "clear", "close"}
         \/ th[t].pc \in {"mutex", "lock", "session"} /\ pc \in {"mutex", "lock", "session"},
         pc \in {"probe", "store"} => th[t].src = NoFd,
         pc \in {"probe", "store", "clear", "close"} => Only(t)
  PROVE  Handled'
<1>1. \A u \in Threads : /\ th'[u].h = th[u].h /\ th'[u].src = th[u].src /\ th'[u].fd = th[u].fd
                         /\ u # t => th'[u].pc = th[u].pc
  BY DEF Becomes
<1>2. th'[t].pc = pc
  BY DEF Becomes
<1>3. \A u \in Threads : /\ Retaining(u)' <=> Retaining(u)
                         /\ Releasing(u)' <=> Releasing(u)
                         /\ First(u)' <=> First(u)
  BY <1>1, <1>2 DEF Retaining, Releasing, First
<1>4. Frames'
  BY <1>1, <1>2, <1>3 DEF Handled, Frames, Retaining, Releasing
<1>5. Exclusive'
  BY <1>1 DEF Handled, Exclusive
<1>6. Held'
  BY DEF Handled, Held
<1>7. FirstAlone'
  BY <1>1, <1>3 DEF Handled, FirstAlone
<1>8. Solitary'
  BY <1>1, <1>2 DEF Handled, Solitary, Only
<1> QED
  BY <1>4, <1>5, <1>6, <1>7, <1>8 DEF Handled

\* The end of an operation that leaves its handle as it is.
LEMMA ReturnFrom ==
  ASSUME TypeOK, Handled, NEW t \in Threads, Return(t), UNCHANGED <<fdOf, open, raw>>
  PROVE  Handled'
<1>1. /\ th'[t].pc = "idle" /\ th'[t].h = NoFd /\ th'[t].src = NoFd
      /\ \A u \in Threads \ {t} : th'[u] = th[u]
  BY ReturnBecomes DEF Becomes
<1>2. /\ ~Retaining(t)' /\ ~Releasing(t)' /\ ~First(t)'
      /\ \A u \in Threads \ {t} : /\ Retaining(u)' <=> Retaining(u)
                                  /\ Releasing(u)' <=> Releasing(u)
                                  /\ First(u)' <=> First(u)
  BY <1>1 DEF Retaining, Releasing, First
<1>3. Frames'
  BY <1>1, <1>2 DEF Handled, Frames
<1>4. Exclusive'
  BY <1>1, HandlesAssumption, ThreadType DEF Handled, Exclusive
<1>5. Held'
  BY DEF Handled, Held
<1>6. FirstAlone'
  BY <1>1, <1>2 DEF Handled, FirstAlone
<1>7. Solitary'
  BY <1>1 DEF Handled, Solitary
<1> QED
  BY <1>3, <1>4, <1>5, <1>6, <1>7 DEF Handled

\* The end of a reset: another handle remains, or the descriptor is closed.
LEMMA EmptyHandle ==
  ASSUME TypeOK, Handled, NEW t \in Threads, Emptied(t), Releasing(t), UNCHANGED raw,
         \/ /\ UNCHANGED open
            /\ \E h \in Handles \ {th[t].h} : fdOf[h] = th[t].fd
         \/ open' = open \ {th[t].fd} /\ Only(t)
  PROVE  Handled'
<1>1. /\ th'[t].pc = "idle" /\ th'[t].h = NoFd /\ th'[t].src = NoFd
      /\ \A u \in Threads \ {t} : th'[u] = th[u]
  BY ReturnBecomes DEF Becomes, Emptied
<1>2. /\ ~Retaining(t)' /\ ~Releasing(t)' /\ ~First(t)'
      /\ \A u \in Threads \ {t} : /\ Retaining(u)' <=> Retaining(u)
                                  /\ Releasing(u)' <=> Releasing(u)
                                  /\ First(u)' <=> First(u)
  BY <1>1 DEF Retaining, Releasing, First
<1>3. th[t].h \in Handles /\ fdOf[th[t].h] = th[t].fd /\ th[t].fd \in Fds /\ th[t].h # NoFd
  BY HandlesAssumption DEF Handled, Frames, Releasing
<1>4. /\ fdOf'[th[t].h] = NoFd
      /\ \A h \in Handles \ {th[t].h} : fdOf'[h] = fdOf[h]
  BY <1>3, UpdateType DEF Emptied, TypeOK
<1>5. \A u \in Threads \ {t} : th[u].h # th[t].h /\ th[u].src # th[t].h
  BY <1>3 DEF Handled, Exclusive
<1>6. Frames'
  <2>1. Frames!(t)'
    BY <1>1, <1>2 DEF Frames
  <2>2. ASSUME NEW u \in Threads \ {t}
        PROVE  Frames!(u)'
    <3>1. Frames!(u)
      BY DEF Handled, Frames
    <3>2. /\ th[u].h \in Handles => fdOf'[th[u].h] = fdOf[th[u].h]
          /\ th[u].src \in Handles => fdOf'[th[u].src] = fdOf[th[u].src]
      BY <1>4, <1>5
    <3>3. th[u].src \in Handles \cup {NoFd}
      BY ThreadType
    <3> QED
      BY <1>1, <1>2, <3>1, <3>2, <3>3
  <2> QED
    BY <2>1, <2>2 DEF Frames
<1>7. Exclusive'
  BY <1>1, <1>5, ThreadType DEF Handled, Exclusive
<1>8. Held'
  <2>1. raw' \subseteq RawFds
    BY DEF Handled, Held
  <2>2. \A h \in Handles : fdOf'[h] # NoFd => fdOf'[h] \in open' \ raw'
    BY <1>4 DEF Handled, Held, Only
  <2>3. \A f \in open' \ raw' : \E h \in Handles : fdOf'[h] = f
    BY <1>3, <1>4 DEF Handled, Held
  <2>4. \A h, g \in Handles : h # g /\ fdOf'[h] # NoFd /\ fdOf'[h] = fdOf'[g] => fdOf'[h] \in Shared
    BY <1>4 DEF Handled, Held
  <2> QED
    BY <2>1, <2>2, <2>3, <2>4 DEF Held
<1>9. FirstAlone'
  BY <1>1, <1>2 DEF Handled, FirstAlone
<1>10. Solitary'
  <2>1. \A u \in Threads \ {t} : th[u].pc \in {"probe", "store", "clear", "close"} => th[u].fd \in Fds
    BY DEF Handled, Frames
  <2> QED
    BY <1>1, <1>4, <2>1, SlotsAssumption DEF Handled, Solitary, NoFd
<1> QED
  BY <1>6, <1>7, <1>8, <1>9, <1>10 DEF Handled

\* A handle is constructed: the descriptor is new, or wrapped, or another's.
Obtains(t, h, src, f) ==
  /\ th[t].pc = "idle" /\ fdOf[h] = NoFd /\ Unused(h)
  /\ fdOf' = [fdOf EXCEPT ![h] = f]
  /\ Start(t, "scan", h, src, f)
  /\ open' \ raw' = (open \ raw) \cup {f} /\ raw' \subseteq raw
  /\ UNCHANGED <<slot, io>>
  /\ f \notin Shared => \A g \in Handles : fdOf[g] # f
  /\ src = NoFd => \A u \in Threads : th[u].fd = f => ~Releasing(u) /\ ~First(u)
  /\ src # NoFd => src # h /\ fdOf[src] = f /\ f \in CopyFds /\ Stable(src)
  /\ \A u \in Threads : th[u].pc \in {"probe", "store", "clear", "close"} => th[u].fd # f

LEMMA OpenObtains ==
  ASSUME TypeOK, Handled, NEW t \in Threads, NEW h \in Handles, Open(t, h)
  PROVE  \E f \in Fds \ open : /\ Obtains(t, h, NoFd, f)
                               /\ open' = open \cup {f} /\ UNCHANGED raw
<1>1. PICK f \in Fds \ open : /\ open' = open \cup {f}
                              /\ fdOf' = [fdOf EXCEPT ![h] = f]
                              /\ Start(t, "scan", h, NoFd, f)
  BY DEF Open
<1>2. \A g \in Handles : fdOf[g] # f
  BY SlotsAssumption DEF Handled, Held, NoFd
<1>3. \A u \in Threads : Retaining(u) \/ Releasing(u) => th[u].fd # f
  BY <1>2 DEF Handled, Frames
<1>4. Obtains(t, h, NoFd, f)
  BY <1>1, <1>2, <1>3 DEF Obtains, Open, TypeOK, Retaining, Releasing, First
<1> QED
  BY <1>1, <1>4 DEF Open

LEMMA WrapObtains ==
  ASSUME Roomy, TypeOK, Handled, NEW t \in Threads, NEW h \in Handles, Wrap(t, h)
  PROVE  \E f \in Fds : Obtains(t, h, NoFd, f) /\ f \in RawFds \cap open
                          /\ UNCHANGED open /\ raw' = raw \ {f}
                          /\ \A u \in Threads : ~(Releasing(u) /\ th[u].fd = f)
<1>1. PICK f \in RawFds \cap open : /\ \A u \in Threads : ~(Releasing(u) /\ th[u].fd = f)
                                    /\ ~Wrapping(f)
                                    /\ fdOf' = [fdOf EXCEPT ![h] = f]
                                    /\ raw' = raw \ {f}
                                    /\ Start(t, "scan", h, NoFd, f)
  BY DEF Wrap, Roomy
<1>2. f \in Fds /\ f \in Shared
  BY SlotsAssumption DEF Shared
<1>3. \A u \in Threads : th[u].fd = f => ~Releasing(u) /\ ~First(u)
  BY <1>1 DEF Wrapping, First
<1>4. \A u \in Threads : th[u].pc \in {"probe", "store"} => First(u)
  BY ThreadType DEF Handled, Frames, First, Retaining
<1>5. \A u \in Threads : th[u].pc \in {"probe", "store", "clear", "close"} => th[u].fd # f
  BY <1>3, <1>4 DEF Releasing
<1>6. Obtains(t, h, NoFd, f)
  BY <1>1, <1>2, <1>3, <1>5 DEF Obtains, Wrap, TypeOK
<1> QED
  BY <1>1, <1>2, <1>6 DEF Wrap

LEMMA CopyObtains ==
  ASSUME TypeOK, Handled, NEW t \in Threads, NEW h \in Handles, NEW g \in Handles, Copy(t, h, g)
  PROVE  Obtains(t, h, g, fdOf[g]) /\ fdOf[g] \in Fds /\ UNCHANGED <<open, raw>>
<1>1. fdOf[g] \in Fds /\ fdOf[g] # NoFd
  BY SlotsAssumption DEF Copy, NoFd
<1>2. g # NoFd /\ g # h
  BY <1>1, HandlesAssumption DEF Copy
<1>3. \A u \in Threads : th[u].pc \in {"probe", "store", "clear", "close"} => th[u].fd # fdOf[g]
  BY DEF Copy, Stable, Handled, Solitary
<1>4. open \ raw = (open \ raw) \cup {fdOf[g]}
  BY <1>1 DEF Handled, Held
<1> QED
  BY <1>1, <1>2, <1>3, <1>4 DEF Copy, Obtains, Shared

LEMMA ObtainsBecomes ==
  ASSUME TypeOK, NEW t \in Threads, NEW h \in Handles, NEW src \in Handles \cup {NoFd},
         NEW f \in Fds, Obtains(t, h, src, f)
  PROVE  /\ Becomes(t, "scan", h, src, f, 0)
         /\ fdOf' \in [Handles -> Fds \cup {NoFd}] /\ fdOf'[h] = f
         /\ \A g \in Handles \ {h} : fdOf'[g] = fdOf[g]
<1>1. "scan" \in Pcs /\ h \in Handles \cup {NoFd} /\ f \in Fds \cup {NoFd}
  BY DEF Pcs
<1>2. Becomes(t, "scan", h, src, f, 0)
  BY <1>1, StartBecomes DEF Obtains
<1>3. fdOf \in [Handles -> Fds \cup {NoFd}]
  BY DEF TypeOK
<1> QED
  BY <1>1, <1>2, <1>3, UpdateType DEF Obtains

LEMMA ObtainsHandled ==
  ASSUME TypeOK, Handled, NEW t \in Threads, NEW h \in Handles, NEW src \in Handles \cup {NoFd},
         NEW f \in Fds, Obtains(t, h, src, f)
  PROVE  Handled'
<1>1. /\ th'[t].pc = "scan" /\ th'[t].h = h /\ th'[t].src = src /\ th'[t].fd = f
      /\ \A u \in Threads \ {t} : th'[u] = th[u]
      /\ fdOf'[h] = f
      /\ \A g \in Handles \ {h} : fdOf'[g] = fdOf[g]
  BY ObtainsBecomes DEF Becomes
<1>2. /\ Retaining(t)' /\ ~Releasing(t)' /\ (First(t)' <=> src = NoFd)
      /\ \A u \in Threads \ {t} : /\ Retaining(u)' <=> Retaining(u)
                                  /\ Releasing(u)' <=> Releasing(u)
                                  /\ First(u)' <=> First(u)
  BY <1>1 DEF Retaining, Releasing, First
<1>3. /\ fdOf[h] = NoFd /\ h # NoFd
      /\ \A u \in Threads : th[u].h # h /\ th[u].src # h
      /\ th[t].pc = "idle" /\ th[t].h = NoFd
  BY HandlesAssumption DEF Obtains, Unused, Stable, Handled, Frames
<1>4. Frames'
  <2>1. Frames!(t)'
    BY <1>1, <1>2, ThreadType DEF Obtains
  <2>2. ASSUME NEW u \in Threads \ {t}
        PROVE  Frames!(u)'
    <3>1. Frames!(u)
      BY DEF Handled, Frames
    <3>2. /\ th[u].h \in Handles => fdOf'[th[u].h] = fdOf[th[u].h]
          /\ th[u].src \in Handles => fdOf'[th[u].src] = fdOf[th[u].src]
      BY <1>1, <1>3
    <3>3. th[u].src \in Handles \cup {NoFd}
      BY ThreadType
    <3> QED
      BY <1>1, <1>2, <3>1, <3>2, <3>3
  <2> QED
    BY <2>1, <2>2 DEF Frames
<1>5. Exclusive'
  <2>1. src # h /\ (src # NoFd => \A u \in Threads : th[u].h # src)
    BY <1>3 DEF Obtains, Stable
  <2> QED
    BY <1>1, <1>3, <2>1 DEF Handled, Exclusive
<1>6. Held'
  <2>1. raw' \subseteq RawFds
    BY DEF Handled, Held, Obtains
  <2>2. \A g \in Handles : fdOf'[g] # NoFd => fdOf'[g] \in open' \ raw'
    BY <1>1 DEF Handled, Held, Obtains
  <2>3. \A e \in open' \ raw' : \E g \in Handles : fdOf'[g] = e
    <3> SUFFICES ASSUME NEW e \in open' \ raw'
                 PROVE  \E g \in Handles : fdOf'[g] = e
      OBVIOUS
    <3>1. CASE e = f
      BY <1>1, <3>1
    <3>2. CASE e # f
      <4>1. e \in open \ raw /\ e # NoFd
        BY <3>2, SlotsAssumption DEF Obtains, TypeOK, NoFd
      <4>2. PICK g \in Handles : fdOf[g] = e
        BY <4>1 DEF Handled, Held
      <4>3. g # h
        BY <4>1, <4>2, <1>3
      <4> QED
        BY <1>1, <4>2, <4>3
    <3> QED
      BY <3>1, <3>2
  <2>4. \A g, e \in Handles : g # e /\ fdOf'[g] # NoFd /\ fdOf'[g] = fdOf'[e] => fdOf'[g] \in Shared
    BY <1>1 DEF Handled, Held, Obtains
  <2> QED
    BY <2>1, <2>2, <2>3, <2>4 DEF Held
<1>7. FirstAlone'
  <2>1. src = NoFd => \A u \in Threads : th[u].fd = f => ~Releasing(u) /\ ~First(u)
    BY DEF Obtains
  <2> QED
    BY <1>1, <1>2, <2>1 DEF Handled, FirstAlone
<1>8. Solitary'
  <2>1. \A u \in Threads : th[u].pc \in {"probe", "store", "clear", "close"} => th[u].fd # f
    BY DEF Obtains
  <2> QED
    BY <1>1, <2>1 DEF Handled, Solitary
<1> QED
  BY <1>4, <1>5, <1>6, <1>7, <1>8 DEF Handled

LEMMA MoveFacts ==
  ASSUME TypeOK, NEW t \in Threads, NEW h \in Handles, NEW g \in Handles, Move(t, h, g)
  PROVE  /\ h # g /\ fdOf[h] = NoFd /\ fdOf[g] # NoFd
         /\ fdOf' \in [Handles -> Fds \cup {NoFd}]
         /\ fdOf'[h] = fdOf[g] /\ fdOf'[g] = NoFd
         /\ \A e \in Handles \ {g, h} : fdOf'[e] = fdOf[e]
         /\ \A u \in Threads : th[u].h \notin {g, h} /\ th[u].src \notin {g, h}
         /\ UNCHANGED <<slot, io, open, raw, th>>
<1>1. h # g
  BY DEF Move
<1> QED
  BY <1>1 DEF Move, TypeOK, Unused, Stable

LEMMA MoveHandled ==
  ASSUME TypeOK, Handled, NEW t \in Threads, NEW h \in Handles, NEW g \in Handles, Move(t, h, g)
  PROVE  Handled'
<1>1. /\ h # g /\ fdOf[h] = NoFd /\ fdOf[g] # NoFd
      /\ fdOf'[h] = fdOf[g] /\ fdOf'[g] = NoFd
      /\ \A e \in Handles \ {g, h} : fdOf'[e] = fdOf[e]
      /\ \A u \in Threads : th[u].h \notin {g, h} /\ th[u].src \notin {g, h}
      /\ UNCHANGED <<open, raw, th>>
  BY MoveFacts
<1>2. Frames'
  <2>1. ASSUME NEW u \in Threads
        PROVE  Frames!(u)'
    <3>1. Frames!(u)
      BY DEF Handled, Frames
    <3>2. /\ th[u].h \in Handles => fdOf'[th[u].h] = fdOf[th[u].h]
          /\ th[u].src \in Handles => fdOf'[th[u].src] = fdOf[th[u].src]
      BY <1>1
    <3>3. th[u].src \in Handles \cup {NoFd}
      BY ThreadType
    <3> QED
      BY <1>1, <3>1, <3>2, <3>3 DEF Retaining, Releasing
  <2> QED
    BY <2>1 DEF Frames
<1>3. Exclusive'
  BY <1>1 DEF Handled, Exclusive
<1>4. Held'
  <2>1. raw' \subseteq RawFds
    BY <1>1 DEF Handled, Held
  <2>2. \A e \in Handles : fdOf'[e] # NoFd => fdOf'[e] \in open' \ raw'
    BY <1>1 DEF Handled, Held
  <2>3. \A f \in open' \ raw' : \E e \in Handles : fdOf'[e] = f
    <3> SUFFICES ASSUME NEW f \in open \ raw
                 PROVE  \E e \in Handles : fdOf'[e] = f
      BY <1>1
    <3>1. PICK e \in Handles : fdOf[e] = f
      BY DEF Handled, Held
    <3>2. f # NoFd
      BY SlotsAssumption DEF TypeOK, NoFd
    <3> QED
      BY <1>1, <3>1, <3>2
  <2>4. \A e, i \in Handles : e # i /\ fdOf'[e] # NoFd /\ fdOf'[e] = fdOf'[i] => fdOf'[e] \in Shared
    BY <1>1 DEF Handled, Held
  <2> QED
    BY <2>1, <2>2, <2>3, <2>4 DEF Held
<1>5. FirstAlone'
  BY <1>1 DEF Handled, FirstAlone, First, Retaining, Releasing
<1>6. Solitary'
  <2>1. \A u \in Threads : th[u].pc \in {"probe", "store", "clear", "close"}
                             => th[u].fd # NoFd /\ th[u].fd # fdOf[g]
    BY <1>1, SlotsAssumption DEF Handled, Solitary, Frames, NoFd
  <2> QED
    BY <1>1, <2>1 DEF Handled, Solitary
<1> QED
  BY <1>2, <1>3, <1>4, <1>5, <1>6 DEF Handled

LEMMA ResetBecomes ==
  ASSUME TypeOK, NEW t \in Threads, NEW h \in Handles, Reset(t, h)
  PROVE  Becomes(t, "find", h, NoFd, fdOf[h], 0) /\ fdOf[h] \in Fds
<1>1. fdOf[h] \in Fds
  BY DEF Reset, TypeOK
<1>2. "find" \in Pcs /\ h \in Handles \cup {NoFd} /\ NoFd \in Handles \cup {NoFd}
  BY DEF Pcs
<1> QED
  BY <1>1, <1>2, StartBecomes DEF Reset

LEMMA ResetHandled ==
  ASSUME TypeOK, Handled, NEW t \in Threads, NEW h \in Handles, Reset(t, h)
  PROVE  Handled'
<1>1. /\ th'[t].pc = "find" /\ th'[t].h = h /\ th'[t].src = NoFd /\ th'[t].fd = fdOf[h]
      /\ \A u \in Threads \ {t} : th'[u] = th[u]
      /\ fdOf[h] \in Fds
  BY ResetBecomes DEF Becomes
<1>2. /\ ~Retaining(t)' /\ Releasing(t)' /\ ~First(t)'
      /\ \A u \in Threads \ {t} : /\ Retaining(u)' <=> Retaining(u)
                                  /\ Releasing(u)' <=> Releasing(u)
                                  /\ First(u)' <=> First(u)
  BY <1>1 DEF Retaining, Releasing, First
<1>3. /\ h # NoFd /\ UNCHANGED <<fdOf, open, raw>>
      /\ \A u \in Threads : th[u].h # h /\ th[u].src # h
      /\ \A u \in Threads : First(u) => th[u].fd # fdOf[h]
  BY HandlesAssumption DEF Reset, Unused, Stable, Wrapping, First
<1>4. Frames'
  BY <1>1, <1>2, <1>3 DEF Handled, Frames
<1>5. Exclusive'
  BY <1>1, <1>3, HandlesAssumption DEF Handled, Exclusive
<1>6. Held'
  BY <1>3 DEF Handled, Held
<1>7. FirstAlone'
  BY <1>1, <1>2, <1>3 DEF Handled, FirstAlone
<1>8. Solitary'
  BY <1>1, <1>3 DEF Handled, Solitary
<1> QED
  BY <1>4, <1>5, <1>6, <1>7, <1>8 DEF Handled

LEMMA LockBecomes ==
  ASSUME TypeOK, NEW t \in Threads, NEW h \in Handles, Lock(t, h)
  PROVE  Becomes(t, "mutex", NoFd, h, fdOf[h], 0) /\ fdOf[h] \in Fds
<1>1. fdOf[h] \in Fds
  BY DEF Lock, TypeOK
<1>2. "mutex" \in Pcs /\ h \in Handles \cup {NoFd} /\ NoFd \in Handles \cup {NoFd}
  BY DEF Pcs
<1> QED
  BY <1>1, <1>2, StartBecomes DEF Lock

LEMMA LockHandled ==
  ASSUME TypeOK, Handled, NEW t \in Threads, NEW h \in Handles, Lock(t, h)
  PROVE  Handled'
<1>1. /\ th'[t].pc = "mutex" /\ th'[t].h = NoFd /\ th'[t].src = h /\ th'[t].fd = fdOf[h]
      /\ \A u \in Threads \ {t} : th'[u] = th[u]
      /\ fdOf[h] \in Fds
  BY LockBecomes DEF Becomes
<1>2. /\ ~Retaining(t)' /\ ~Releasing(t)' /\ ~First(t)'
      /\ \A u \in Threads \ {t} : /\ Retaining(u)' <=> Retaining(u)
                                  /\ Releasing(u)' <=> Releasing(u)
                                  /\ First(u)' <=> First(u)
  BY <1>1 DEF Retaining, Releasing, First
<1>3. /\ UNCHANGED <<fdOf, open, raw>>
      /\ \A u \in Threads : th[u].h # h
  BY DEF Lock, Stable
<1>4. Frames'
  BY <1>1, <1>2, <1>3 DEF Handled, Frames
<1>5. Exclusive'
  BY <1>1, <1>3 DEF Handled, Exclusive
<1>6. Held'
  BY <1>3 DEF Handled, Held
<1>7. FirstAlone'
  BY <1>1, <1>2 DEF Handled, FirstAlone
<1>8. Solitary'
  BY <1>1, <1>3 DEF Handled, Solitary
<1> QED
  BY <1>4, <1>5, <1>6, <1>7, <1>8 DEF Handled

-----------------------------------------------------------------------------
(* What the table says of threads and handles *)

\* The other threads' probes when no slot changes hands.
LEMMA OthersPath ==
  ASSUME NEW t \in Threads, \A u \in Threads : Path(u),
         \A u \in Threads \ {t} : th'[u] = th[u],
         \A s \in Slots : slot'[s].fd = slot[s].fd,
         \A u \in Threads \ {t} : /\ th[u].pc # "idle" => th[u].fd \in Fds
                                  /\ th[u].i \in Nat
                                  /\ th[u].pc = "session" => io'[th[u].i] = io[th[u].i]
  PROVE  \A u \in Threads \ {t} : Path(u)'
<1> SUFFICES ASSUME NEW u \in Threads \ {t}
             PROVE  Path(u)'
  OBVIOUS
<1>1. \A f : InTable(f)' <=> InTable(f)
  BY DEF InTable
<1>2. Path(u) /\ th'[u] = th[u] /\ (Climbs(u)' <=> Climbs(u)) /\ At(u)' = At(u)
  BY DEF Climbs, At
<1>3. th[u].pc # "idle" => /\ At(u) \in Slots /\ Home(th[u].fd) \in Slots
                           /\ slot'[At(u)].fd = slot[At(u)].fd
                           /\ slot'[Home(th[u].fd)].fd = slot[Home(th[u].fd)].fd
  BY PlaceIsSlot, HomeIsSlot DEF At
<1>4. Climbs(u) => th[u].pc # "idle"
  BY DEF Climbs
<1> QED
  BY <1>1, <1>2, <1>3, <1>4 DEF Path

\* What is counted depends on which handles are busy.
Engages(t, h) ==
  th[t].h = h /\ th[t].pc \in {"scan", "incr", "probe", "store", "clear", "close"}

LEMMA BusyKept ==
  ASSUME NEW t \in Threads, NEW h \in Handles, \A u \in Threads \ {t} : th'[u] = th[u],
         Engages(t, h)' <=> Engages(t, h)
  PROVE  Busy(h)' <=> Busy(h)
<1>1. Busy(h) <=> Engages(t, h) \/ \E u \in Threads \ {t} : Engages(u, h)
  BY DEF Busy, Engages
<1>2. Busy(h)' <=> Engages(t, h)' \/ \E u \in Threads \ {t} : Engages(u, h)'
  BY DEF Busy, Engages
<1>3. \A u \in Threads \ {t} : Engages(u, h)' <=> Engages(u, h)
  BY DEF Engages
<1> QED
  BY <1>1, <1>2, <1>3

LEMMA StoringKept ==
  ASSUME NEW t \in Threads, NEW s \in Slots, \A u \in Threads \ {t} : th'[u] = th[u],
         (th[t].pc = "store" /\ At(t) = s)' <=> (th[t].pc = "store" /\ At(t) = s)
  PROVE  Storing(s)' <=> Storing(s)
<1>1. \A u \in Threads \ {t} : (th[u].pc = "store" /\ At(u) = s)' <=> (th[u].pc = "store" /\ At(u) = s)
  BY DEF At
<1> QED
  BY <1>1 DEF Storing

LEMMA CountsKept ==
  ASSUME Registered, Counted, UNCHANGED <<fdOf, slot>>,
         \A h \in Handles : Busy(h)' <=> Busy(h),
         \A s \in Slots : Storing(s)' <=> Storing(s)
  PROVE  Registered' /\ Counted'
<1>1. \A f : Shares(f)' = Shares(f)
  BY DEF Shares
<1>2. \A f : InTable(f)' <=> InTable(f)
  BY DEF InTable
<1> QED
  BY <1>1, <1>2 DEF Registered, Counted

\* A step within an operation that leaves table and handles alone.
LEMMA WalkTabled ==
  ASSUME IInv, NEW t \in Threads, NEW pc \in Pcs, NEW i \in 0..MaxSlots, Goto(t, pc, i),
         UNCHANGED <<slot, fdOf>>,
         \/ th[t].pc \in {"scan", "incr", "probe"} /\ pc \in {"scan", "incr", "probe"}
         \/ th[t].pc \in {"find", "decr", "mutex", "lock"}
              /\ pc \in {"find", "decr", "mutex", "lock", "session"},
         \A u \in Threads \ {t} : th[u].pc = "session" => io'[th[u].i] = io[th[u].i],
         Path(t)',
         pc \in {"scan", "probe"} /\ i = 1
           => \A u \in Threads \ {t} : Climbs(u) => /\ ~Twins(th[t].fd, th[u].fd)
                                                   /\ ~Twins(th[u].fd, th[t].fd)
  PROVE  Tabled'
<1>1. /\ th'[t].pc = pc /\ th'[t].i = i /\ th'[t].h = th[t].h /\ th'[t].fd = th[t].fd
      /\ \A u \in Threads \ {t} : th'[u] = th[u]
  BY GotoBecomes DEF Becomes, IInv
<1>2. Placed'
  BY DEF IInv, Tabled, Placed
<1>3. \A u \in Threads \ {t} : Path(u)'
  <2>1. \A u \in Threads : (th[u].pc # "idle" => th[u].fd \in Fds) /\ th[u].i \in Nat
    BY ThreadType, SlotsAssumption DEF IInv, Handled, Frames
  <2> QED
    BY <1>1, <2>1, OthersPath DEF IInv, Tabled
<1>4. NoClash'
  <2>1. \A u \in Threads \ {t} : Climbs(u)' <=> Climbs(u)
    BY <1>1 DEF Climbs
  <2>2. Climbs(t)' <=> pc \in {"scan", "probe"} /\ i = 1
    BY <1>1 DEF Climbs
  <2>3. ~Twins(th[t].fd, th[t].fd)
    BY DEF Twins
  <2> QED
    BY <1>1, <2>1, <2>2, <2>3 DEF IInv, Tabled, NoClash
<1>5. \A h \in Handles : Busy(h)' <=> Busy(h)
  <2>1. \A h \in Handles : Engages(t, h)' <=> Engages(t, h)
    BY <1>1 DEF Engages
  <2> QED
    BY <1>1, <2>1, BusyKept
<1>6. \A s \in Slots : Storing(s)' <=> Storing(s)
  <2>1. th'[t].pc # "store" /\ th[t].pc # "store"
    BY <1>1
  <2> QED
    BY <1>1, <2>1, StoringKept
<1> QED
  BY <1>2, <1>3, <1>4, <1>5, <1>6, CountsKept DEF IInv, Tabled

-----------------------------------------------------------------------------
(* retain() *)

\* A handle that is being copied or locked is in a count.
LEMMA SourceInTable ==
  ASSUME IInv, NEW t \in Threads, th[t].src # NoFd,
         Retaining(t) \/ th[t].pc \in {"mutex", "lock", "session"}
  PROVE  InTable(th[t].fd)
<1>1. th[t].src \in Handles /\ fdOf[th[t].src] = th[t].fd /\ th[t].fd \in Fds
  <2>1. th[t].pc # "idle"
    BY DEF Retaining
  <2> QED
    BY <2>1, ThreadType DEF IInv, Handled, Frames
<1>2. ~Busy(th[t].src)
  BY DEF IInv, Handled, Exclusive, Busy
<1>3. th[t].fd # NoFd
  BY <1>1, SlotsAssumption DEF NoFd
<1> QED
  BY <1>1, <1>2, <1>3 DEF IInv, Tabled, Registered

\* Who finds its new descriptor missing has the only handle.
LEMMA MissingOnly ==
  ASSUME IInv, NEW t \in Threads, First(t), ~InTable(th[t].fd)
  PROVE  Only(t)
<1>1. th[t].fd \in Fds /\ th[t].fd # NoFd
  <2>1. th[t].pc # "idle"
    BY DEF First, Retaining
  <2> QED
    BY <2>1, SlotsAssumption DEF IInv, Handled, Frames, NoFd
<1> SUFFICES ASSUME NEW h \in Handles, fdOf[h] = th[t].fd, h # th[t].h
             PROVE  FALSE
  BY DEF Only
<1>2. Busy(h)
  BY <1>1 DEF IInv, Tabled, Registered
<1>3. PICK u \in Threads :
        th[u].h = h /\ th[u].pc \in {"scan", "incr", "probe", "store", "clear", "close"}
  BY <1>2 DEF Busy
<1>4. u # t /\ th[u].fd = th[t].fd
  BY <1>3 DEF IInv, Handled, Frames, Retaining, Releasing
<1>5. ~Releasing(u) /\ ~First(u)
  BY <1>4 DEF IInv, Handled, FirstAlone
<1>6. Retaining(u) /\ th[u].src # NoFd
  BY <1>3, <1>5 DEF Releasing, Retaining, First
<1> QED
  BY <1>4, <1>6, SourceInTable

\* A probe that meets another descriptor is at the home of both.
LEMMA Occupied ==
  ASSUME Roomy, IInv, NEW t \in Threads, th[t].pc \in {"scan", "probe"},
         slot[At(t)].fd \notin {th[t].fd, NoFd}
  PROVE  /\ th[t].i = 0 /\ At(t) = Home(th[t].fd) /\ 1 < MaxSlots
         /\ slot[At(t)].fd \in Fds /\ Twins(th[t].fd, slot[At(t)].fd)
         /\ th[t].fd \notin Shared
<1>1. th[t].fd \in Fds
  BY DEF IInv, Handled, Frames
<1>2. th[t].i = 0
  BY DEF IInv, Tabled, Path, Climbs
<1>3. At(t) = Home(th[t].fd) /\ At(t) \in Slots
  BY <1>1, <1>2, PlaceZero, HomeIsSlot DEF At
<1>4. slot[At(t)].fd \in Fds /\ At(t) \in Zone(slot[At(t)].fd) /\ At(t) \in Zone(th[t].fd)
  BY <1>3 DEF IInv, TypeOK, Tabled, Placed, Zone
<1>5. Twins(th[t].fd, slot[At(t)].fd)
  BY <1>1, <1>3, <1>4, ZonesApart
<1>6. MaxSlots > 1 /\ th[t].fd \notin Shared
  BY <1>1, <1>4, <1>5 DEF Roomy
<1> QED
  BY <1>2, <1>3, <1>4, <1>5, <1>6, SlotsAssumption

\* The next slot is free, and stays for the one that has come that far.
LEMMA NextSlotFree ==
  ASSUME Roomy, IInv, NEW t \in Threads, th[t].pc \in {"scan", "probe"},
         slot[At(t)].fd \notin {th[t].fd, NoFd}
  PROVE  /\ slot[Place(th[t].fd, 1)].fd = NoFd
         /\ \E g \in Fds : Twins(th[t].fd, g)
         /\ \A u \in Threads : Climbs(u) => /\ ~Twins(th[t].fd, th[u].fd)
                                            /\ ~Twins(th[u].fd, th[t].fd)
<1> DEFINE f == th[t].fd
           g == slot[At(t)].fd
           s == Place(f, 1)
<1>1. /\ At(t) = Home(f) /\ g \in Fds /\ Twins(f, g) /\ f \notin Shared /\ f \in Fds
      /\ At(t) \in Slots /\ s \in Slots /\ s # Home(f)
  <2>1. At(t) = Home(f) /\ g \in Fds /\ Twins(f, g) /\ f \notin Shared
    BY Occupied
  <2>2. f \in Fds
    BY DEF IInv, Handled, Frames
  <2>3. Home(f) \in Slots /\ s \in Slots
    BY <2>2, HomeIsSlot, PlaceIsSlot
  <2> QED
    BY <2>1, <2>2, <2>3 DEF Roomy
<1>2. ~InTable(f) /\ InTable(g)
  <2>1. ~InTable(f)
    BY <1>1 DEF IInv, Tabled, Path
  <2> QED
    BY <1>1, <2>1 DEF InTable
<1>3. slot[s].fd = NoFd
  <2> SUFFICES ASSUME slot[s].fd # NoFd
               PROVE  FALSE
    OBVIOUS
  <2>1. slot[s].fd \in Fds /\ s \in Zone(slot[s].fd) /\ slot[s].fd # f
    BY <1>1, <1>2 DEF IInv, TypeOK, Tabled, Placed, InTable
  <2>2. s \in Zone(f)
    BY <1>1 DEF Zone
  <2>3. Twins(f, slot[s].fd)
    BY <1>1, <2>1, <2>2, ZonesApart
  <2>4. slot[s].fd = g
    BY <1>1, <2>1, <2>3 DEF Roomy
  <2> QED
    BY <1>1, <2>4 DEF IInv, Tabled, Placed
<1>4. ASSUME NEW u \in Threads, Climbs(u), Twins(f, th[u].fd) \/ Twins(th[u].fd, f)
      PROVE  FALSE
  <2>1. th[u].fd \in Fds /\ Twins(f, th[u].fd) /\ Twins(th[u].fd, f)
    BY <1>4 DEF IInv, Handled, Frames, Climbs, Twins
  <2>2. th[u].fd = g /\ th[u].fd \notin Shared
    BY <1>1, <2>1 DEF Roomy
  <2> QED
    BY <1>2, <1>4, <2>2 DEF IInv, Tabled, Path, Climbs
<1> QED
  BY <1>1, <1>3, <1>4

LEMMA ScanCases ==
  ASSUME Roomy, IInv, NEW t \in Threads, RetainScan(t)
  PROVE  \/ slot[At(t)].fd = th[t].fd /\ Goto(t, "incr", th[t].i)
         \/ slot[At(t)].fd = NoFd /\ Goto(t, "probe", 0)
         \/ slot[At(t)].fd \notin {th[t].fd, NoFd} /\ Goto(t, "scan", 1)
<1>1. CASE slot[At(t)].fd \notin {th[t].fd, NoFd}
  <2>1. th[t].i = 0 /\ 1 < MaxSlots
    BY <1>1, Occupied DEF RetainScan
  <2> QED
    BY <1>1, <2>1 DEF RetainScan, Advance
<1> QED
  BY <1>1 DEF RetainScan

\* A free slot at the end of the scan: the descriptor is not in the table.
LEMMA ScanFree ==
  ASSUME Roomy, IInv, NEW t \in Threads, th[t].pc = "scan", slot[At(t)].fd = NoFd
  PROVE  ~InTable(th[t].fd) /\ th[t].src = NoFd /\ Only(t)
<1>1. th[t].fd \in Fds /\ th[t].fd # NoFd /\ Retaining(t)
  BY SlotsAssumption DEF IInv, Handled, Frames, NoFd, Retaining
<1>2. ~InTable(th[t].fd)
  <2>1. CASE th[t].fd \notin Shared
    BY <2>1 DEF IInv, Tabled, Path
  <2>2. CASE th[t].fd \in Shared
    <3>1. ~ \E g \in Fds : Twins(th[t].fd, g)
      BY <1>1, <2>2 DEF Roomy
    <3>2. At(t) = Home(th[t].fd)
      BY <1>1, <3>1, PlaceZero DEF IInv, Tabled, Path, Climbs, At
    <3>3. \A s \in Slots : slot[s].fd = th[t].fd => s = Home(th[t].fd)
      BY <1>1, <3>1 DEF IInv, Tabled, Placed, Zone
    <3> QED
      BY <1>1, <3>2, <3>3 DEF InTable
  <2> QED
    BY <2>1, <2>2
<1>3. th[t].src = NoFd
  BY <1>1, <1>2, SourceInTable
<1> QED
  BY <1>1, <1>2, <1>3, MissingOnly DEF First

LEMMA WalkType ==
  ASSUME TypeOK, NEW t \in Threads, NEW pc \in Pcs, NEW i \in 0..MaxSlots, Goto(t, pc, i),
         UNCHANGED <<slot, io, fdOf, open, raw>>
  PROVE  TypeOK'
  BY GotoBecomes DEF Becomes, TypeOK

LEMMA ScanStep ==
  ASSUME Roomy, IInv, NEW t \in Threads, RetainScan(t)
  PROVE  IInv'
<1>1. /\ th[t].pc = "scan" /\ Retaining(t) /\ th[t].fd \in Fds /\ th[t].i \in 0..MaxSlots
      /\ th[t].i \in {0, 1} /\ UNCHANGED <<slot, io, fdOf, open, raw>>
  BY ThreadType DEF RetainScan, Retaining, IInv, Handled, Frames, Tabled, Path
<1>2. {"scan", "probe", "incr"} \subseteq Pcs /\ 0 \in 0..MaxSlots
  BY SlotsAssumption DEF Pcs
<1>3. CASE slot[At(t)].fd = th[t].fd /\ Goto(t, "incr", th[t].i)
  <2>1. Becomes(t, "incr", th[t].h, th[t].src, th[t].fd, th[t].i)
    BY <1>1, <1>2, <1>3, GotoBecomes DEF IInv
  <2>2. Path(t)'
    BY <1>1, <1>3, <2>1 DEF Becomes, Path, Climbs, At
  <2> QED
    BY <1>1, <1>2, <1>3, <2>1, <2>2, WalkType, MoveOn, WalkTabled DEF IInv
<1>4. CASE slot[At(t)].fd = NoFd /\ Goto(t, "probe", 0)
  <2>1. Becomes(t, "probe", th[t].h, th[t].src, th[t].fd, 0)
    BY <1>1, <1>2, <1>4, GotoBecomes DEF IInv
  <2>2. ~InTable(th[t].fd) /\ th[t].src = NoFd /\ Only(t)
    BY <1>1, <1>4, ScanFree
  <2>3. Path(t)'
    BY <1>1, <2>1, <2>2 DEF Becomes, Path, Climbs, InTable
  <2> QED
    BY <1>1, <1>2, <1>4, <2>1, <2>2, <2>3, WalkType, MoveOn, WalkTabled DEF IInv
<1>5. CASE slot[At(t)].fd \notin {th[t].fd, NoFd} /\ Goto(t, "scan", 1)
  <2>1. 1 \in 0..MaxSlots /\ th[t].fd \notin Shared
    BY <1>1, <1>5, SlotsAssumption, Occupied
  <2>2. Becomes(t, "scan", th[t].h, th[t].src, th[t].fd, 1)
    BY <1>1, <1>2, <1>5, <2>1, GotoBecomes DEF IInv
  <2>3. /\ slot[Place(th[t].fd, 1)].fd = NoFd
        /\ \E g \in Fds : Twins(th[t].fd, g)
        /\ \A u \in Threads : Climbs(u) => /\ ~Twins(th[t].fd, th[u].fd)
                                           /\ ~Twins(th[u].fd, th[t].fd)
    BY <1>1, <1>5, NextSlotFree
  <2>4. ~InTable(th[t].fd)
    BY <1>1, <2>1 DEF IInv, Tabled, Path
  <2>5. Path(t)'
    BY <1>1, <2>2, <2>3, <2>4 DEF Becomes, Path, Climbs, InTable, At
  <2> QED
    BY <1>1, <1>2, <1>5, <2>1, <2>2, <2>3, <2>5, WalkType, MoveOn, WalkTabled DEF IInv
<1> QED
  BY <1>3, <1>4, <1>5, ScanCases

LEMMA ClaimCases ==
  ASSUME Roomy, IInv, NEW t \in Threads, RetainClaim(t)
  PROVE  \/ /\ slot[At(t)].fd = NoFd /\ Write(At(t), th[t].fd, slot[At(t)].cnt)
            /\ Goto(t, "store", th[t].i)
         \/ slot[At(t)].fd \notin {th[t].fd, NoFd} /\ Goto(t, "probe", 1) /\ UNCHANGED slot
<1>1. slot[At(t)].fd # th[t].fd
  <2>1. At(t) \in Slots
    BY ThreadType, PlaceIsSlot DEF IInv, Handled, Frames, RetainClaim, At
  <2> QED
    BY <2>1 DEF RetainClaim, IInv, Tabled, Path, InTable
<1>2. CASE slot[At(t)].fd \notin {th[t].fd, NoFd}
  <2>1. th[t].i = 0 /\ 1 < MaxSlots
    BY <1>2, Occupied DEF RetainClaim
  <2> QED
    BY <1>2, <2>1 DEF RetainClaim, Advance
<1> QED
  BY <1>1, <1>2 DEF RetainClaim

LEMMA ProbeOnStep ==
  ASSUME Roomy, IInv, NEW t \in Threads, RetainClaim(t),
         slot[At(t)].fd \notin {th[t].fd, NoFd}, Goto(t, "probe", 1), UNCHANGED slot
  PROVE  IInv'
<1>1. /\ th[t].pc = "probe" /\ Retaining(t) /\ th[t].src = NoFd
      /\ UNCHANGED <<slot, io, fdOf, open, raw>>
  <2>1. th[t].pc = "probe" /\ Retaining(t)
    BY DEF RetainClaim, Retaining
  <2> QED
    BY <2>1 DEF RetainClaim, IInv, Handled, Frames
<1>2. "probe" \in Pcs /\ 1 \in 0..MaxSlots
  BY <1>1, SlotsAssumption, Occupied DEF Pcs
<1>3. Becomes(t, "probe", th[t].h, th[t].src, th[t].fd, 1)
  BY <1>2, GotoBecomes DEF IInv
<1>4. ~InTable(th[t].fd) /\ Only(t)
  BY <1>1 DEF IInv, Tabled, Path, Handled, Solitary, Only
<1>5. /\ slot[Place(th[t].fd, 1)].fd = NoFd
      /\ \E g \in Fds : Twins(th[t].fd, g)
      /\ \A u \in Threads : Climbs(u) => /\ ~Twins(th[t].fd, th[u].fd)
                                         /\ ~Twins(th[u].fd, th[t].fd)
  BY <1>1, NextSlotFree
<1>6. Path(t)'
  BY <1>1, <1>3, <1>4, <1>5 DEF Becomes, Path, Climbs, InTable, At
<1> QED
  BY <1>1, <1>2, <1>3, <1>4, <1>5, <1>6, WalkType, MoveOn, WalkTabled DEF IInv

\* The slot of a probing thread is in the zone of its descriptor.
LEMMA ProbeZone ==
  ASSUME IInv, NEW t \in Threads, th[t].pc \in {"scan", "probe"}
  PROVE  /\ At(t) \in Slots /\ th[t].fd \in Fds /\ At(t) \in Zone(th[t].fd)
         /\ th[t].i = 0 => At(t) = Home(th[t].fd)
         /\ th[t].i # 0 => Climbs(t) /\ At(t) = Place(th[t].fd, 1)
<1>1. th[t].fd \in Fds /\ th[t].i \in {0, 1}
  BY DEF IInv, Handled, Frames, Tabled, Path
<1>2. At(t) \in Slots
  BY <1>1, PlaceIsSlot DEF At
<1>3. CASE th[t].i = 0
  BY <1>1, <1>2, <1>3, PlaceZero DEF At, Zone
<1>4. CASE th[t].i = 1
  <2>1. Climbs(t)
    BY <1>4 DEF Climbs
  <2> QED
    BY <1>1, <1>2, <1>4, <2>1 DEF At, Zone, IInv, Tabled, Path
<1> QED
  BY <1>1, <1>3, <1>4

\* What the others are at when a thread claims a slot.
LEMMA ClaimOthers ==
  ASSUME Roomy, IInv, NEW t \in Threads, th[t].pc = "probe", NEW u \in Threads \ {t}
  PROVE  /\ th[u].pc \in {"probe", "store", "clear", "close"} => th[u].fd # th[t].fd
         /\ th[u].pc = "scan" /\ th[u].fd \notin Shared => th[u].fd # th[t].fd
         /\ th[u].pc \in {"find", "mutex"} => th[u].fd # th[t].fd
         /\ Climbs(u) => At(u) # At(t)
<1>1. /\ Retaining(t) /\ th[t].fd \in Fds /\ th[t].src = NoFd /\ First(t)
      /\ th[t].h \in Handles /\ fdOf[th[t].h] = th[t].fd /\ Only(t) /\ th[t].h # NoFd
  <2>1. Retaining(t)
    BY DEF Retaining
  <2>2. th[t].src = NoFd /\ th[t].fd \in Fds
    BY <2>1 DEF IInv, Handled, Frames
  <2> QED
    BY <2>1, <2>2, HandlesAssumption DEF IInv, Handled, Frames, Solitary, Only, First
<1>2. Retaining(u) \/ Releasing(u) => th[u].fd # th[t].fd \/ th[u].h = th[t].h
  BY <1>1 DEF IInv, Handled, Frames, Only
<1>3. th[u].h # th[t].h /\ th[u].src # th[t].h
  BY <1>1 DEF IInv, Handled, Exclusive
<1>4. Retaining(u) \/ Releasing(u) => th[u].fd # th[t].fd
  BY <1>2, <1>3
<1>5. th[u].pc = "mutex" => th[u].fd # th[t].fd
  BY <1>1, <1>3 DEF IInv, Handled, Frames, Only
<1>6. ASSUME Climbs(u), At(u) = At(t)
      PROVE  FALSE
  <2>1. th[u].fd # th[t].fd
    BY <1>4, <1>6 DEF Climbs, Retaining
  <2>2. th[u].pc \in {"scan", "probe"} /\ th[u].i # 0
    BY <1>6 DEF Climbs
  <2>3. /\ At(u) \in Slots /\ th[u].fd \in Fds /\ At(u) \in Zone(th[u].fd)
        /\ At(u) = Place(th[u].fd, 1)
    BY <2>2, ProbeZone
  <2>4. At(t) \in Zone(th[t].fd)
    BY ProbeZone
  <2>5. Twins(th[u].fd, th[t].fd)
    BY <1>1, <1>6, <2>1, <2>3, <2>4, ZonesApart
  <2>6. CASE th[t].i = 0
    <3>1. At(t) = Home(th[t].fd)
      BY <2>6, ProbeZone
    <3> QED
      BY <1>1, <1>6, <2>3, <2>5, <3>1 DEF Roomy
  <2>7. CASE th[t].i # 0
    <3>1. Climbs(t)
      BY <2>7, ProbeZone
    <3> QED
      BY <1>6, <2>5, <3>1 DEF IInv, Tabled, NoClash
  <2> QED
    BY <2>6, <2>7
<1> QED
  BY <1>4, <1>5, <1>6 DEF Retaining, Releasing

LEMMA ClaimStep ==
  ASSUME Roomy, IInv, NEW t \in Threads, RetainClaim(t),
         slot[At(t)].fd = NoFd, Write(At(t), th[t].fd, slot[At(t)].cnt),
         Goto(t, "store", th[t].i)
  PROVE  IInv'
<1>a. PICK s \in Slots, f \in Fds : s = At(t) /\ f = th[t].fd
  BY ProbeZone DEF RetainClaim
<1>1. /\ th[t].pc = "probe" /\ Retaining(t) /\ th[t].src = NoFd /\ th[t].i \in 0..MaxSlots
      /\ UNCHANGED <<io, fdOf, open, raw>> /\ f # NoFd
      /\ th[t].h \in Handles /\ fdOf[th[t].h] = f /\ Only(t) /\ ~InTable(f)
  <2>1. th[t].pc = "probe" /\ Retaining(t) /\ UNCHANGED <<io, fdOf, open, raw>>
    BY DEF RetainClaim, Retaining
  <2>2. th[t].src = NoFd /\ f \in Fds /\ th[t].h \in Handles /\ fdOf[th[t].h] = f
    BY <1>a, <2>1 DEF IInv, Handled, Frames
  <2> QED
    BY <1>a, <2>1, <2>2, ThreadType, SlotsAssumption
       DEF IInv, Handled, Solitary, Only, Tabled, Path, NoFd
<1>2. /\ s \in Slots /\ f \in Fds /\ s \in Zone(f)
  BY <1>a, <1>1, ProbeZone
<1>3. slot[s].cnt \in 0..CountMod - 1
  BY <1>2 DEF IInv, TypeOK
<1>4. /\ slot' \in [Slots -> [fd : Fds \cup {NoFd}, cnt : 0..CountMod - 1]]
      /\ slot'[s].fd = f
      /\ \A r \in Slots \ {s} : slot'[r] = slot[r]
  BY <1>a, <1>2, <1>3, WriteSlot DEF IInv
<1>5. Becomes(t, "store", th[t].h, th[t].src, f, th[t].i) /\ "store" \in Pcs
  BY <1>a, <1>1, GotoBecomes DEF IInv, Pcs
<1>6. TypeOK'
  BY <1>1, <1>4, <1>5 DEF IInv, TypeOK, Becomes
<1>7. Handled'
  BY <1>a, <1>1, <1>5, MoveOn DEF IInv
<1>8. /\ th'[t].pc = "store" /\ th'[t].i = th[t].i /\ th'[t].h = th[t].h /\ th'[t].fd = f
      /\ At(t)' = s
      /\ \A u \in Threads \ {t} : th'[u] = th[u]
  BY <1>a, <1>5 DEF Becomes, At
<1>9. Placed'
  <2>1. ~InTable(f) /\ fdOf[th[t].h] = f
    BY <1>1
  <2> QED
    BY <1>1, <1>2, <1>4, <2>1 DEF IInv, Tabled, Placed, InTable, Zone
<1>10. \A u \in Threads : Path(u)'
  <2>1. Path(t)'
    BY <1>1, <1>4, <1>8 DEF IInv, Tabled, Path, Climbs
  <2>2. ASSUME NEW u \in Threads \ {t}
        PROVE  Path(u)'
    <3>1. /\ Path(u) /\ th'[u] = th[u] /\ (Climbs(u)' <=> Climbs(u)) /\ At(u)' = At(u)
          /\ th[u].pc # "idle" => th[u].fd \in Fds
          /\ th[u].i \in Nat
      BY <1>8, ThreadType, SlotsAssumption DEF IInv, Tabled, Climbs, At, Handled, Frames
    <3>2. th[u].pc # "idle" => At(u) \in Slots /\ Home(th[u].fd) \in Slots
      BY <3>1, PlaceIsSlot, HomeIsSlot DEF At
    <3>3. /\ th[u].pc \in {"probe", "store", "clear", "close"} => th[u].fd # f
          /\ th[u].pc = "scan" /\ th[u].fd \notin Shared => th[u].fd # f
          /\ th[u].pc \in {"find", "mutex"} => th[u].fd # f
          /\ Climbs(u) => At(u) # s
      BY <1>a, <1>1, ClaimOthers
    <3>4. slot[s].fd = NoFd
      BY <1>a
    <3>5. \A e : e # f /\ InTable(e)' => InTable(e)
      BY <1>2, <1>4 DEF InTable
    <3>6. Climbs(u) => th[u].pc # "idle"
      BY DEF Climbs
    <3>7. \A r \in Slots : slot[r].fd \in Fds => slot'[r].fd = slot[r].fd
      BY <1>4, <3>4, SlotsAssumption DEF NoFd
    <3>8. th[u].pc \in {"probe", "close"} \/ (th[u].pc = "scan" /\ th[u].fd \notin Shared)
            => ~InTable(th[u].fd)'
      <4>1. InTable(th[u].fd)' => \E r \in Slots : slot'[r].fd = th[u].fd
        BY <3>1 DEF InTable
      <4>2. ASSUME NEW r \in Slots, slot'[r].fd = th[u].fd, th[u].fd # f
            PROVE  InTable(th[u].fd)
        BY <1>2, <1>4, <4>2 DEF InTable
      <4> QED
        BY <3>1, <3>3, <4>1, <4>2 DEF Path
    <3>9. Climbs(u) => slot'[At(u)].fd = NoFd /\ \E g \in Fds : Twins(th[u].fd, g)
      BY <1>4, <3>1, <3>2, <3>3, <3>6 DEF Path
    <3>10. th[u].pc \in {"incr", "store", "decr", "clear"} => slot'[At(u)].fd = th[u].fd
      BY <3>1, <3>2, <3>7 DEF Path
    <3>11. th[u].pc \in {"find", "mutex"} /\ th[u].i = 1 => slot'[Home(th[u].fd)].fd # th[u].fd
      BY <1>4, <3>1, <3>2, <3>3 DEF Path
    <3>12. th[u].pc \in {"lock", "session"} => th[u].i \in Slots /\ slot'[th[u].i].fd = th[u].fd
      BY <3>1, <3>7 DEF Path
    <3> QED
      BY <1>1, <3>1, <3>8, <3>9, <3>10, <3>11, <3>12 DEF Path
  <2> QED
    BY <2>1, <2>2
<1>11. NoClash'
  <2>1. ~Climbs(t)' /\ \A u \in Threads \ {t} : Climbs(u)' <=> Climbs(u)
    BY <1>8 DEF Climbs
  <2> QED
    BY <1>8, <2>1 DEF IInv, Tabled, NoClash
<1>12. \A h \in Handles : Busy(h)' <=> Busy(h)
  <2>1. \A h \in Handles : Engages(t, h)' <=> Engages(t, h)
    BY <1>1, <1>8 DEF Engages
  <2> QED
    BY <1>8, <2>1, BusyKept
<1>13. \A e : Shares(e)' = Shares(e)
  BY <1>1, <1>12 DEF Shares
<1>14. Registered'
  <2>1. \A e : e # NoFd /\ InTable(e) => InTable(e)'
    BY <1>a, <1>2, <1>4 DEF InTable
  <2> QED
    BY <1>1, <1>12, <2>1 DEF IInv, Tabled, Registered
<1>15. Counted'
  <2>1. Storing(s)'
    BY <1>8 DEF Storing
  <2>2. \A r \in Slots \ {s} : Storing(r)' <=> Storing(r)
    BY <1>1, <1>8, StoringKept
  <2> QED
    BY <1>4, <1>13, <2>1, <2>2 DEF IInv, Tabled, Counted
<1> QED
  BY <1>6, <1>7, <1>9, <1>10, <1>11, <1>14, <1>15 DEF IInv, Tabled

-----------------------------------------------------------------------------
(* Counts *)

LEMMA SharesFinite ==
  ASSUME NEW f
  PROVE  /\ IsFiniteSet(Shares(f)) /\ Cardinality(Shares(f)) \in Nat
         /\ Cardinality(Shares(f)) < CountMod
<1>1. Shares(f) \subseteq Handles
  BY DEF Shares
<1>2. IsFiniteSet(Handles) /\ Cardinality(Handles) \in Nat
  BY CountModAssumption, FS_CardinalityType
<1>3. IsFiniteSet(Shares(f)) /\ Cardinality(Shares(f)) <= Cardinality(Handles)
  BY <1>1, <1>2, FS_Subset
<1>4. Cardinality(Shares(f)) \in Nat
  BY <1>3, FS_CardinalityType
<1> QED
  BY <1>2, <1>3, <1>4, CountModAssumption

\* A handle that joins the share of a descriptor.
LEMMA OneMore ==
  ASSUME NEW f, NEW h \in Handles, h \notin Shares(f)
  PROVE  /\ Cardinality(Shares(f) \cup {h}) = Cardinality(Shares(f)) + 1
         /\ Cardinality(Shares(f)) + 1 < CountMod
<1>1. IsFiniteSet(Shares(f))
  BY SharesFinite
<1>2. Cardinality(Shares(f) \cup {h}) = Cardinality(Shares(f)) + 1
  BY <1>1, FS_AddElement
<1>3. Shares(f) \cup {h} \subseteq Handles /\ IsFiniteSet(Handles)
  BY CountModAssumption DEF Shares
<1>4. Cardinality(Shares(f) \cup {h}) <= Cardinality(Handles) /\ Cardinality(Handles) \in Nat
  BY <1>3, FS_Subset, FS_CardinalityType
<1> QED
  BY <1>2, <1>4, SharesFinite, CountModAssumption

\* One that leaves it.
LEMMA OneLess ==
  ASSUME NEW f, NEW h \in Shares(f)
  PROVE  /\ Cardinality(Shares(f) \ {h}) = Cardinality(Shares(f)) - 1
         /\ Cardinality(Shares(f)) >= 1
         /\ Cardinality(Shares(f)) = 1 => Shares(f) = {h}
         /\ Cardinality(Shares(f)) # 1 => \E g \in Shares(f) : g # h
<1>1. IsFiniteSet(Shares(f)) /\ Cardinality(Shares(f)) \in Nat
  BY SharesFinite
<1>2. Cardinality(Shares(f) \ {h}) = Cardinality(Shares(f)) - 1
  BY <1>1, FS_RemoveElement
<1>3. IsFiniteSet(Shares(f) \ {h}) /\ Cardinality(Shares(f) \ {h}) \in Nat
  BY <1>1, FS_Subset, FS_CardinalityType
<1>4. Cardinality(Shares(f) \ {h}) = 0 <=> Shares(f) \ {h} = {}
  BY <1>3, FS_EmptySet
<1> QED
  BY <1>1, <1>2, <1>3, <1>4

\* The slot of a thread that counts, and who else is there.
LEMMA CountingSlot ==
  ASSUME IInv, NEW t \in Threads, th[t].pc \in {"incr", "store", "decr", "clear"}
  PROVE  /\ At(t) \in Slots /\ th[t].fd \in Fds /\ slot[At(t)].fd = th[t].fd
         /\ th[t].h \in Handles /\ th[t].h # NoFd /\ fdOf[th[t].h] = th[t].fd
         /\ \A u \in Threads \ {t} :
              /\ th[u].h # th[t].h /\ th[u].src # th[t].h
              /\ ~(th[u].pc = "store" /\ At(u) = At(t))
         /\ \A r \in Slots \ {At(t)} : slot[r].fd # th[t].fd
<1>1. Retaining(t) \/ Releasing(t)
  BY DEF Retaining, Releasing
<1>2. th[t].fd \in Fds /\ th[t].h \in Handles /\ fdOf[th[t].h] = th[t].fd
  BY <1>1 DEF IInv, Handled, Frames
<1>3. At(t) \in Slots /\ slot[At(t)].fd = th[t].fd
  BY <1>2, ThreadType, SlotsAssumption, PlaceIsSlot DEF IInv, Tabled, Path, At
<1>4. th[t].h # NoFd
  BY <1>2, HandlesAssumption
<1>5. \A u \in Threads \ {t} : th[u].h # th[t].h /\ th[u].src # th[t].h
  BY <1>4 DEF IInv, Handled, Exclusive
<1>6. ASSUME NEW u \in Threads \ {t}, th[u].pc = "store", At(u) = At(t)
      PROVE  FALSE
  <2>1. th[u].fd = th[t].fd
    BY <1>3, <1>6 DEF IInv, Tabled, Path
  <2> QED
    BY <1>2, <1>5, <1>6, <2>1 DEF IInv, Handled, Solitary
<1>7. \A r \in Slots \ {At(t)} : slot[r].fd # th[t].fd
  <2>1. th[t].fd # NoFd
    BY <1>2, SlotsAssumption DEF NoFd
  <2> QED
    BY <1>3, <2>1 DEF IInv, Tabled, Placed
<1> QED
  BY <1>2, <1>3, <1>4, <1>5, <1>6, <1>7

\* A handle that is constructed joins the count.
LEMMA JoinsCount ==
  ASSUME IInv, NEW t \in Threads, th[t].pc \in {"incr", "store"}, NEW n \in 0..CountMod - 1,
         Write(At(t), slot[At(t)].fd, n), Return(t), UNCHANGED <<io, fdOf, open, raw>>,
         n = Cardinality(Shares(th[t].fd) \cup {th[t].h})
  PROVE  IInv'
<1>1. PICK s \in Slots, f \in Fds, h \in Handles : s = At(t) /\ f = th[t].fd /\ h = th[t].h
  BY CountingSlot
<1>2. /\ slot[s].fd = f /\ h # NoFd /\ fdOf[h] = f
      /\ \A u \in Threads \ {t} : /\ th[u].h # h /\ th[u].src # h
                                  /\ ~(th[u].pc = "store" /\ At(u) = s)
      /\ \A r \in Slots \ {s} : slot[r].fd # f
  BY <1>1, CountingSlot
<1>3. /\ slot' \in [Slots -> [fd : Fds \cup {NoFd}, cnt : 0..CountMod - 1]]
      /\ slot'[s].fd = f /\ slot'[s].cnt = n
      /\ \A r \in Slots \ {s} : slot'[r] = slot[r]
  BY <1>1, <1>2, WriteSlot DEF IInv
<1>4. Becomes(t, "idle", NoFd, NoFd, NoFd, 0)
  BY ReturnBecomes DEF IInv
<1>5. TypeOK'
  BY <1>3, <1>4 DEF IInv, TypeOK, Becomes
<1>6. Handled'
  BY ReturnFrom DEF IInv
<1>7. /\ th'[t].pc = "idle" /\ th'[t].h = NoFd
      /\ \A u \in Threads \ {t} : th'[u] = th[u]
  BY <1>4 DEF Becomes
<1>8. \A r \in Slots : slot'[r].fd = slot[r].fd
  BY <1>2, <1>3
<1>9. Placed'
  BY <1>8 DEF IInv, Tabled, Placed, Zone
<1>10. \A u \in Threads : Path(u)'
  <2>1. \A u \in Threads \ {t} : (th[u].pc # "idle" => th[u].fd \in Fds) /\ th[u].i \in Nat
    BY ThreadType, SlotsAssumption DEF IInv, Handled, Frames
  <2>2. \A u \in Threads \ {t} : Path(u)'
    BY <1>7, <1>8, <2>1, OthersPath DEF IInv, Tabled
  <2>3. Path(t)'
    BY <1>7 DEF Path, Climbs
  <2> QED
    BY <2>2, <2>3
<1>11. NoClash'
  <2>1. ~Climbs(t)' /\ \A u \in Threads \ {t} : Climbs(u)' <=> Climbs(u)
    BY <1>7 DEF Climbs
  <2> QED
    BY <1>7, <2>1 DEF IInv, Tabled, NoClash
<1>12. ~Busy(h)' /\ Busy(h)
  BY <1>1, <1>2, <1>7 DEF Busy
<1>13. \A g \in Handles \ {h} : Busy(g)' <=> Busy(g)
  <2>1. \A g \in Handles \ {h} : Engages(t, g)' <=> Engages(t, g)
    BY <1>1, <1>7, HandlesAssumption DEF Engages
  <2> QED
    BY <1>7, <2>1, BusyKept
<1>14. /\ Shares(f)' = Shares(f) \cup {h}
       /\ \A e : e # f => Shares(e)' = Shares(e)
  BY <1>2, <1>12, <1>13 DEF Shares
<1>15. Registered'
  <2>1. \A e : InTable(e)' <=> InTable(e)
    BY <1>8 DEF InTable
  <2>2. InTable(f)
    BY <1>2 DEF InTable
  <2> QED
    BY <1>2, <1>13, <2>1, <2>2 DEF IInv, Tabled, Registered
<1>16. Counted'
  <2>1. \A r \in Slots \ {s} : Storing(r)' <=> Storing(r)
    BY <1>1, <1>7, StoringKept
  <2>2. \A r \in Slots \ {s} : slot[r].fd # NoFd /\ ~Storing(r)
                                 => slot[r].cnt = Cardinality(Shares(slot[r].fd))
    BY DEF IInv, Tabled, Counted
  <2>3. ASSUME NEW r \in Slots, slot'[r].fd # NoFd, ~Storing(r)'
        PROVE  slot'[r].cnt = Cardinality(Shares(slot[r].fd)')
    <3>1. CASE r = s
      <4>1. Shares(slot[r].fd)' = Shares(f)'
        BY <1>3, <3>1
      <4> QED
        BY <1>1, <1>3, <1>14, <3>1, <4>1
    <3>2. CASE r # s
      <4>1. Shares(slot[r].fd)' = Shares(slot[r].fd)
        BY <1>2, <1>3, <1>14, <3>2
      <4> QED
        BY <1>3, <2>1, <2>2, <2>3, <3>2, <4>1
    <3> QED
      BY <3>1, <3>2
  <2> QED
    BY <2>3 DEF Counted
<1> QED
  BY <1>5, <1>6, <1>9, <1>10, <1>11, <1>15, <1>16 DEF IInv, Tabled

LEMMA IncrStep ==
  ASSUME IInv, NEW t \in Threads, RetainIncr(t)
  PROVE  IInv'
<1>1. th[t].pc = "incr"
  BY DEF RetainIncr
<1>2. PICK s \in Slots, f \in Fds, h \in Handles : s = At(t) /\ f = th[t].fd /\ h = th[t].h
  BY <1>1, CountingSlot
<1>3. slot[s].fd = f /\ f # NoFd /\ ~Storing(s)
  BY <1>1, <1>2, CountingSlot, SlotsAssumption DEF Storing, NoFd
<1>4. slot[s].cnt = Cardinality(Shares(f))
  BY <1>3 DEF IInv, Tabled, Counted
<1>5. h \notin Shares(f)
  BY <1>1, <1>2 DEF Shares, Busy
<1>6. /\ Cardinality(Shares(f) \cup {h}) = slot[s].cnt + 1
      /\ slot[s].cnt \in Nat /\ slot[s].cnt + 1 < CountMod /\ CountMod \in Nat
  BY <1>4, <1>5, OneMore, SharesFinite, CountModAssumption
<1>7. slot[s].cnt + 1 \in 0..CountMod - 1 /\ CountMod \in Nat \ {0}
  BY <1>6
<1>8. (slot[s].cnt + 1) % CountMod = slot[s].cnt + 1
  BY <1>7, ModSmall
<1> QED
  BY <1>1, <1>2, <1>6, <1>7, <1>8, JoinsCount DEF RetainIncr

LEMMA StoreStep ==
  ASSUME IInv, NEW t \in Threads, RetainStore(t)
  PROVE  IInv'
<1>1. th[t].pc = "store"
  BY DEF RetainStore
<1>2. PICK s \in Slots, f \in Fds, h \in Handles : s = At(t) /\ f = th[t].fd /\ h = th[t].h
  BY <1>1, CountingSlot
<1>3. \A g \in Handles : fdOf[g] = f => g = h
  BY <1>1, <1>2 DEF IInv, Handled, Solitary
<1>4. h \notin Shares(f)
  BY <1>1, <1>2 DEF Shares, Busy
<1>5. Shares(f) \cup {h} = {h}
  BY <1>3 DEF Shares
<1>6. Cardinality(Shares(f) \cup {h}) = 1
  BY <1>5, FS_Singleton
<1>7. 1 \in 0..CountMod - 1
  <2>1. Cardinality(Shares(f)) \in Nat /\ Cardinality(Shares(f)) + 1 < CountMod
    BY <1>4, OneMore, SharesFinite
  <2>2. CountMod \in Nat
    BY CountModAssumption
  <2> QED
    BY <2>1, <2>2
<1> QED
  BY <1>1, <1>2, <1>6, <1>7, JoinsCount DEF RetainStore

-----------------------------------------------------------------------------
(* release() and close() *)

\* A handle that is being reset is in the count until its decrement.
LEMMA HandleInTable ==
  ASSUME IInv, NEW t \in Threads, th[t].pc \in {"find", "decr"}
  PROVE  /\ th[t].h \in Handles /\ th[t].fd \in Fds /\ th[t].fd # NoFd
         /\ th[t].h \in Shares(th[t].fd) /\ InTable(th[t].fd)
<1>1. /\ th[t].h \in Handles /\ fdOf[th[t].h] = th[t].fd /\ th[t].fd \in Fds
      /\ th[t].h # NoFd /\ th[t].fd # NoFd
  <2>1. Releasing(t)
    BY DEF Releasing
  <2> QED
    BY <2>1, HandlesAssumption, SlotsAssumption DEF IInv, Handled, Frames, NoFd
<1>2. ~Busy(th[t].h)
  BY <1>1 DEF IInv, Handled, Exclusive, Busy
<1> QED
  BY <1>1, <1>2 DEF IInv, Tabled, Registered, Shares

\* A search for a descriptor that is in the table ends in its zone.
LEMMA SearchFinds ==
  ASSUME IInv, NEW t \in Threads, th[t].pc \in {"find", "mutex"}, InTable(th[t].fd)
  PROVE  /\ At(t) \in Slots
         /\ slot[At(t)].fd # th[t].fd
              => th[t].i = 0 /\ At(t) = Home(th[t].fd) /\ 1 < MaxSlots
<1>1. th[t].fd \in Fds /\ th[t].fd # NoFd /\ th[t].i \in {0, 1}
  BY SlotsAssumption DEF IInv, Handled, Frames, Tabled, Path, NoFd
<1>2. At(t) \in Slots
  BY <1>1, PlaceIsSlot DEF At
<1>3. PICK s \in Slots : slot[s].fd = th[t].fd /\ s \in Zone(th[t].fd)
  BY <1>1 DEF InTable, IInv, Tabled, Placed
<1>4. th[t].i = 1 => s = At(t)
  BY <1>3 DEF IInv, Tabled, Path, Zone, At
<1>5. th[t].i = 0 => At(t) = Home(th[t].fd)
  BY <1>1, PlaceZero DEF At
<1>6. ASSUME slot[At(t)].fd # th[t].fd
      PROVE  1 < MaxSlots
  <2>1. s # At(t)
    BY <1>3, <1>6
  <2> QED
    BY <1>2, <2>1, SlotsAssumption DEF Slots
<1> QED
  BY <1>1, <1>2, <1>3, <1>4, <1>5, <1>6

LEMMA FindStep ==
  ASSUME IInv, NEW t \in Threads, ReleaseFind(t)
  PROVE  IInv'
<1>1. /\ th[t].pc = "find" /\ Releasing(t) /\ InTable(th[t].fd) /\ th[t].fd \in Fds
      /\ UNCHANGED <<slot, io, open, raw>> /\ th[t].i \in 0..MaxSlots /\ th[t].i \in {0, 1}
  BY HandleInTable, ThreadType DEF ReleaseFind, Releasing, IInv, Tabled, Path
<1>2. {"find", "decr"} \subseteq Pcs
  BY DEF Pcs
<1>3. CASE slot[At(t)].fd = th[t].fd
  <2>1. Goto(t, "decr", th[t].i) /\ UNCHANGED fdOf
    BY <1>3 DEF ReleaseFind
  <2>2. Becomes(t, "decr", th[t].h, th[t].src, th[t].fd, th[t].i)
    BY <1>1, <1>2, <2>1, GotoBecomes DEF IInv
  <2>3. Path(t)'
    BY <1>1, <1>3, <2>2 DEF Becomes, Path, Climbs, At
  <2> QED
    BY <1>1, <1>2, <2>1, <2>2, <2>3, WalkType, MoveOn, WalkTabled DEF IInv
<1>4. CASE slot[At(t)].fd # th[t].fd
  <2>1. th[t].i = 0 /\ At(t) = Home(th[t].fd) /\ 1 < MaxSlots
    BY <1>1, <1>4, SearchFinds
  <2>2. Goto(t, "find", 1) /\ UNCHANGED fdOf /\ 1 \in 0..MaxSlots
    BY <1>4, <2>1, SlotsAssumption DEF ReleaseFind
  <2>3. Becomes(t, "find", th[t].h, th[t].src, th[t].fd, 1)
    BY <1>2, <2>2, GotoBecomes DEF IInv
  <2>4. Path(t)'
    BY <1>1, <1>4, <2>1, <2>3 DEF Becomes, Path, Climbs
  <2> QED
    BY <1>1, <1>2, <2>2, <2>3, <2>4, WalkType, MoveOn, WalkTabled DEF IInv
<1> QED
  BY <1>3, <1>4

LEMMA LeavesCount ==
  ASSUME IInv, NEW t \in Threads, th[t].pc = "decr", NEW n \in 0..CountMod - 1,
         Write(At(t), slot[At(t)].fd, n), UNCHANGED <<io, open, raw>>,
         n = Cardinality(Shares(th[t].fd) \ {th[t].h}),
         \/ Goto(t, "clear", th[t].i) /\ UNCHANGED fdOf /\ Only(t)
         \/ Emptied(t) /\ \E g \in Handles \ {th[t].h} : fdOf[g] = th[t].fd
  PROVE  IInv'
<1>1. PICK s \in Slots, f \in Fds, h \in Handles : s = At(t) /\ f = th[t].fd /\ h = th[t].h
  BY CountingSlot
<1>2. /\ slot[s].fd = f /\ h # NoFd /\ fdOf[h] = f /\ f # NoFd
      /\ \A u \in Threads \ {t} : /\ th[u].h # h /\ th[u].src # h
                                  /\ ~(th[u].pc = "store" /\ At(u) = s)
      /\ \A r \in Slots \ {s} : slot[r].fd # f
  BY <1>1, CountingSlot, SlotsAssumption DEF NoFd
<1>3. /\ slot' \in [Slots -> [fd : Fds \cup {NoFd}, cnt : 0..CountMod - 1]]
      /\ slot'[s].fd = f /\ slot'[s].cnt = n
      /\ \A r \in Slots \ {s} : slot'[r] = slot[r]
  BY <1>1, <1>2, WriteSlot DEF IInv
<1>4. Releasing(t) /\ "clear" \in Pcs /\ th[t].i \in 0..MaxSlots /\ th[t].src = NoFd
  BY ThreadType DEF Releasing, Pcs, IInv, Handled, Frames
<1>5. /\ th' \in [Threads -> Ops]
      /\ \A u \in Threads \ {t} : th'[u] = th[u]
      /\ \/ /\ th'[t].pc = "clear" /\ th'[t].h = h /\ th'[t].fd = f /\ th'[t].i = th[t].i
            /\ UNCHANGED fdOf
         \/ /\ th'[t].pc = "idle" /\ th'[t].h = NoFd
            /\ fdOf' = [fdOf EXCEPT ![h] = NoFd]
            /\ \E g \in Handles \ {h} : fdOf[g] = f
  BY <1>1, <1>4, GotoBecomes, ReturnBecomes DEF Becomes, Emptied, IInv
<1>6. /\ fdOf' \in [Handles -> Fds \cup {NoFd}]
      /\ fdOf'[h] \in {f, NoFd}
      /\ fdOf'[h] = f => th'[t].pc = "clear"
      /\ \A g \in Handles \ {h} : fdOf'[g] = fdOf[g]
  BY <1>2, <1>5, UpdateType DEF IInv, TypeOK
<1>7. TypeOK'
  BY <1>3, <1>5, <1>6 DEF IInv, TypeOK
<1>8. Handled'
  <2>1. CASE Goto(t, "clear", th[t].i) /\ UNCHANGED fdOf /\ Only(t)
    <3>1. Becomes(t, "clear", th[t].h, th[t].src, th[t].fd, th[t].i)
      BY <1>4, <2>1, GotoBecomes DEF IInv
    <3> QED
      BY <1>4, <2>1, <3>1, MoveOn DEF IInv
  <2>2. CASE Emptied(t) /\ \E g \in Handles \ {th[t].h} : fdOf[g] = th[t].fd
    BY <1>4, <2>2, EmptyHandle DEF IInv
  <2> QED
    BY <2>1, <2>2
<1>9. \A r \in Slots : slot'[r].fd = slot[r].fd
  BY <1>2, <1>3
<1>10. Placed'
  <2>1. ASSUME NEW r \in Slots, slot[r].fd # NoFd
        PROVE  \E g \in Handles : fdOf'[g] = slot[r].fd
    <3>1. CASE slot[r].fd = f
      BY <1>2, <1>5, <1>6, <3>1
    <3>2. CASE slot[r].fd # f
      <4>1. PICK g \in Handles : fdOf[g] = slot[r].fd
        BY <2>1 DEF IInv, Tabled, Placed
      <4> QED
        BY <1>2, <1>6, <3>2, <4>1
    <3> QED
      BY <3>1, <3>2
  <2> QED
    BY <1>9, <2>1 DEF IInv, Tabled, Placed, Zone
<1>11. \A u \in Threads : Path(u)'
  <2>1. \A u \in Threads \ {t} : (th[u].pc # "idle" => th[u].fd \in Fds) /\ th[u].i \in Nat
    BY ThreadType, SlotsAssumption DEF IInv, Handled, Frames
  <2>2. \A u \in Threads \ {t} : Path(u)'
    BY <1>5, <1>9, <2>1, OthersPath DEF IInv, Tabled
  <2>3. Path(t)'
    <3>1. CASE th'[t].pc = "idle"
      BY <3>1 DEF Path, Climbs
    <3>2. CASE th'[t].pc # "idle"
      <4>1. /\ th'[t].pc = "clear" /\ th'[t].fd = f /\ th'[t].i = th[t].i /\ th[t].i \in {0, 1}
        BY <1>5, <3>2 DEF IInv, Tabled, Path
      <4>2. At(t)' = s
        BY <1>1, <4>1 DEF At
      <4> QED
        BY <1>3, <4>1, <4>2 DEF Path, Climbs
    <3> QED
      BY <3>1, <3>2
  <2> QED
    BY <2>2, <2>3
<1>12. NoClash'
  <2>1. ~Climbs(t)' /\ \A u \in Threads \ {t} : Climbs(u)' <=> Climbs(u)
    BY <1>5 DEF Climbs
  <2> QED
    BY <1>5, <2>1 DEF IInv, Tabled, NoClash
<1>13. \A g \in Handles \ {h} : Busy(g)' <=> Busy(g)
  <2>1. \A g \in Handles \ {h} : Engages(t, g)' <=> Engages(t, g)
    BY <1>1, <1>5, HandlesAssumption DEF Engages
  <2> QED
    BY <1>5, <2>1, BusyKept
<1>14. fdOf'[h] = NoFd \/ Busy(h)'
  BY <1>1, <1>5, <1>6 DEF Busy
<1>15. /\ Shares(f)' = Shares(f) \ {h}
       /\ \A e \in Fds : e # f => Shares(e)' = Shares(e)
  <2>1. ASSUME NEW e \in Fds, NEW g \in Handles
        PROVE  (fdOf'[g] = e /\ ~Busy(g)') <=> (fdOf[g] = e /\ ~Busy(g) /\ g # h)
    <3>1. e # NoFd
      BY SlotsAssumption DEF NoFd
    <3> QED
      BY <1>6, <1>13, <1>14, <3>1
  <2> QED
    BY <1>2, <2>1 DEF Shares
<1>16. Registered'
  <2>1. \A e : InTable(e)' <=> InTable(e)
    BY <1>9 DEF InTable
  <2> QED
    BY <1>6, <1>13, <1>14, <2>1 DEF IInv, Tabled, Registered
<1>17. Counted'
  <2>1. \A r \in Slots \ {s} : Storing(r)' <=> Storing(r)
    BY <1>1, <1>5, StoringKept
  <2>2. \A r \in Slots \ {s} : slot[r].fd # NoFd /\ ~Storing(r)
                                 => slot[r].cnt = Cardinality(Shares(slot[r].fd))
    BY DEF IInv, Tabled, Counted
  <2>3. ASSUME NEW r \in Slots, slot'[r].fd # NoFd, ~Storing(r)'
        PROVE  slot'[r].cnt = Cardinality(Shares(slot[r].fd)')
    <3>1. CASE r = s
      <4>1. Shares(slot[r].fd)' = Shares(f)'
        BY <1>3, <3>1
      <4> QED
        BY <1>1, <1>3, <1>15, <3>1, <4>1
    <3>2. CASE r # s
      <4>1. slot[r].fd \in Fds /\ slot[r].fd # f
        BY <1>2, <1>9, <2>3, <3>2 DEF IInv, TypeOK
      <4>2. Shares(slot[r].fd)' = Shares(slot[r].fd)
        BY <1>3, <1>15, <3>2, <4>1
      <4> QED
        BY <1>3, <2>1, <2>2, <2>3, <3>2, <4>2
    <3> QED
      BY <3>1, <3>2
  <2> QED
    BY <2>3 DEF Counted
<1> QED
  BY <1>7, <1>8, <1>10, <1>11, <1>12, <1>16, <1>17 DEF IInv, Tabled

LEMMA DecrStep ==
  ASSUME IInv, NEW t \in Threads, ReleaseDecr(t)
  PROVE  IInv'
<1>1. th[t].pc = "decr"
  BY DEF ReleaseDecr
<1>2. PICK s \in Slots, f \in Fds, h \in Handles : s = At(t) /\ f = th[t].fd /\ h = th[t].h
  BY <1>1, CountingSlot
<1>3. slot[s].fd = f /\ f # NoFd /\ ~Storing(s) /\ h \in Shares(f) /\ h # NoFd
  BY <1>1, <1>2, CountingSlot, HandleInTable DEF Storing
<1>4. slot[s].cnt = Cardinality(Shares(f)) /\ slot[s].cnt \in Nat /\ slot[s].cnt < CountMod
  BY <1>3, SharesFinite DEF IInv, Tabled, Counted
<1>5. /\ Cardinality(Shares(f) \ {h}) = slot[s].cnt - 1 /\ slot[s].cnt >= 1
      /\ slot[s].cnt = 1 => Shares(f) = {h}
      /\ slot[s].cnt # 1 => \E g \in Shares(f) : g # h
  BY <1>3, <1>4, OneLess
<1>6. (slot[s].cnt + CountMod - 1) % CountMod = slot[s].cnt - 1
  <2>1. CountMod \in Nat \ {0}
    BY <1>4, CountModAssumption
  <2>2. slot[s].cnt + CountMod - 1 \in CountMod..2 * CountMod - 1
    BY <1>4, <1>5, <2>1
  <2>3. (slot[s].cnt + CountMod - 1) % CountMod = (slot[s].cnt + CountMod - 1) - CountMod
    BY <2>1, <2>2, ModOnceOver
  <2> QED
    BY <1>4, <2>1, <2>3
<1>7. slot[s].cnt - 1 \in 0..CountMod - 1
  BY <1>4, <1>5, CountModAssumption
<1>8. /\ Write(At(t), slot[At(t)].fd, slot[s].cnt - 1) /\ UNCHANGED <<io, open, raw>>
      /\ slot[s].cnt - 1 = Cardinality(Shares(th[t].fd) \ {th[t].h})
  BY <1>2, <1>5, <1>6 DEF ReleaseDecr
<1>9. CASE slot[s].cnt = 1
  <2>1. Only(t)
    <3> SUFFICES ASSUME NEW g \in Handles, fdOf[g] = f, g # h
                 PROVE  FALSE
      BY <1>2 DEF Only
    <3>1. Busy(g)
      BY <1>5, <1>9 DEF Shares
    <3>2. PICK u \in Threads :
            th[u].h = g /\ th[u].pc \in {"scan", "incr", "probe", "store", "clear", "close"}
      BY <3>1 DEF Busy
    <3>3. (Retaining(u) \/ Releasing(u)) /\ Releasing(t) /\ u # t
      BY <1>1, <1>2, <3>2 DEF Retaining, Releasing
    <3>4. th[u].fd = f
      BY <3>2, <3>3 DEF IInv, Handled, Frames
    <3>5. th[u].pc \notin {"clear", "close"}
      BY <1>2, <1>3, <3>2, <3>4 DEF IInv, Handled, Solitary, Shares
    <3>6. Retaining(u) /\ ~First(u)
      BY <1>2, <3>2, <3>3, <3>4, <3>5 DEF IInv, Handled, FirstAlone, Retaining
    <3>7. th[u].src \in Handles /\ fdOf[th[u].src] = f
      BY <3>4, <3>6, ThreadType DEF First, IInv, Handled, Frames
    <3>8. ~Busy(th[u].src)
      BY <3>6, <3>7, HandlesAssumption DEF IInv, Handled, Exclusive, Busy
    <3>9. th[u].src = h
      BY <1>5, <1>9, <3>7, <3>8 DEF Shares
    <3> QED
      BY <1>2, <1>3, <3>9 DEF IInv, Handled, Exclusive
  <2> QED
    BY <1>1, <1>2, <1>7, <1>8, <1>9, <2>1, LeavesCount DEF ReleaseDecr
<1>10. CASE slot[s].cnt # 1
  <2>1. \E g \in Handles \ {th[t].h} : fdOf[g] = th[t].fd
    BY <1>2, <1>5, <1>10 DEF Shares
  <2>2. Emptied(t)
    BY <1>2, <1>10 DEF ReleaseDecr
  <2> QED
    BY <1>1, <1>7, <1>8, <2>1, <2>2, LeavesCount
<1> QED
  BY <1>9, <1>10

LEMMA ClearStep ==
  ASSUME IInv, NEW t \in Threads, ReleaseClear(t)
  PROVE  IInv'
<1>1. /\ th[t].pc = "clear" /\ Releasing(t) /\ UNCHANGED <<io, fdOf, open, raw>>
      /\ th[t].i \in 0..MaxSlots /\ Only(t)
  BY ThreadType DEF ReleaseClear, Releasing, IInv, Handled, Solitary, Only
<1>2. PICK s \in Slots, f \in Fds, h \in Handles : s = At(t) /\ f = th[t].fd /\ h = th[t].h
  BY <1>1, CountingSlot
<1>3. /\ slot[s].fd = f /\ h # NoFd /\ fdOf[h] = f /\ f # NoFd
      /\ \A u \in Threads \ {t} : /\ th[u].h # h /\ th[u].src # h
                                  /\ ~(th[u].pc = "store" /\ At(u) = s)
      /\ \A r \in Slots \ {s} : slot[r].fd # f
      /\ \A g \in Handles : fdOf[g] = f => g = h
  BY <1>1, <1>2, CountingSlot, SlotsAssumption DEF NoFd, Only
<1>4. /\ slot' \in [Slots -> [fd : Fds \cup {NoFd}, cnt : 0..CountMod - 1]]
      /\ slot'[s].fd = NoFd
      /\ \A r \in Slots \ {s} : slot'[r] = slot[r]
  <2>1. slot[s].cnt \in 0..CountMod - 1 /\ Write(s, NoFd, slot[s].cnt)
    BY <1>2 DEF ReleaseClear, IInv, TypeOK
  <2> QED
    BY <2>1, WriteSlot DEF IInv
<1>5. Becomes(t, "close", th[t].h, th[t].src, th[t].fd, th[t].i) /\ "close" \in Pcs
  BY <1>1, GotoBecomes DEF IInv, Pcs, ReleaseClear
<1>6. TypeOK'
  BY <1>1, <1>4, <1>5 DEF IInv, TypeOK, Becomes
<1>7. Handled'
  BY <1>1, <1>5, MoveOn DEF IInv
<1>8. /\ th'[t].pc = "close" /\ th'[t].i = th[t].i /\ th'[t].h = h /\ th'[t].fd = f
      /\ \A u \in Threads \ {t} : th'[u] = th[u]
  BY <1>2, <1>5 DEF Becomes
<1>9. Placed'
  BY <1>1, <1>4 DEF IInv, Tabled, Placed, Zone
<1>10. \A u \in Threads : Path(u)'
  <2>1. Path(t)'
    <3>1. ~InTable(th[t].fd)'
      BY <1>3, <1>4, <1>8 DEF InTable
    <3> QED
      BY <1>8, <3>1 DEF Path, Climbs
  <2>2. ASSUME NEW u \in Threads \ {t}
        PROVE  Path(u)'
    <3>1. /\ Path(u) /\ th'[u] = th[u] /\ (Climbs(u)' <=> Climbs(u)) /\ At(u)' = At(u)
          /\ th[u].pc # "idle" => th[u].fd \in Fds
          /\ th[u].i \in Nat
      BY <1>8, ThreadType, SlotsAssumption DEF IInv, Tabled, Climbs, At, Handled, Frames
    <3>2. th[u].pc # "idle" => At(u) \in Slots /\ Home(th[u].fd) \in Slots
      BY <3>1, PlaceIsSlot, HomeIsSlot DEF At
    <3>3. Climbs(u) => th[u].pc # "idle"
      BY DEF Climbs
    <3>4. th[u].pc \in {"incr", "store", "decr", "clear", "lock", "session"} => th[u].fd # f
      <4>1. Retaining(u) \/ Releasing(u) => th[u].fd # f
        BY <1>3 DEF IInv, Handled, Frames
      <4>2. th[u].pc \in {"lock", "session"} => th[u].fd # f
        BY <1>3 DEF IInv, Handled, Frames
      <4> QED
        BY <4>1, <4>2 DEF Retaining, Releasing
    <3>5. \A r \in Slots : slot[r].fd # f => slot'[r].fd = slot[r].fd
      BY <1>3, <1>4
    <3>6. th[u].pc \in {"probe", "close"} \/ (th[u].pc = "scan" /\ th[u].fd \notin Shared)
            => ~InTable(th[u].fd)'
      <4>1. InTable(th[u].fd)' => \E r \in Slots : slot'[r].fd = th[u].fd
        BY <3>1 DEF InTable
      <4>2. ASSUME NEW r \in Slots, slot'[r].fd = th[u].fd, th[u].fd # NoFd
            PROVE  InTable(th[u].fd)
        BY <1>4, <4>2 DEF InTable
      <4> QED
        BY <3>1, <4>1, <4>2, SlotsAssumption DEF Path, NoFd
    <3>7. Climbs(u) => slot'[At(u)].fd = NoFd /\ \E g \in Fds : Twins(th[u].fd, g)
      BY <1>4, <3>1, <3>2, <3>3 DEF Path
    <3>8. th[u].pc \in {"incr", "store", "decr", "clear"} => slot'[At(u)].fd = th[u].fd
      BY <3>1, <3>2, <3>4, <3>5 DEF Path
    <3>9. th[u].pc \in {"find", "mutex"} /\ th[u].i = 1 => slot'[Home(th[u].fd)].fd # th[u].fd
      BY <1>4, <3>1, <3>2, SlotsAssumption DEF Path, NoFd
    <3>10. th[u].pc \in {"lock", "session"} => th[u].i \in Slots /\ slot'[th[u].i].fd = th[u].fd
      BY <3>1, <3>4, <3>5 DEF Path
    <3> QED
      BY <1>1, <3>1, <3>6, <3>7, <3>8, <3>9, <3>10 DEF Path
  <2> QED
    BY <2>1, <2>2
<1>11. NoClash'
  <2>1. ~Climbs(t)' /\ \A u \in Threads \ {t} : Climbs(u)' <=> Climbs(u)
    BY <1>8 DEF Climbs
  <2> QED
    BY <1>8, <2>1 DEF IInv, Tabled, NoClash
<1>12. \A g \in Handles : Busy(g)' <=> Busy(g)
  <2>1. \A g \in Handles : Engages(t, g)' <=> Engages(t, g)
    BY <1>1, <1>2, <1>8 DEF Engages
  <2> QED
    BY <1>8, <2>1, BusyKept
<1>13. \A e : Shares(e)' = Shares(e)
  BY <1>1, <1>12 DEF Shares
<1>14. Registered'
  <2>1. Busy(h)
    BY <1>1, <1>2 DEF Busy
  <2>2. \A e : e # f /\ InTable(e) => InTable(e)'
    BY <1>3, <1>4 DEF InTable
  <2> QED
    BY <1>1, <1>3, <1>12, <2>1, <2>2 DEF IInv, Tabled, Registered
<1>15. Counted'
  <2>1. \A r \in Slots : Storing(r)' <=> Storing(r)
    BY <1>1, <1>8, StoringKept
  <2> QED
    BY <1>4, <1>13, <2>1 DEF IInv, Tabled, Counted
<1> QED
  BY <1>6, <1>7, <1>9, <1>10, <1>11, <1>14, <1>15 DEF IInv, Tabled

LEMMA CloseStep ==
  ASSUME IInv, NEW t \in Threads, Close(t)
  PROVE  IInv'
<1>1. /\ th[t].pc = "close" /\ Releasing(t) /\ Emptied(t) /\ UNCHANGED <<slot, io, raw>>
      /\ open' = open \ {th[t].fd} /\ Only(t)
  BY DEF Close, Releasing, IInv, Handled, Solitary, Only
<1>2. /\ th[t].h \in Handles /\ th[t].fd \in Fds /\ fdOf[th[t].h] = th[t].fd
      /\ ~InTable(th[t].fd)
  BY <1>1 DEF IInv, Handled, Frames, Tabled, Path
<1>3. PICK h \in Handles, f \in Fds : h = th[t].h /\ f = th[t].fd
  BY <1>2
<1>4. /\ fdOf[h] = f /\ f # NoFd /\ ~InTable(f) /\ h # NoFd
      /\ \A g \in Handles : fdOf[g] = f => g = h
  BY <1>1, <1>2, <1>3, SlotsAssumption, HandlesAssumption DEF NoFd, Only
<1>5. /\ fdOf' \in [Handles -> Fds \cup {NoFd}] /\ fdOf'[h] = NoFd
      /\ \A g \in Handles \ {h} : fdOf'[g] = fdOf[g]
  BY <1>1, <1>3, UpdateType DEF Emptied, IInv, TypeOK
<1>6. /\ th' \in [Threads -> Ops] /\ th'[t].pc = "idle" /\ th'[t].h = NoFd
      /\ \A u \in Threads \ {t} : th'[u] = th[u]
  BY <1>1, ReturnBecomes DEF Becomes, Emptied, IInv
<1>7. TypeOK'
  <2>1. f \in open \ raw
    BY <1>4 DEF IInv, Handled, Held
  <2> QED
    BY <1>1, <1>3, <1>5, <1>6, <2>1 DEF IInv, TypeOK
<1>8. Handled'
  BY <1>1, EmptyHandle DEF IInv
<1>9. \A r \in Slots : slot[r].fd # f
  BY <1>4 DEF InTable
<1>10. Placed'
  BY <1>1, <1>4, <1>5, <1>9 DEF IInv, Tabled, Placed, Zone
<1>11. \A u \in Threads : Path(u)'
  <2>1. \A u \in Threads \ {t} : (th[u].pc # "idle" => th[u].fd \in Fds) /\ th[u].i \in Nat
    BY ThreadType, SlotsAssumption DEF IInv, Handled, Frames
  <2>2. \A u \in Threads \ {t} : Path(u)'
    BY <1>1, <1>6, <2>1, OthersPath DEF IInv, Tabled
  <2>3. Path(t)'
    BY <1>6 DEF Path, Climbs
  <2> QED
    BY <2>2, <2>3
<1>12. NoClash'
  <2>1. ~Climbs(t)' /\ \A u \in Threads \ {t} : Climbs(u)' <=> Climbs(u)
    BY <1>6 DEF Climbs
  <2> QED
    BY <1>6, <2>1 DEF IInv, Tabled, NoClash
<1>13. \A g \in Handles \ {h} : Busy(g)' <=> Busy(g)
  <2>1. \A g \in Handles \ {h} : Engages(t, g)' <=> Engages(t, g)
    BY <1>3, <1>6, HandlesAssumption DEF Engages
  <2> QED
    BY <1>6, <2>1, BusyKept
<1>14. \A r \in Slots : Storing(r)' <=> Storing(r)
  BY <1>1, <1>6, StoringKept
<1>15. \A e : e # f /\ e # NoFd => Shares(e)' = Shares(e)
  BY <1>4, <1>5, <1>13 DEF Shares
<1>16. Registered'
  <2>1. \A e : InTable(e)' <=> InTable(e)
    BY <1>1 DEF InTable
  <2> QED
    BY <1>5, <1>13, <2>1 DEF IInv, Tabled, Registered
<1>17. Counted'
  BY <1>1, <1>9, <1>14, <1>15 DEF IInv, Tabled, Counted
<1> QED
  BY <1>7, <1>8, <1>10, <1>11, <1>12, <1>16, <1>17 DEF IInv, Tabled

-----------------------------------------------------------------------------
(* lock() and the start of reset() *)

\* A step that changes neither the table nor the handles.
LEMMA QuietTabled ==
  ASSUME IInv, NEW t \in Threads, UNCHANGED <<slot, fdOf>>,
         \A u \in Threads \ {t} : th'[u] = th[u],
         \A u \in Threads \ {t} : th[u].pc = "session" => io'[th[u].i] = io[th[u].i],
         th[t].pc \in {"idle", "session"}, th'[t].pc \in {"idle", "find", "mutex"},
         Path(t)'
  PROVE  Tabled'
<1>1. Placed'
  BY DEF IInv, Tabled, Placed
<1>2. \A u \in Threads \ {t} : Path(u)'
  <2>1. \A u \in Threads : (th[u].pc # "idle" => th[u].fd \in Fds) /\ th[u].i \in Nat
    BY ThreadType, SlotsAssumption DEF IInv, Handled, Frames
  <2> QED
    BY <2>1, OthersPath DEF IInv, Tabled
<1>3. NoClash'
  <2>1. ~Climbs(t)' /\ \A u \in Threads \ {t} : Climbs(u)' <=> Climbs(u)
    BY DEF Climbs
  <2> QED
    BY <2>1 DEF IInv, Tabled, NoClash
<1>4. \A h \in Handles : Busy(h)' <=> Busy(h)
  <2>1. \A h \in Handles : Engages(t, h)' <=> Engages(t, h)
    BY DEF Engages
  <2> QED
    BY <2>1, BusyKept
<1>5. \A s \in Slots : Storing(s)' <=> Storing(s)
  BY StoringKept
<1> QED
  BY <1>1, <1>2, <1>3, <1>4, <1>5, CountsKept DEF IInv, Tabled

LEMMA ResetStep ==
  ASSUME IInv, NEW t \in Threads, NEW h \in Handles, Reset(t, h)
  PROVE  IInv'
<1>1. /\ Becomes(t, "find", h, NoFd, fdOf[h], 0) /\ UNCHANGED <<slot, io, fdOf, open, raw>>
      /\ th[t].pc = "idle"
  BY ResetBecomes DEF IInv, Reset
<1>2. TypeOK'
  BY <1>1 DEF IInv, TypeOK, Becomes
<1>3. Handled'
  BY ResetHandled DEF IInv
<1>4. Path(t)'
  BY <1>1 DEF Becomes, Path, Climbs
<1> QED
  BY <1>1, <1>2, <1>3, <1>4, QuietTabled DEF IInv, Becomes

LEMMA LockStep ==
  ASSUME IInv, NEW t \in Threads, NEW h \in Handles, Lock(t, h)
  PROVE  IInv'
<1>1. /\ Becomes(t, "mutex", NoFd, h, fdOf[h], 0) /\ UNCHANGED <<slot, io, fdOf, open, raw>>
      /\ th[t].pc = "idle"
  BY LockBecomes DEF IInv, Lock
<1>2. TypeOK'
  BY <1>1 DEF IInv, TypeOK, Becomes
<1>3. Handled'
  BY LockHandled DEF IInv
<1>4. Path(t)'
  BY <1>1 DEF Becomes, Path, Climbs
<1> QED
  BY <1>1, <1>2, <1>3, <1>4, QuietTabled DEF IInv, Becomes

LEMMA MutexStep ==
  ASSUME IInv, NEW t \in Threads, GetMutex(t)
  PROVE  IInv'
<1>1. /\ th[t].pc = "mutex" /\ UNCHANGED <<slot, io, fdOf, open, raw>>
  BY DEF GetMutex
<1>2. InTable(th[t].fd) /\ th[t].fd \in Fds
  <2>1. th[t].src # NoFd /\ th[t].fd \in Fds
    BY <1>1, HandlesAssumption DEF IInv, Handled, Frames
  <2> QED
    BY <1>1, <2>1, SourceInTable
<1>3. {"mutex", "lock"} \subseteq Pcs
  BY DEF Pcs
<1>4. At(t) \in Slots
  BY <1>1, <1>2, SearchFinds
<1>5. CASE slot[At(t)].fd = th[t].fd
  <2>1. Goto(t, "lock", At(t)) /\ At(t) \in 0..MaxSlots
    BY <1>4, <1>5, SlotsAssumption DEF GetMutex, Slots
  <2>2. Becomes(t, "lock", th[t].h, th[t].src, th[t].fd, At(t))
    BY <1>3, <2>1, GotoBecomes DEF IInv
  <2>3. Path(t)'
    BY <1>1, <1>4, <1>5, <2>2 DEF Becomes, Path, Climbs
  <2> QED
    BY <1>1, <1>3, <2>1, <2>2, <2>3, WalkType, MoveOn, WalkTabled DEF IInv
<1>6. CASE slot[At(t)].fd # th[t].fd
  <2>1. th[t].i = 0 /\ At(t) = Home(th[t].fd) /\ 1 < MaxSlots
    BY <1>1, <1>2, <1>6, SearchFinds
  <2>2. Goto(t, "mutex", 1) /\ 1 \in 0..MaxSlots
    BY <1>1, <1>6, <2>1, SlotsAssumption DEF GetMutex, Advance
  <2>3. Becomes(t, "mutex", th[t].h, th[t].src, th[t].fd, 1)
    BY <1>3, <2>2, GotoBecomes DEF IInv
  <2>4. Path(t)'
    BY <1>1, <1>6, <2>1, <2>3 DEF Becomes, Path, Climbs
  <2> QED
    BY <1>1, <1>3, <2>2, <2>3, <2>4, WalkType, MoveOn, WalkTabled DEF IInv
<1> QED
  BY <1>5, <1>6

LEMMA SessionBeginStep ==
  ASSUME IInv, NEW t \in Threads, SessionBegin(t)
  PROVE  IInv'
<1>1. /\ th[t].pc = "lock" /\ UNCHANGED <<slot, fdOf, open, raw>>
      /\ th[t].i \in Slots /\ slot[th[t].i].fd = th[t].fd /\ th[t].i \in 0..MaxSlots
  BY ThreadType DEF SessionBegin, IInv, Tabled, Path
<1>2. PICK m \in 0..MaxSlots : m = th[t].i
  BY <1>1
<1>3. /\ io' \in [0..MaxSlots -> Threads \cup {NoThread}] /\ io[m] = NoThread /\ io'[m] = t
      /\ \A n \in (0..MaxSlots) \ {m} : io'[n] = io[n]
  BY <1>2, UpdateType DEF SessionBegin, IInv, TypeOK
<1>4. Becomes(t, "session", th[t].h, th[t].src, th[t].fd, th[t].i) /\ "session" \in Pcs
  BY <1>1, GotoBecomes DEF SessionBegin, IInv, Pcs
<1>5. TypeOK'
  BY <1>1, <1>3, <1>4 DEF IInv, TypeOK, Becomes
<1>6. Handled'
  BY <1>1, <1>4, MoveOn DEF IInv
<1>7. \A u \in Threads \ {t} : th[u].pc = "session" => io'[th[u].i] = io[th[u].i]
  <2> SUFFICES ASSUME NEW u \in Threads \ {t}, th[u].pc = "session"
               PROVE  io'[th[u].i] = io[th[u].i]
    OBVIOUS
  <2>1. io[th[u].i] = u /\ th[u].i \in 0..MaxSlots
    BY ThreadType DEF IInv, Tabled, Path
  <2>2. u # NoThread
    BY NoThreadAssumption
  <2> QED
    BY <1>3, <2>1, <2>2
<1>8. Path(t)'
  BY <1>1, <1>2, <1>3, <1>4 DEF Becomes, Path, Climbs
<1> QED
  BY <1>1, <1>4, <1>5, <1>6, <1>7, <1>8, WalkTabled DEF IInv, SessionBegin

LEMMA SessionEndStep ==
  ASSUME IInv, NEW t \in Threads, SessionEnd(t)
  PROVE  IInv'
<1>1. /\ th[t].pc = "session" /\ UNCHANGED <<slot, fdOf, open, raw>> /\ Return(t)
      /\ io[th[t].i] = t
  BY DEF SessionEnd, IInv, Tabled, Path
<1>2. PICK m \in 0..MaxSlots : m = th[t].i
  BY ThreadType DEF IInv
<1>3. /\ io' \in [0..MaxSlots -> Threads \cup {NoThread}]
      /\ \A n \in (0..MaxSlots) \ {m} : io'[n] = io[n]
  BY <1>2, UpdateType DEF SessionEnd, IInv, TypeOK
<1>4. Becomes(t, "idle", NoFd, NoFd, NoFd, 0)
  BY <1>1, ReturnBecomes DEF IInv
<1>5. TypeOK'
  BY <1>1, <1>3, <1>4 DEF IInv, TypeOK, Becomes
<1>6. Handled'
  BY <1>1, ReturnFrom DEF IInv
<1>7. \A u \in Threads \ {t} : th[u].pc = "session" => io'[th[u].i] = io[th[u].i]
  <2> SUFFICES ASSUME NEW u \in Threads \ {t}, th[u].pc = "session"
               PROVE  io'[th[u].i] = io[th[u].i]
    OBVIOUS
  <2>1. io[th[u].i] = u /\ th[u].i \in 0..MaxSlots
    BY ThreadType DEF IInv, Tabled, Path
  <2> QED
    BY <1>1, <1>2, <1>3, <2>1
<1>8. Path(t)'
  BY <1>4 DEF Becomes, Path, Climbs
<1> QED
  BY <1>1, <1>4, <1>5, <1>6, <1>7, <1>8, QuietTabled DEF IInv, Becomes

-----------------------------------------------------------------------------
(* Constructors and moves *)

LEMMA ObtainsTabled ==
  ASSUME IInv, NEW t \in Threads, NEW h \in Handles, NEW src \in Handles \cup {NoFd},
         NEW f \in Fds, Obtains(t, h, src, f)
  PROVE  Tabled'
<1>1. /\ Becomes(t, "scan", h, src, f, 0) /\ fdOf'[h] = f
      /\ \A g \in Handles \ {h} : fdOf'[g] = fdOf[g]
  BY ObtainsBecomes DEF IInv
<1>2. /\ th'[t].pc = "scan" /\ th'[t].h = h /\ th'[t].fd = f /\ th'[t].i = 0
      /\ \A u \in Threads \ {t} : th'[u] = th[u]
  BY <1>1 DEF Becomes
<1>3. /\ th[t].pc = "idle" /\ th[t].h = NoFd /\ h # NoFd /\ fdOf[h] = NoFd /\ f # NoFd
      /\ UNCHANGED <<slot, io>>
      /\ \A u \in Threads : th[u].h # h
  BY HandlesAssumption, SlotsAssumption
     DEF Obtains, Unused, Stable, IInv, Handled, Frames, NoFd
<1>4. Placed'
  BY <1>1, <1>3 DEF IInv, Tabled, Placed, Zone
<1>5. \A u \in Threads : Path(u)'
  <2>1. \A u \in Threads \ {t} : (th[u].pc # "idle" => th[u].fd \in Fds) /\ th[u].i \in Nat
    BY ThreadType, SlotsAssumption DEF IInv, Handled, Frames
  <2>2. \A u \in Threads \ {t} : Path(u)'
    BY <1>2, <1>3, <2>1, OthersPath DEF IInv, Tabled
  <2>3. f \notin Shared => ~InTable(f)
    BY <1>3 DEF Obtains, InTable, IInv, Tabled, Placed
  <2>4. InTable(th[t].fd)' <=> InTable(f)
    BY <1>2, <1>3 DEF InTable
  <2>5. Path(t)'
    BY <1>2, <2>3, <2>4 DEF Path, Climbs
  <2> QED
    BY <2>2, <2>5
<1>6. NoClash'
  <2>1. ~Climbs(t)' /\ \A u \in Threads \ {t} : Climbs(u)' <=> Climbs(u)
    BY <1>2 DEF Climbs
  <2> QED
    BY <1>2, <2>1 DEF IInv, Tabled, NoClash
<1>7. Busy(h)' /\ \A g \in Handles \ {h} : Busy(g)' <=> Busy(g)
  <2>1. \A g \in Handles \ {h} : Engages(t, g)' <=> Engages(t, g)
    BY <1>2, <1>3, HandlesAssumption DEF Engages
  <2>2. Busy(h)'
    BY <1>2 DEF Busy
  <2> QED
    BY <1>2, <2>1, <2>2, BusyKept
<1>8. \A r \in Slots : Storing(r)' <=> Storing(r)
  BY <1>2, <1>3, StoringKept
<1>9. \A e : e # NoFd => Shares(e)' = Shares(e)
  BY <1>1, <1>3, <1>7 DEF Shares
<1>10. Registered'
  <2>1. \A e : InTable(e)' <=> InTable(e)
    BY <1>3 DEF InTable
  <2> QED
    BY <1>1, <1>7, <2>1 DEF IInv, Tabled, Registered
<1>11. Counted'
  BY <1>3, <1>8, <1>9 DEF IInv, Tabled, Counted
<1> QED
  BY <1>4, <1>5, <1>6, <1>10, <1>11 DEF Tabled

LEMMA ObtainsType ==
  ASSUME TypeOK, NEW t \in Threads, NEW h \in Handles, NEW src \in Handles \cup {NoFd},
         NEW f \in Fds, Obtains(t, h, src, f), open' \subseteq Fds, raw' \subseteq open'
  PROVE  TypeOK'
<1>1. Becomes(t, "scan", h, src, f, 0) /\ fdOf' \in [Handles -> Fds \cup {NoFd}]
  BY ObtainsBecomes
<1>2. UNCHANGED <<slot, io>>
  BY DEF Obtains
<1> QED
  BY <1>1, <1>2 DEF TypeOK, Becomes

LEMMA OpenStep ==
  ASSUME IInv, NEW t \in Threads, NEW h \in Handles, Open(t, h)
  PROVE  IInv'
<1>1. PICK f \in Fds : Obtains(t, h, NoFd, f) /\ open' = open \cup {f} /\ UNCHANGED raw
  BY OpenObtains DEF IInv
<1>2. open' \subseteq Fds /\ raw' \subseteq open'
  BY <1>1 DEF IInv, TypeOK
<1> QED
  BY <1>1, <1>2, ObtainsType, ObtainsHandled, ObtainsTabled DEF IInv

LEMMA WrapStep ==
  ASSUME Roomy, IInv, NEW t \in Threads, NEW h \in Handles, Wrap(t, h)
  PROVE  IInv'
<1>1. PICK f \in Fds : Obtains(t, h, NoFd, f) /\ UNCHANGED open /\ raw' = raw \ {f}
  BY WrapObtains DEF IInv
<1>2. open' \subseteq Fds /\ raw' \subseteq open'
  BY <1>1 DEF IInv, TypeOK
<1> QED
  BY <1>1, <1>2, ObtainsType, ObtainsHandled, ObtainsTabled DEF IInv

LEMMA CopyStep ==
  ASSUME IInv, NEW t \in Threads, NEW h \in Handles, NEW g \in Handles, Copy(t, h, g)
  PROVE  IInv'
<1>1. PICK f \in Fds : Obtains(t, h, g, f) /\ UNCHANGED <<open, raw>>
  BY CopyObtains DEF IInv
<1>2. open' \subseteq Fds /\ raw' \subseteq open'
  BY <1>1 DEF IInv, TypeOK
<1> QED
  BY <1>1, <1>2, ObtainsType, ObtainsHandled, ObtainsTabled DEF IInv

LEMMA MoveStep ==
  ASSUME IInv, NEW t \in Threads, NEW h \in Handles, NEW g \in Handles, Move(t, h, g)
  PROVE  IInv'
<1>1. PICK f \in Fds : f = fdOf[g]
  BY DEF Move, IInv, TypeOK
<1>2. /\ h # g /\ fdOf[h] = NoFd /\ f # NoFd
      /\ fdOf' \in [Handles -> Fds \cup {NoFd}]
      /\ fdOf'[h] = f /\ fdOf'[g] = NoFd
      /\ \A e \in Handles \ {g, h} : fdOf'[e] = fdOf[e]
      /\ \A u \in Threads : th[u].h \notin {g, h} /\ th[u].src \notin {g, h}
      /\ UNCHANGED <<slot, io, open, raw, th>>
  BY <1>1, MoveFacts DEF IInv
<1>3. TypeOK'
  BY <1>2 DEF IInv, TypeOK
<1>4. Handled'
  BY MoveHandled DEF IInv
<1>5. Placed'
  <2>1. ASSUME NEW r \in Slots, slot[r].fd # NoFd
        PROVE  \E e \in Handles : fdOf'[e] = slot[r].fd
    <3>1. PICK e \in Handles : fdOf[e] = slot[r].fd
      BY <2>1 DEF IInv, Tabled, Placed
    <3> QED
      BY <1>1, <1>2, <2>1, <3>1
  <2> QED
    BY <1>2, <2>1 DEF IInv, Tabled, Placed, Zone
<1>6. (\A u \in Threads : Path(u)') /\ NoClash'
  BY <1>2 DEF IInv, Tabled, Path, NoClash, Climbs, InTable, At
<1>7. \A e : Busy(e)' <=> Busy(e)
  BY <1>2 DEF Busy
<1>8. ~Busy(g) /\ ~Busy(h)
  BY <1>2 DEF Busy
<1>9. \A r : Storing(r)' <=> Storing(r)
  BY <1>2 DEF Storing, At
<1>10. Registered'
  <2>1. \A e : InTable(e)' <=> InTable(e)
    BY <1>2 DEF InTable
  <2>2. InTable(f)
    BY <1>1, <1>2, <1>8 DEF IInv, Tabled, Registered
  <2> QED
    BY <1>2, <1>7, <2>1, <2>2 DEF IInv, Tabled, Registered
<1>11. /\ \A e : e \notin {f, NoFd} => Shares(e)' = Shares(e)
       /\ Shares(f)' = (Shares(f) \ {g}) \cup {h}
       /\ g \in Shares(f) /\ h \notin Shares(f)
  BY <1>1, <1>2, <1>7, <1>8 DEF Shares
<1>12. Cardinality(Shares(f)') = Cardinality(Shares(f))
  <2>1. IsFiniteSet(Shares(f)) /\ Cardinality(Shares(f)) \in Nat
    BY SharesFinite
  <2>2. IsFiniteSet(Shares(f) \ {g}) /\ h \notin Shares(f) \ {g}
    BY <1>11, <2>1, FS_RemoveElement
  <2>3. /\ Cardinality(Shares(f) \ {g}) = Cardinality(Shares(f)) - 1
        /\ Cardinality((Shares(f) \ {g}) \cup {h}) = Cardinality(Shares(f) \ {g}) + 1
    BY <1>11, <2>1, <2>2, FS_RemoveElement, FS_AddElement
  <2> QED
    BY <1>11, <2>1, <2>3
<1>13. Counted'
  <2>1. ASSUME NEW r \in Slots, slot'[r].fd # NoFd, ~Storing(r)'
        PROVE  slot'[r].cnt = Cardinality(Shares(slot[r].fd)')
    <3>1. slot[r].cnt = Cardinality(Shares(slot[r].fd))
      BY <1>2, <1>9, <2>1 DEF IInv, Tabled, Counted
    <3>2. CASE slot[r].fd = f
      <4>1. Shares(slot[r].fd)' = Shares(f)'
        BY <1>2, <3>2
      <4> QED
        BY <1>2, <1>12, <3>1, <3>2, <4>1
    <3>3. CASE slot[r].fd # f
      BY <1>2, <1>11, <2>1, <3>1, <3>3
    <3> QED
      BY <3>2, <3>3
  <2> QED
    BY <2>1 DEF Counted
<1> QED
  BY <1>3, <1>4, <1>5, <1>6, <1>10, <1>13 DEF IInv, Tabled

-----------------------------------------------------------------------------
(* Invariance *)

LEMMA InitIInv == Init => IInv
<1> SUFFICES ASSUME Init
             PROVE  IInv
  OBVIOUS
<1>1. TypeOK
  <2>1. [fd |-> NoFd, cnt |-> 0] \in [fd : Fds \cup {NoFd}, cnt : 0..CountMod - 1]
    <3>1. CountMod \in Nat /\ Cardinality(Handles) \in Nat /\ CountMod > Cardinality(Handles)
      BY CountModAssumption, FS_CardinalityType
    <3>2. 0 \in 0..CountMod - 1
      BY <3>1
    <3> QED
      BY <3>2
  <2>2. Idle \in Ops
    BY SlotsAssumption DEF Idle, Ops, Pcs
  <2> QED
    BY <2>1, <2>2, SlotsAssumption DEF Init, TypeOK
<1>2. \A t \in Threads : th[t].pc = "idle" /\ th[t].h = NoFd /\ th[t].src = NoFd
  BY DEF Init, Idle
<1>3. \A s \in Slots : slot[s].fd = NoFd
  BY DEF Init
<1>4. Handled
  <2>1. Frames /\ Exclusive /\ FirstAlone /\ Solitary
    BY <1>2 DEF Frames, Exclusive, FirstAlone, Solitary, First, Retaining, Releasing
  <2>2. Held
    BY DEF Init, Held
  <2> QED
    BY <2>1, <2>2 DEF Handled
<1>5. Tabled
  <2>1. Placed /\ Counted
    BY <1>3 DEF Placed, Counted
  <2>2. (\A t \in Threads : Path(t)) /\ NoClash
    BY <1>2 DEF Path, NoClash, Climbs
  <2>3. Registered
    BY DEF Init, Registered
  <2> QED
    BY <2>1, <2>2, <2>3 DEF Tabled
<1> QED
  BY <1>1, <1>4, <1>5 DEF IInv

LEMMA NextIInv == Roomy /\ IInv /\ [Next]_vars => IInv'
<1> SUFFICES ASSUME Roomy, IInv, [Next]_vars
             PROVE  IInv'
  OBVIOUS
<1>1. CASE UNCHANGED vars
  <2>1. TypeOK'
    BY <1>1 DEF IInv, TypeOK, vars
  <2>2. Handled'
    BY <1>1 DEF IInv, Handled, Frames, Exclusive, Held, FirstAlone, Solitary, First,
                Retaining, Releasing, vars
  <2>3. Tabled'
    BY <1>1 DEF IInv, Tabled, Placed, Zone, Path, NoClash, Climbs, InTable, At, Registered,
                Counted, Shares, Busy, Storing, vars
  <2> QED
    BY <2>1, <2>2, <2>3 DEF IInv
<1>2. ASSUME NEW t \in Threads, Begin(t)
      PROVE  IInv'
  <2>1. ASSUME NEW h \in Handles, Open(t, h)
        PROVE  IInv'
    BY <2>1, OpenStep
  <2>2. ASSUME NEW h \in Handles, Wrap(t, h)
        PROVE  IInv'
    BY <2>2, WrapStep
  <2>3. ASSUME NEW h \in Handles, NEW g \in Handles, Copy(t, h, g)
        PROVE  IInv'
    BY <2>3, CopyStep
  <2>4. ASSUME NEW h \in Handles, NEW g \in Handles, Move(t, h, g)
        PROVE  IInv'
    BY <2>4, MoveStep
  <2>5. ASSUME NEW h \in Handles, Reset(t, h)
        PROVE  IInv'
    BY <2>5, ResetStep
  <2>6. ASSUME NEW h \in Handles, Lock(t, h)
        PROVE  IInv'
    BY <2>6, LockStep
  <2> QED
    BY <1>2, <2>1, <2>2, <2>3, <2>4, <2>5, <2>6 DEF Begin
<1>3. ASSUME NEW t \in Threads, Continue(t)
      PROVE  IInv'
  <2>1. CASE RetainScan(t)
    BY <2>1, ScanStep
  <2>2. CASE RetainIncr(t)
    BY <2>2, IncrStep
  <2>3. CASE RetainClaim(t)
    BY <2>3, ClaimCases, ClaimStep, ProbeOnStep
  <2>4. CASE RetainStore(t)
    BY <2>4, StoreStep
  <2>5. CASE ReleaseFind(t)
    BY <2>5, FindStep
  <2>6. CASE ReleaseDecr(t)
    BY <2>6, DecrStep
  <2>7. CASE ReleaseClear(t)
    BY <2>7, ClearStep
  <2>8. CASE Close(t)
    BY <2>8, CloseStep
  <2>9. CASE GetMutex(t)
    BY <2>9, MutexStep
  <2>10. CASE SessionBegin(t)
    BY <2>10, SessionBeginStep
  <2>11. CASE SessionEnd(t)
    BY <2>11, SessionEndStep
  <2> QED
    BY <1>3, <2>1, <2>2, <2>3, <2>4, <2>5, <2>6, <2>7, <2>8, <2>9, <2>10, <2>11 DEF Continue
<1> QED
  BY <1>1, <1>2, <1>3 DEF Next

-----------------------------------------------------------------------------
(* Theorems *)

LEMMA Invariance ==
  ASSUME Roomy
  PROVE  Spec => []IInv
<1>1. Init => IInv
  BY InitIInv
<1>2. IInv /\ [Next]_vars => IInv'
  BY NextIInv
<1> QED
  BY <1>1, <1>2, PTL DEF Spec

\* The table, the mutexes, the handles and the threads stay in their types; a
\* probe never runs off its path, and no count leaves its width (retain(),
\* release() and get_mutex() in sfd_static_registry.h).
THEOREM TypeCorrect ==
  ASSUME Roomy
  PROVE  Spec => []TypeOK
<1>1. IInv => TypeOK
  BY DEF IInv
<1> QED
  BY <1>1, Invariance, PTL

\* A handle that shares in a count, in the words of the property.
LEMMA SharesIs ==
  ASSUME IInv, NEW f \in Fds
  PROVE  Shares(f) = {h \in Handles : fdOf[h] = f /\ Owns(h) /\ ~Counting(h)}
<1>1. f # NoFd
  BY SlotsAssumption DEF NoFd
<1>2. \A h \in Handles : ~Busy(h) <=> ~GivenUp(h) /\ ~Counting(h)
  BY DEF Busy, GivenUp, Counting, Retaining
<1> QED
  BY <1>1, <1>2 DEF Shares, Owns

LEMMA CountsAreExact == IInv => CountIsExact
<1> SUFFICES ASSUME IInv
             PROVE  CountIsExact
  OBVIOUS
<1>1. ASSUME NEW h \in Handles, Owns(h), ~Counting(h)
      PROVE  \E s \in Slots : slot[s].fd = fdOf[h]
  <2>1. fdOf[h] # NoFd /\ ~Busy(h)
    BY <1>1 DEF Owns, GivenUp, Counting, Busy, Retaining
  <2> QED
    BY <2>1 DEF IInv, Tabled, Registered, InTable
<1>2. ASSUME NEW s \in Slots, slot[s].fd # NoFd
      PROVE  \/ slot[s].cnt = Cardinality({h \in Handles : /\ fdOf[h] = slot[s].fd
                                                           /\ Owns(h) /\ ~Counting(h)})
             \/ \E t \in Threads : th[t].pc = "store" /\ At(t) = s
  <2>1. slot[s].fd \in Fds
    BY <1>2 DEF IInv, TypeOK
  <2>2. Shares(slot[s].fd) = {h \in Handles : fdOf[h] = slot[s].fd /\ Owns(h) /\ ~Counting(h)}
    BY <2>1, SharesIs
  <2>3. Storing(s) \/ slot[s].cnt = Cardinality(Shares(slot[s].fd))
    BY <1>2 DEF IInv, Tabled, Counted
  <2> QED
    BY <2>2, <2>3 DEF Storing
<1> QED
  BY <1>1, <1>2 DEF CountIsExact

\* Whatever handles are opened, wrapped, copied, moved and reset, by any number
\* of threads, each is in the table and counted once, but for the moment between
\* the claim of a slot and the first store (sfd_static_registry.h:88-94).
THEOREM CountsExact ==
  ASSUME Roomy
  PROVE  Spec => []CountIsExact
  BY CountsAreExact, Invariance, PTL

\* reset() closes no descriptor that another handle still owns.
THEOREM NeverClosedEarly ==
  ASSUME Roomy
  PROVE  Spec => []NeverClosedWhileOwned
<1>1. IInv => NeverClosedWhileOwned
  BY DEF IInv, Handled, Held, NeverClosedWhileOwned, Owns
<1> QED
  BY <1>1, Invariance, PTL

\* Two sessions on one descriptor exclude each other: get_mutex() leads both to
\* the mutex of one slot, and the slot stays the descriptor's as long as either
\* holds its handle.
THEOREM SessionsApart ==
  ASSUME Roomy
  PROVE  Spec => []SessionsExclude
<1>1. IInv => SessionsExclude
  <2> SUFFICES ASSUME IInv, NEW t \in Threads, NEW u \in Threads,
                      th[t].pc = "session", th[u].pc = "session", th[t].fd = th[u].fd
               PROVE  t = u
    BY DEF SessionsExclude
  <2>1. /\ th[t].i \in Slots /\ slot[th[t].i].fd = th[t].fd /\ io[th[t].i] = t
        /\ th[u].i \in Slots /\ slot[th[u].i].fd = th[u].fd /\ io[th[u].i] = u
    BY DEF IInv, Tabled, Path
  <2>2. th[t].fd # NoFd
    BY SlotsAssumption DEF IInv, Handled, Frames, NoFd
  <2>3. th[t].i = th[u].i
    BY <2>1, <2>2 DEF IInv, Tabled, Placed
  <2> QED
    BY <2>1, <2>3
<1> QED
  BY <1>1, Invariance, PTL

-----------------------------------------------------------------------------
(* Refinement *)

Own == [h \in Handles |-> IF Owns(h) THEN fdOf[h] ELSE NoFd]

Drops(t, h) == th[t].h = h /\ th[t].pc \in {"clear", "close"}

LEMMA GivenUpKept ==
  ASSUME NEW t \in Threads, NEW h \in Handles, \A u \in Threads \ {t} : th'[u] = th[u],
         Drops(t, h)' <=> Drops(t, h)
  PROVE  GivenUp(h)' <=> GivenUp(h)
<1>1. GivenUp(h) <=> Drops(t, h) \/ \E u \in Threads \ {t} : Drops(u, h)
  BY DEF GivenUp, Drops
<1>2. GivenUp(h)' <=> Drops(t, h)' \/ \E u \in Threads \ {t} : Drops(u, h)'
  BY DEF GivenUp, Drops
<1>3. \A u \in Threads \ {t} : Drops(u, h)' <=> Drops(u, h)
  BY DEF Drops
<1> QED
  BY <1>1, <1>2, <1>3

\* A step that the abstract descriptors do not see.
LEMMA Unseen ==
  ASSUME NEW t \in Threads, \A u \in Threads \ {t} : th'[u] = th[u],
         UNCHANGED <<fdOf, open, raw>>,
         \A h \in Handles : Drops(t, h)' <=> Drops(t, h)
  PROVE  UNCHANGED Abstract!svars
<1>1. \A h \in Handles : GivenUp(h)' <=> GivenUp(h)
  BY GivenUpKept
<1>2. [h \in Handles |-> IF Owns(h) THEN fdOf[h] ELSE NoFd]'
        = [h \in Handles |-> IF Owns(h) THEN fdOf[h] ELSE NoFd]
  BY <1>1 DEF Owns
<1> QED
  BY <1>2 DEF Abstract!svars

LEMMA ObtainsOwn ==
  ASSUME IInv, NEW t \in Threads, NEW h \in Handles, NEW src \in Handles \cup {NoFd},
         NEW f \in Fds, Obtains(t, h, src, f)
  PROVE  Own[h] = NoFd /\ Own' = [Own EXCEPT ![h] = f]
<1>1. /\ Becomes(t, "scan", h, src, f, 0) /\ fdOf'[h] = f
      /\ \A g \in Handles \ {h} : fdOf'[g] = fdOf[g]
  BY ObtainsBecomes DEF IInv
<1>2. /\ th'[t].pc = "scan" /\ th'[t].h = h
      /\ \A u \in Threads \ {t} : th'[u] = th[u]
  BY <1>1 DEF Becomes
<1>3. /\ th[t].pc = "idle" /\ fdOf[h] = NoFd /\ f # NoFd
      /\ \A u \in Threads : th[u].h # h
  BY SlotsAssumption DEF Obtains, Unused, Stable, NoFd
<1>4. Owns(h)' /\ ~Owns(h)
  BY <1>1, <1>2, <1>3 DEF Owns, GivenUp
<1>5. \A g \in Handles \ {h} : Owns(g)' <=> Owns(g)
  <2>1. \A g \in Handles \ {h} : Drops(t, g)' <=> Drops(t, g)
    BY <1>2, <1>3 DEF Drops
  <2>2. \A g \in Handles \ {h} : GivenUp(g)' <=> GivenUp(g)
    BY <1>2, <2>1, GivenUpKept
  <2> QED
    BY <1>1, <2>2 DEF Owns
<1> QED
  BY <1>1, <1>4, <1>5 DEF Own

LEMMA OpenAcquires ==
  ASSUME IInv, NEW t \in Threads, NEW h \in Handles, Open(t, h)
  PROVE  \E f \in Fds : Abstract!Acquire(h, f)
<1>1. PICK f \in Fds \ open : Obtains(t, h, NoFd, f) /\ open' = open \cup {f} /\ UNCHANGED raw
  BY OpenObtains DEF IInv
<1>2. Own[h] = NoFd /\ Own' = [Own EXCEPT ![h] = f]
  BY <1>1, ObtainsOwn
<1>3. f \notin open \ raw /\ (open \ raw)' = (open \ raw) \cup {f}
  BY <1>1 DEF Obtains
<1> QED
  BY <1>1, <1>2, <1>3 DEF Abstract!Acquire, Own

LEMMA WrapAcquires ==
  ASSUME Roomy, IInv, NEW t \in Threads, NEW h \in Handles, Wrap(t, h)
  PROVE  \/ \E f \in Fds : Abstract!Acquire(h, f)
         \/ \E g \in Handles : Abstract!Share(h, g)
<1>1. PICK f \in Fds : /\ Obtains(t, h, NoFd, f) /\ f \in open
                       /\ UNCHANGED open /\ raw' = raw \ {f}
                       /\ \A u \in Threads : ~(Releasing(u) /\ th[u].fd = f)
  BY WrapObtains DEF IInv
<1>2. Own[h] = NoFd /\ Own' = [Own EXCEPT ![h] = f]
  BY <1>1, ObtainsOwn
<1>3. CASE f \in raw
  <2>1. f \notin open \ raw /\ (open \ raw)' = (open \ raw) \cup {f}
    BY <1>1, <1>3 DEF Obtains
  <2> QED
    BY <1>2, <2>1 DEF Abstract!Acquire, Own
<1>4. CASE f \notin raw
  <2>1. PICK g \in Handles : fdOf[g] = f
    BY <1>1, <1>4 DEF IInv, Handled, Held
  <2>2. ~GivenUp(g)
    BY <1>1, <2>1 DEF GivenUp, IInv, Handled, Frames, Releasing
  <2>3. Own[g] = f /\ f # NoFd
    BY <2>1, <2>2, SlotsAssumption DEF Own, Owns, NoFd
  <2>4. (open \ raw)' = open \ raw
    BY <1>1, <1>4
  <2>5. Abstract!Share(h, g)
    BY <1>2, <2>3, <2>4 DEF Abstract!Share, Own
  <2> QED
    BY <2>5
<1> QED
  BY <1>3, <1>4

LEMMA CopyShares ==
  ASSUME IInv, NEW t \in Threads, NEW h \in Handles, NEW g \in Handles, Copy(t, h, g)
  PROVE  Abstract!Share(h, g)
<1>1. PICK f \in Fds : f = fdOf[g] /\ Obtains(t, h, g, f) /\ UNCHANGED <<open, raw>>
  BY CopyObtains DEF IInv
<1>2. Own[h] = NoFd /\ Own' = [Own EXCEPT ![h] = f]
  BY <1>1, ObtainsOwn
<1>3. Own[g] = f /\ f # NoFd
  BY <1>1, SlotsAssumption DEF Copy, Stable, Own, Owns, GivenUp, NoFd
<1> QED
  BY <1>1, <1>2, <1>3 DEF Abstract!Share, Own

LEMMA MovePasses ==
  ASSUME IInv, NEW t \in Threads, NEW h \in Handles, NEW g \in Handles, Move(t, h, g)
  PROVE  Abstract!Pass(h, g)
<1>1. /\ h # g /\ fdOf[h] = NoFd /\ fdOf[g] # NoFd
      /\ fdOf'[h] = fdOf[g] /\ fdOf'[g] = NoFd
      /\ \A e \in Handles \ {g, h} : fdOf'[e] = fdOf[e]
      /\ \A u \in Threads : th[u].h \notin {g, h}
      /\ UNCHANGED <<open, raw, th>>
  BY MoveFacts DEF IInv
<1>2. /\ ~GivenUp(h) /\ ~GivenUp(g)
      /\ \A e \in Handles : GivenUp(e)' <=> GivenUp(e)
  BY <1>1 DEF GivenUp
<1>3. Own[h] = NoFd /\ Own[g] = fdOf[g]
  BY <1>1, <1>2 DEF Own, Owns
<1>4. \A e \in Handles : Own'[e] = IF e = h THEN fdOf[g] ELSE IF e = g THEN NoFd ELSE Own[e]
  BY <1>1, <1>2 DEF Own, Owns
<1>5. Own' = [Own EXCEPT ![h] = Own[g], ![g] = NoFd]
  BY <1>1, <1>3, <1>4 DEF Own
<1> QED
  BY <1>1, <1>3, <1>5 DEF Abstract!Pass, Own

LEMMA DecrDrops ==
  ASSUME IInv, NEW t \in Threads, ReleaseDecr(t)
  PROVE  \E h \in Handles : Abstract!Drop(h)
<1>1. th[t].pc = "decr" /\ UNCHANGED <<open, raw>> /\ "clear" \in Pcs /\ th[t].i \in 0..MaxSlots
  BY ThreadType DEF ReleaseDecr, IInv, Pcs
<1>2. PICK h \in Handles : h = th[t].h /\ h # NoFd /\ fdOf[h] # NoFd
                           /\ \A u \in Threads \ {t} : th[u].h # h
  BY <1>1, CountingSlot, SlotsAssumption DEF NoFd
<1>3. \/ Goto(t, "clear", th[t].i) /\ UNCHANGED fdOf
      \/ Emptied(t)
  BY DEF ReleaseDecr
<1>4. /\ \A u \in Threads \ {t} : th'[u] = th[u]
      /\ \/ th'[t].pc = "clear" /\ th'[t].h = h /\ UNCHANGED fdOf
         \/ /\ th'[t].pc = "idle" /\ th'[t].h = NoFd
            /\ fdOf' = [fdOf EXCEPT ![h] = NoFd]
  BY <1>1, <1>2, <1>3, GotoBecomes, ReturnBecomes DEF Becomes, Emptied, IInv
<1>5. /\ fdOf'[h] = NoFd \/ GivenUp(h)'
      /\ \A g \in Handles \ {h} : fdOf'[g] = fdOf[g]
  BY <1>4, UpdateType DEF GivenUp, IInv, TypeOK
<1>6. \A g \in Handles \ {h} : GivenUp(g)' <=> GivenUp(g)
  <2>1. \A g \in Handles \ {h} : Drops(t, g)' <=> Drops(t, g)
    BY <1>2, <1>4, HandlesAssumption DEF Drops
  <2> QED
    BY <1>4, <2>1, GivenUpKept
<1>7. Owns(h)
  BY <1>1, <1>2 DEF Owns, GivenUp
<1>8. Own[h] # NoFd /\ Own' = [Own EXCEPT ![h] = NoFd]
  BY <1>2, <1>5, <1>6, <1>7 DEF Own, Owns
<1> QED
  BY <1>1, <1>8 DEF Abstract!Drop, Own

LEMMA CloseCloses ==
  ASSUME IInv, NEW t \in Threads, Close(t)
  PROVE  \E f \in Fds : Abstract!CloseUnowned(f)
<1>1. /\ th[t].pc = "close" /\ Releasing(t) /\ Emptied(t) /\ UNCHANGED raw
      /\ open' = open \ {th[t].fd} /\ Only(t)
  BY DEF Close, Releasing, IInv, Handled, Solitary, Only
<1>2. PICK h \in Handles, f \in Fds : h = th[t].h /\ f = th[t].fd /\ fdOf[h] = f
  BY <1>1 DEF IInv, Handled, Frames
<1>3. f # NoFd /\ h # NoFd /\ f \in open \ raw /\ (open \ raw)' = (open \ raw) \ {f}
  BY <1>1, <1>2, SlotsAssumption, HandlesAssumption DEF NoFd, IInv, Handled, Held
<1>4. ~Owns(h)
  BY <1>1, <1>2 DEF Owns, GivenUp
<1>5. \A g \in Handles : Own[g] # f
  BY <1>1, <1>2, <1>3, <1>4 DEF Own, Only
<1>6. /\ fdOf'[h] = NoFd
      /\ \A g \in Handles \ {h} : fdOf'[g] = fdOf[g]
  BY <1>1, <1>2, UpdateType DEF Emptied, IInv, TypeOK
<1>7. /\ th'[t].h = NoFd /\ th'[t].pc = "idle"
      /\ \A u \in Threads \ {t} : th'[u] = th[u]
  BY <1>1, ReturnBecomes DEF Becomes, Emptied, IInv
<1>8. \A g \in Handles \ {h} : GivenUp(g)' <=> GivenUp(g)
  <2>1. \A g \in Handles \ {h} : Drops(t, g)' <=> Drops(t, g)
    BY <1>2, <1>7, HandlesAssumption DEF Drops
  <2> QED
    BY <1>7, <2>1, GivenUpKept
<1>9. Own' = Own
  BY <1>4, <1>6, <1>8 DEF Own, Owns
<1> QED
  BY <1>3, <1>5, <1>9 DEF Abstract!CloseUnowned, Abstract!Owners, Own

\* What the other steps do: go on within the operation, or start or end one,
\* without a handle beginning or ceasing to have given up its share.
Quiet(t) == /\ UNCHANGED <<fdOf, open, raw>>
            /\ \A u \in Threads \ {t} : th'[u] = th[u]
            /\ \A h \in Handles : Drops(t, h)' <=> Drops(t, h)

LEMMA GotoQuiet ==
  ASSUME IInv, NEW t \in Threads, NEW pc \in Pcs, NEW i \in 0..MaxSlots, Goto(t, pc, i),
         UNCHANGED <<fdOf, open, raw>>,
         pc \in {"clear", "close"} <=> th[t].pc \in {"clear", "close"}
  PROVE  Quiet(t)
<1>1. Becomes(t, pc, th[t].h, th[t].src, th[t].fd, i)
  BY GotoBecomes DEF IInv
<1> QED
  BY <1>1 DEF Becomes, Drops, Quiet

LEMMA ReturnQuiet ==
  ASSUME IInv, NEW t \in Threads, Return(t), UNCHANGED <<fdOf, open, raw>>,
         th[t].pc \notin {"clear", "close"}
  PROVE  Quiet(t)
<1>1. Becomes(t, "idle", NoFd, NoFd, NoFd, 0)
  BY ReturnBecomes DEF IInv
<1> QED
  BY <1>1 DEF Becomes, Drops, Quiet

LEMMA QuietUnseen ==
  ASSUME IInv, NEW t \in Threads, Quiet(t)
  PROVE  UNCHANGED Abstract!svars
BY Unseen DEF Quiet

LEMMA QuietRetain ==
  ASSUME Roomy, IInv, NEW t \in Threads,
         RetainScan(t) \/ RetainIncr(t) \/ RetainClaim(t) \/ RetainStore(t)
  PROVE  Quiet(t)
<1>1. th[t].i \in 0..MaxSlots /\ 0 \in 0..MaxSlots /\ 1 \in 0..MaxSlots
  BY ThreadType, SlotsAssumption DEF IInv
<1>2. {"scan", "incr", "probe", "store"} \subseteq Pcs
  BY DEF Pcs
<1>3. CASE RetainScan(t)
  BY <1>1, <1>2, <1>3, ScanCases, GotoQuiet DEF RetainScan
<1>4. CASE RetainClaim(t)
  BY <1>1, <1>2, <1>4, ClaimCases, GotoQuiet DEF RetainClaim
<1>5. CASE RetainIncr(t)
  BY <1>5, ReturnQuiet DEF RetainIncr
<1>6. CASE RetainStore(t)
  BY <1>6, ReturnQuiet DEF RetainStore
<1> QED
  BY <1>3, <1>4, <1>5, <1>6

LEMMA QuietRelease ==
  ASSUME Roomy, IInv, NEW t \in Threads, ReleaseFind(t) \/ ReleaseClear(t)
  PROVE  Quiet(t)
<1>1. th[t].i \in 0..MaxSlots /\ 1 \in 0..MaxSlots
  BY ThreadType, SlotsAssumption DEF IInv
<1>2. {"find", "decr", "close"} \subseteq Pcs
  BY DEF Pcs
<1>3. CASE ReleaseFind(t)
  <2>1. th[t].pc = "find" /\ InTable(th[t].fd)
    BY <1>3, HandleInTable DEF ReleaseFind
  <2>2. slot[At(t)].fd = th[t].fd \/ (th[t].i + 1 < MaxSlots /\ th[t].i + 1 = 1)
    BY <2>1, SearchFinds
  <2>3. \/ Goto(t, "decr", th[t].i)
        \/ Goto(t, "find", 1)
    BY <1>3, <2>2 DEF ReleaseFind
  <2>4. UNCHANGED <<fdOf, open, raw>>
    BY <1>3, <2>2 DEF ReleaseFind
  <2> QED
    BY <1>1, <1>2, <2>1, <2>3, <2>4, GotoQuiet
<1>4. CASE ReleaseClear(t)
  BY <1>1, <1>2, <1>4, GotoQuiet DEF ReleaseClear
<1> QED
  BY <1>3, <1>4

LEMMA QuietSession ==
  ASSUME IInv, NEW t \in Threads, GetMutex(t) \/ SessionBegin(t) \/ SessionEnd(t)
  PROVE  Quiet(t)
<1>1. th[t].i \in 0..MaxSlots /\ {"mutex", "lock", "session"} \subseteq Pcs
  BY ThreadType DEF IInv, Pcs
<1>2. CASE GetMutex(t)
  <2>1. th[t].pc = "mutex" /\ th[t].fd \in Fds
    BY <1>2 DEF GetMutex, IInv, Handled, Frames
  <2>2. At(t) \in 0..MaxSlots /\ MaxSlots \in 0..MaxSlots
    <3>1. At(t) \in Slots
      BY <1>1, <2>1, PlaceIsSlot DEF At
    <3> QED
      BY <3>1, SlotsAssumption DEF Slots
  <2>3. th[t].i + 1 < MaxSlots => th[t].i + 1 \in 0..MaxSlots
    BY <1>1, SlotsAssumption
  <2>4. /\ UNCHANGED <<fdOf, open, raw>>
        /\ \E i \in 0..MaxSlots : Goto(t, "lock", i) \/ Goto(t, "mutex", i)
    BY <1>2, <2>1, <2>2, <2>3 DEF GetMutex, Advance
  <2> QED
    BY <1>1, <2>1, <2>4, GotoQuiet
<1>3. CASE SessionBegin(t)
  BY <1>1, <1>3, GotoQuiet DEF SessionBegin
<1>4. CASE SessionEnd(t)
  BY <1>4, ReturnQuiet DEF SessionEnd
<1> QED
  BY <1>2, <1>3, <1>4

LEMMA QuietStart ==
  ASSUME IInv, NEW t \in Threads, NEW h \in Handles, Reset(t, h) \/ Lock(t, h)
  PROVE  Quiet(t)
<1>1. CASE Reset(t, h)
  <2>1. Becomes(t, "find", h, NoFd, fdOf[h], 0)
    BY <1>1, ResetBecomes DEF IInv
  <2> QED
    BY <1>1, <2>1 DEF Becomes, Drops, Reset, Quiet
<1>2. CASE Lock(t, h)
  <2>1. Becomes(t, "mutex", NoFd, h, fdOf[h], 0)
    BY <1>2, LockBecomes DEF IInv
  <2> QED
    BY <1>2, <2>1 DEF Becomes, Drops, Lock, Quiet
<1> QED
  BY <1>1, <1>2

LEMMA AbstractInit ==
  ASSUME Init
  PROVE  Abstract!SInit
<1>1. \A h \in Handles : ~Owns(h)
  BY DEF Init, Owns
<1>2. open \ raw = {}
  BY DEF Init
<1> QED
  BY <1>1, <1>2 DEF Abstract!SInit

LEMMA AbstractStep ==
  ASSUME Roomy, IInv, [Next]_vars
  PROVE  [Abstract!SNext]_Abstract!svars
<1>1. CASE UNCHANGED vars
  BY <1>1 DEF vars, Abstract!svars, Owns, GivenUp
<1>2. ASSUME NEW t \in Threads, Begin(t)
      PROVE  [Abstract!SNext]_Abstract!svars
  <2>1. ASSUME NEW h \in Handles, Open(t, h)
        PROVE  Abstract!SNext
    BY <2>1, OpenAcquires DEF Abstract!SNext
  <2>2. ASSUME NEW h \in Handles, Wrap(t, h)
        PROVE  Abstract!SNext
    BY <2>2, WrapAcquires DEF Abstract!SNext
  <2>3. ASSUME NEW h \in Handles, NEW g \in Handles, Copy(t, h, g)
        PROVE  Abstract!SNext
    BY <2>3, CopyShares DEF Abstract!SNext
  <2>4. ASSUME NEW h \in Handles, NEW g \in Handles, Move(t, h, g)
        PROVE  Abstract!SNext
    BY <2>4, MovePasses DEF Abstract!SNext
  <2>5. ASSUME NEW h \in Handles, Reset(t, h) \/ Lock(t, h)
        PROVE  UNCHANGED Abstract!svars
    BY <2>5, QuietStart, QuietUnseen
  <2> QED
    BY <1>2, <2>1, <2>2, <2>3, <2>4, <2>5 DEF Begin
<1>3. ASSUME NEW t \in Threads, Continue(t)
      PROVE  [Abstract!SNext]_Abstract!svars
  <2>1. CASE RetainScan(t) \/ RetainIncr(t) \/ RetainClaim(t) \/ RetainStore(t)
    BY <2>1, QuietRetain, QuietUnseen
  <2>2. CASE ReleaseFind(t) \/ ReleaseClear(t)
    BY <2>2, QuietRelease, QuietUnseen
  <2>3. CASE ReleaseDecr(t)
    BY <2>3, DecrDrops DEF Abstract!SNext
  <2>4. CASE Close(t)
    BY <2>4, CloseCloses DEF Abstract!SNext
  <2>5. CASE GetMutex(t) \/ SessionBegin(t) \/ SessionEnd(t)
    BY <2>5, QuietSession, QuietUnseen
  <2> QED
    BY <1>3, <2>1, <2>2, <2>3, <2>4, <2>5 DEF Continue
<1> QED
  BY <1>1, <1>2, <1>3 DEF Next

\* The registry implements SharedDescriptor, step by step: a handle acquires a
\* new descriptor, shares or passes on one that another handle owns, or drops
\* its share, and close() takes a descriptor that nobody owns.  What the fairness
\* of SSpec adds, that a descriptor without an owner is closed, is left to TLC.
THEOREM IsSharedDescriptor ==
  ASSUME Roomy
  PROVE  Spec => Abstract!SInit /\ [][Abstract!SNext]_Abstract!svars
<1>1. Init => Abstract!SInit
  BY AbstractInit
<1>2. IInv /\ [Next]_vars => [Abstract!SNext]_Abstract!svars
  BY AbstractStep
<1>3. Spec => []IInv
  BY Invariance
<1> QED
  BY <1>1, <1>2, <1>3, PTL DEF Spec
=============================================================================
