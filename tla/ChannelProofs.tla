---------------------------- MODULE ChannelProofs ----------------------------
(***************************************************************************)
(* Proofs about one channel, for any finite sets of senders and of         *)
(* receivers, any characters, any buffer size and any width of w and r     *)
(* that the buffer size divides, and that it implements the bounded FIFO   *)
(* whose operations are atomic.                                            *)
(***************************************************************************)
EXTENDS Channel, FiniteSetTheorems, SequenceTheorems, TLAPS

-----------------------------------------------------------------------------
(* Finite sets *)

\* Adding an element to a finite set adds one to its cardinality.
LEMMA Added ==
  ASSUME NEW S, NEW x, IsFiniteSet(S), x \notin S
  PROVE  /\ IsFiniteSet(S \cup {x})
         /\ Cardinality(S) \in Nat
         /\ Cardinality(S \cup {x}) = Cardinality(S) + 1
  BY FS_AddElement, FS_CardinalityType

\* Removing an element of a finite set takes one off its cardinality.
LEMMA Removed ==
  ASSUME NEW S, NEW x, IsFiniteSet(S), x \in S
  PROVE  /\ IsFiniteSet(S \ {x})
         /\ Cardinality(S) \in Nat \ {0}
         /\ Cardinality(S \ {x}) = Cardinality(S) - 1
<1>1. Cardinality(S) \in Nat
  BY FS_CardinalityType
<1>2. Cardinality(S) # 0
  BY FS_EmptySet
<1> QED
  BY <1>1, <1>2, FS_RemoveElement

\* Two disjoint subsets of a finite set, and an element in neither.
LEMMA DisjointParts ==
  ASSUME NEW S, IsFiniteSet(S), NEW X \in SUBSET S, NEW Y \in SUBSET S, NEW x \in S,
         X \cap Y = {}, x \notin X, x \notin Y
  PROVE  Cardinality(X) + Cardinality(Y) + 1 <= Cardinality(S)
<1>1. IsFiniteSet(X) /\ IsFiniteSet(Y)
  BY FS_Subset
<1>2. /\ IsFiniteSet(X \cup Y)
      /\ Cardinality(X \cup Y) = Cardinality(X) + Cardinality(Y) - Cardinality(X \cap Y)
  BY <1>1, FS_Union
<1>3. Cardinality(X \cap Y) = 0
  BY FS_EmptySet
<1>4. /\ IsFiniteSet((X \cup Y) \cup {x})
      /\ Cardinality((X \cup Y) \cup {x}) = Cardinality(X \cup Y) + 1
  <2>1. x \notin X \cup Y
    OBVIOUS
  <2> QED
    BY <1>2, <2>1, Added
<1>5. (X \cup Y) \cup {x} \in SUBSET S
  OBVIOUS
<1>6. Cardinality((X \cup Y) \cup {x}) <= Cardinality(S)
  BY <1>5, FS_Subset
<1>7. Cardinality(X) \in Nat /\ Cardinality(Y) \in Nat
  BY <1>1, FS_CardinalityType
<1> QED
  BY <1>2, <1>3, <1>4, <1>6, <1>7

-----------------------------------------------------------------------------
(* Counters that wrap around *)

LEMMA ModStep ==
  ASSUME NEW n \in Nat \ {0}, NEW x \in 0..n - 1
  PROVE  (x + 1) % n = IF x = n - 1 THEN 0 ELSE x + 1
  OBVIOUS

LEMMA ModSmall ==
  ASSUME NEW n \in Nat \ {0}, NEW x \in 0..n - 1
  PROVE  x % n = x
  OBVIOUS

LEMMA ModOnceOver ==
  ASSUME NEW n \in Nat \ {0}, NEW x \in n..2 * n - 1
  PROVE  x % n = x - n
  OBVIOUS

\* The distance between two counters below n.
Distance(n, w, r) == (w + n - r) % n

LEMMA DistanceValue ==
  ASSUME NEW n \in Nat \ {0}, NEW w \in 0..n - 1, NEW r \in 0..n - 1
  PROVE  Distance(n, w, r) = IF r <= w THEN w - r ELSE w + n - r
<1>1. CASE r <= w
  <2>1. (w + n - r) \in n..2 * n - 1
    BY <1>1
  <2>2. (w + n - r) % n = (w + n - r) - n
    BY <2>1, ModOnceOver
  <2> QED
    BY <1>1, <2>2 DEF Distance
<1>2. CASE ~(r <= w)
  <2>1. (w + n - r) \in 0..n - 1
    BY <1>2
  <2>2. (w + n - r) % n = w + n - r
    BY <2>1, ModSmall
  <2> QED
    BY <1>2, <2>2 DEF Distance
<1> QED
  BY <1>1, <1>2

\* Moving w on adds one to the distance, unless it would catch up with r.
LEMMA DistanceUp ==
  ASSUME NEW n \in Nat \ {0}, NEW w \in 0..n - 1, NEW r \in 0..n - 1,
         Distance(n, w, r) < n - 1
  PROVE  Distance(n, (w + 1) % n, r) = Distance(n, w, r) + 1
<1>1. (w + 1) % n = IF w = n - 1 THEN 0 ELSE w + 1
  BY ModStep
<1>2. (w + 1) % n \in 0..n - 1
  BY <1>1
<1>3. Distance(n, w, r) = IF r <= w THEN w - r ELSE w + n - r
  BY DistanceValue
<1>4. Distance(n, (w + 1) % n, r)
        = IF r <= ((w + 1) % n) THEN ((w + 1) % n) - r ELSE ((w + 1) % n) + n - r
  BY <1>2, DistanceValue
<1> QED
  BY <1>1, <1>3, <1>4

\* Moving r on takes one off the distance, unless r has caught up with w.
LEMMA DistanceDown ==
  ASSUME NEW n \in Nat \ {0}, NEW w \in 0..n - 1, NEW r \in 0..n - 1,
         Distance(n, w, r) > 0
  PROVE  Distance(n, w, (r + 1) % n) = Distance(n, w, r) - 1
<1>1. (r + 1) % n = IF r = n - 1 THEN 0 ELSE r + 1
  BY ModStep
<1>2. (r + 1) % n \in 0..n - 1
  BY <1>1
<1>3. Distance(n, w, r) = IF r <= w THEN w - r ELSE w + n - r
  BY DistanceValue
<1>4. Distance(n, w, (r + 1) % n)
        = IF ((r + 1) % n) <= w THEN w - ((r + 1) % n) ELSE w + n - ((r + 1) % n)
  BY <1>2, DistanceValue
<1> QED
  BY <1>1, <1>3, <1>4
-----------------------------------------------------------------------------
(* The inductive invariant *)

IInv == TypeOK /\ MutexIsBinary /\ CellsAccountedFor /\ CountMatchesSemaphores

LEMMA FiniteParts ==
  /\ IsFiniteSet(InCritical) /\ IsFiniteSet(InCall)
  /\ IsFiniteSet(Written) /\ IsFiniteSet(Claimed)
<1>1. IsFiniteSet(Procs)
  BY ProcsAssumption, FS_Union DEF Procs
<1>2. /\ InCritical \in SUBSET Procs /\ InCall \in SUBSET Procs
      /\ Written \in SUBSET Procs /\ Claimed \in SUBSET Procs
  BY DEF InCritical, InCall, Written, Claimed, Procs
<1> QED
  BY <1>1, <1>2, FS_Subset

LEMMA NaturalParts ==
  /\ Cardinality(InCritical) \in Nat /\ Cardinality(InCall) \in Nat
  /\ Cardinality(Written) \in Nat /\ Cardinality(Claimed) \in Nat
  BY FiniteParts, FS_CardinalityType

LEMMA CountIsDistance == Count = Distance(Width, ch.w, ch.r)
  BY DEF Count, Distance

\* Procs has no sender that is a receiver.
LEMMA Kinds ==
  /\ \A p \in Senders : p \in Procs /\ p \notin Receivers
  /\ \A p \in Receivers : p \in Procs /\ p \notin Senders
  BY ProcsAssumption DEF Procs

\* A type-correct step of one process.
LEMMA StepType ==
  ASSUME TypeOK, NEW p \in Procs,
         NEW at \in {"idle", "lock", "critical", "unlock", "post"}, NEW c \in Chars,
         op' = [op EXCEPT ![p] = [at |-> at, c |-> c]]
  PROVE  /\ op' \in [Procs -> [at : {"idle", "lock", "critical", "unlock", "post"}, c : Chars]]
         /\ op'[p].at = at
         /\ \A q \in Procs : q # p => op'[q] = op[q]
  BY DEF TypeOK

LEMMA GotoType ==
  ASSUME TypeOK, NEW p \in Procs,
         NEW at \in {"idle", "lock", "critical", "unlock", "post"},
         Goto(p, at)
  PROVE  /\ op' \in [Procs -> [at : {"idle", "lock", "critical", "unlock", "post"}, c : Chars]]
         /\ op'[p].at = at
         /\ \A q \in Procs : q # p => op'[q] = op[q]
  BY DEF TypeOK, Goto

LEMMA InitIInv == Init => IInv
<1> SUFFICES ASSUME Init PROVE IInv
  OBVIOUS
<1>1. PICK buf \in [0..BufSize - 1 -> Chars] : ch = Fresh(buf)
  BY DEF Init
<1>2. \A p \in Procs : op[p].at = "idle"
  BY DEF Init
<1>3. TypeOK
  BY <1>1, BufSizeAssumption, WidthAssumption DEF Init, TypeOK, Fresh
<1>4. InCritical = {} /\ InCall = {} /\ Written = {} /\ Claimed = {}
  BY <1>2, Kinds DEF InCritical, InCall, Written, Claimed
<1>5. Cardinality({}) = 0
  BY FS_EmptySet
<1>6. MutexIsBinary /\ CellsAccountedFor
  BY <1>1, <1>4, <1>5, BufSizeAssumption DEF MutexIsBinary, CellsAccountedFor, Fresh
<1>7. Count = 0
  <2>1. ch.w = 0 /\ ch.r = 0
    BY <1>1 DEF Fresh
  <2>2. Width \in Nat \ {0}
    BY WidthAssumption, BufSizeAssumption
  <2>3. Distance(Width, 0, 0) = 0
    BY <2>2, DistanceValue
  <2> QED
    BY <2>1, <2>3, CountIsDistance
<1>8. CountMatchesSemaphores
  BY <1>1, <1>4, <1>5, <1>7 DEF CountMatchesSemaphores, Fresh
<1> QED
  BY <1>3, <1>6, <1>8 DEF IInv

\* What a step of one process does to the four sets.
LEMMA PartsMove ==
  ASSUME NEW p \in Procs, \A q \in Procs : q # p => op'[q] = op[q]
  PROVE  /\ InCall' = IF op'[p].at # "idle" THEN InCall \cup {p} ELSE InCall \ {p}
         /\ InCritical' = IF op'[p].at \in {"critical", "unlock"}
                            THEN InCritical \cup {p} ELSE InCritical \ {p}
         /\ Written' = IF p \in Senders /\ op'[p].at \in {"unlock", "post"}
                         THEN Written \cup {p} ELSE Written \ {p}
         /\ Claimed' = IF p \in Receivers /\ op'[p].at \in {"lock", "critical"}
                         THEN Claimed \cup {p} ELSE Claimed \ {p}
<1>1. InCall' = IF op'[p].at # "idle" THEN InCall \cup {p} ELSE InCall \ {p}
  BY DEF InCall
<1>2. InCritical' = IF op'[p].at \in {"critical", "unlock"}
                      THEN InCritical \cup {p} ELSE InCritical \ {p}
  BY DEF InCritical
<1>3. Written' = IF p \in Senders /\ op'[p].at \in {"unlock", "post"}
                   THEN Written \cup {p} ELSE Written \ {p}
  BY DEF Written, Procs
<1>4. Claimed' = IF p \in Receivers /\ op'[p].at \in {"lock", "critical"}
                   THEN Claimed \cup {p} ELSE Claimed \ {p}
  BY DEF Claimed, Procs
<1> QED
  BY <1>1, <1>2, <1>3, <1>4

\* Where a process is decides which sets it is in.
LEMMA Membership ==
  ASSUME NEW p \in Procs
  PROVE  /\ p \in InCall <=> op[p].at # "idle"
         /\ p \in InCritical <=> op[p].at \in {"critical", "unlock"}
         /\ p \in Written <=> p \in Senders /\ op[p].at \in {"unlock", "post"}
         /\ p \in Claimed <=> p \in Receivers /\ op[p].at \in {"lock", "critical"}
  BY DEF InCall, InCritical, Written, Claimed

\* sem_wait(empty): the sender takes a free cell.
LEMMA SendWaitEmptyInv ==
  ASSUME IInv, NEW p \in Senders, NEW c \in Chars, SendWaitEmpty(p, c)
  PROVE  IInv'
<1>0. /\ TypeOK /\ p \in Procs /\ p \notin Receivers
      /\ op[p].at = "idle"
      /\ ch.empty \in Nat /\ ch.empty > 0
      /\ ch' = [ch EXCEPT !.empty = @ - 1]
      /\ op' = [op EXCEPT ![p] = [at |-> "lock", c |-> c]]
  BY Kinds DEF IInv, SendWaitEmpty, TypeOK
<1>1. /\ op' \in [Procs -> [at : {"idle", "lock", "critical", "unlock", "post"}, c : Chars]]
      /\ op'[p].at = "lock"
      /\ \A q \in Procs : q # p => op'[q] = op[q]
  BY <1>0, StepType
<1>2. /\ ch' \in [w : 0..Width - 1, r : 0..Width - 1, buf : [0..BufSize - 1 -> Chars],
                  empty : Nat, full : Nat, mutex : Nat]
      /\ ch'.empty = ch.empty - 1 /\ ch'.full = ch.full /\ ch'.mutex = ch.mutex
      /\ ch'.w = ch.w /\ ch'.r = ch.r
  BY <1>0 DEF TypeOK
<1>3. /\ InCritical' = InCritical /\ Written' = Written /\ Claimed' = Claimed
      /\ InCall' = InCall \cup {p} /\ p \notin InCall
  <2>1. p \notin InCall /\ p \notin InCritical /\ p \notin Written /\ p \notin Claimed
    BY <1>0, Membership
  <2>2. InCritical' = InCritical \ {p} /\ Written' = Written \ {p}
    BY <1>0, <1>1, PartsMove
  <2>3. Claimed' = Claimed \ {p} /\ InCall' = InCall \cup {p}
    BY <1>0, <1>1, PartsMove
  <2> QED
    BY <2>1, <2>2, <2>3
<1>4. Cardinality(InCall') = Cardinality(InCall) + 1 /\ Cardinality(InCall) \in Nat
  BY <1>3, FiniteParts, Added
<1>5. TypeOK'
  BY <1>1, <1>2 DEF TypeOK
<1>6. MutexIsBinary'
  BY <1>2, <1>3 DEF IInv, MutexIsBinary
<1>7. CellsAccountedFor'
  BY <1>0, <1>2, <1>3, <1>4 DEF IInv, CellsAccountedFor, TypeOK
<1>8. CountMatchesSemaphores'
  BY <1>2, <1>3 DEF IInv, CountMatchesSemaphores, Count
<1> QED
  BY <1>5, <1>6, <1>7, <1>8 DEF IInv

\* sem_wait(mutex): the process enters the critical section.
LEMMA WaitMutexInv ==
  ASSUME IInv, NEW p \in Procs, WaitMutex(p)
  PROVE  IInv'
<1>0. /\ TypeOK
      /\ op[p].at = "lock"
      /\ ch.mutex \in Nat /\ ch.mutex > 0
      /\ ch' = [ch EXCEPT !.mutex = @ - 1]
      /\ Goto(p, "critical")
  BY DEF IInv, WaitMutex, TypeOK
<1>1. /\ op' \in [Procs -> [at : {"idle", "lock", "critical", "unlock", "post"}, c : Chars]]
      /\ op'[p].at = "critical"
      /\ \A q \in Procs : q # p => op'[q] = op[q]
  BY <1>0, GotoType
<1>2. /\ ch' \in [w : 0..Width - 1, r : 0..Width - 1, buf : [0..BufSize - 1 -> Chars],
                  empty : Nat, full : Nat, mutex : Nat]
      /\ ch'.empty = ch.empty /\ ch'.full = ch.full /\ ch'.mutex = ch.mutex - 1
      /\ ch'.w = ch.w /\ ch'.r = ch.r
  BY <1>0 DEF TypeOK
<1>3. /\ InCritical' = InCritical \cup {p} /\ p \notin InCritical
      /\ Written' = Written /\ Claimed' = Claimed /\ InCall' = InCall
  BY ZenonT(60), <1>0, <1>1, PartsMove, Membership
<1>4. /\ Cardinality(InCritical') = Cardinality(InCritical) + 1
      /\ Cardinality(InCritical) \in Nat
  BY <1>3, FiniteParts, Added
<1>5. TypeOK'
  BY <1>1, <1>2 DEF TypeOK
<1>6. MutexIsBinary'
  BY <1>0, <1>2, <1>4 DEF IInv, MutexIsBinary
<1>7. CellsAccountedFor'
  BY <1>2, <1>3 DEF IInv, CellsAccountedFor
<1>8. CountMatchesSemaphores'
  BY <1>2, <1>3 DEF IInv, CountMatchesSemaphores, Count
<1> QED
  BY <1>5, <1>6, <1>7, <1>8 DEF IInv

LEMMA WidthIsPositive == Width \in Nat \ {0}
  BY WidthAssumption, BufSizeAssumption

LEMMA CountIsDistancePrime == Count' = Distance(Width, ch'.w, ch'.r)
  BY DEF Count, Distance

LEMMA NextCounter == \A x \in 0..Width - 1 : (x + 1) % Width \in 0..Width - 1
  BY WidthIsPositive, ModStep

LEMMA CellIndex == \A x \in 0..Width - 1 : x % BufSize \in 0..BufSize - 1
  BY BufSizeAssumption, WidthAssumption

\* The sender writes its character: Count goes up, and the sender is in Written.
LEMMA SendPutInv ==
  ASSUME IInv, NEW p \in Senders, SendPut(p)
  PROVE  IInv'
<1>0. /\ TypeOK /\ p \in Procs /\ p \notin Receivers
      /\ op[p].at = "critical"
      /\ ch' = [ch EXCEPT !.buf[ch.w % BufSize] = op[p].c, !.w = (@ + 1) % Width]
      /\ Goto(p, "unlock")
      /\ op[p].c \in Chars
  BY Kinds DEF IInv, SendPut, TypeOK
<1>1. /\ op' \in [Procs -> [at : {"idle", "lock", "critical", "unlock", "post"}, c : Chars]]
      /\ op'[p].at = "unlock"
      /\ \A q \in Procs : q # p => op'[q] = op[q]
  BY <1>0, GotoType
<1>2. /\ ch' \in [w : 0..Width - 1, r : 0..Width - 1, buf : [0..BufSize - 1 -> Chars],
                  empty : Nat, full : Nat, mutex : Nat]
      /\ ch'.empty = ch.empty /\ ch'.full = ch.full /\ ch'.mutex = ch.mutex
      /\ ch'.w = (ch.w + 1) % Width /\ ch'.r = ch.r
  BY <1>0, NextCounter DEF TypeOK
<1>3. /\ InCritical' = InCritical /\ InCall' = InCall /\ Claimed' = Claimed
      /\ Written' = Written \cup {p} /\ p \notin Written
  <2>1. p \in InCall /\ p \in InCritical /\ p \notin Written /\ p \notin Claimed
    BY <1>0, Membership
  <2>2. InCritical' = InCritical \cup {p} /\ Written' = Written \cup {p}
    BY <1>0, <1>1, PartsMove
  <2>3. Claimed' = Claimed \ {p} /\ InCall' = InCall \cup {p}
    BY <1>0, <1>1, PartsMove
  <2> QED
    BY <2>1, <2>2, <2>3
<1>4. Cardinality(Written') = Cardinality(Written) + 1
  BY <1>3, FiniteParts, Added
<1>5. TypeOK'
  BY <1>1, <1>2 DEF TypeOK
<1>6. MutexIsBinary'
  BY <1>2, <1>3 DEF IInv, MutexIsBinary
<1>7. CellsAccountedFor'
  BY <1>2, <1>3 DEF IInv, CellsAccountedFor
<1>8. CountMatchesSemaphores'
  <2>1. Cardinality(Written) + Cardinality(Claimed) + 1 <= Cardinality(InCall)
    <3>1. Written \in SUBSET InCall /\ Claimed \in SUBSET InCall /\ p \in InCall
      BY <1>0, Kinds DEF Written, Claimed, InCall
    <3>2. Written \cap Claimed = {} /\ p \notin Written /\ p \notin Claimed
      BY <1>0, Kinds DEF Written, Claimed
    <3> QED
      BY <3>1, <3>2, FiniteParts, DisjointParts
  <2>2. Count < Width - 1
    <3>1. ch.empty \in Nat /\ ch.full \in Nat
      BY <1>0 DEF TypeOK
    <3>2. /\ ch.empty + ch.full + Cardinality(InCall) = BufSize
          /\ Count = ch.full + Cardinality(Written) + Cardinality(Claimed)
      BY DEF IInv, CellsAccountedFor, CountMatchesSemaphores
    <3>3. BufSize \in Nat /\ Width \in Nat /\ BufSize < Width
      BY BufSizeAssumption, WidthAssumption
    <3> QED
      BY <2>1, <3>1, <3>2, <3>3, NaturalParts
  <2>3. Count' = Count + 1
    BY <1>0, <1>2, <2>2, CountIsDistance, CountIsDistancePrime, WidthIsPositive, DistanceUp
       DEF TypeOK
  <2>4. Count = ch.full + Cardinality(Written) + Cardinality(Claimed)
    BY DEF IInv, CountMatchesSemaphores
  <2>5. ch.full \in Nat
    BY <1>0 DEF TypeOK
  <2>6. ch'.full = ch.full /\ Cardinality(Claimed') = Cardinality(Claimed)
    BY <1>2, <1>3
  <2>7. Count' = ch'.full + Cardinality(Written') + Cardinality(Claimed')
    BY <1>4, <2>3, <2>4, <2>5, <2>6, NaturalParts
  <2> QED
    BY <2>7 DEF CountMatchesSemaphores
<1> QED
  BY <1>5, <1>6, <1>7, <1>8 DEF IInv

\* The receiver takes a character: Count goes down, and it is out of Claimed.
LEMMA RecvTakeInv ==
  ASSUME IInv, NEW p \in Receivers, RecvTake(p)
  PROVE  IInv'
<1>0. /\ TypeOK /\ p \in Procs /\ p \notin Senders
      /\ op[p].at = "critical"
      /\ ch' = [ch EXCEPT !.r = (@ + 1) % Width]
      /\ op' = [op EXCEPT ![p] = [at |-> "unlock", c |-> ch.buf[ch.r % BufSize]]]
      /\ ch.buf[ch.r % BufSize] \in Chars
  <2>1. TypeOK
    BY DEF IInv
  <2>2. ch.r % BufSize \in 0..BufSize - 1
    BY <2>1, CellIndex DEF TypeOK
  <2>3. ch.buf[ch.r % BufSize] \in Chars
    BY <2>1, <2>2 DEF TypeOK
  <2> QED
    BY <2>1, <2>3, Kinds DEF RecvTake
<1>1. /\ op' \in [Procs -> [at : {"idle", "lock", "critical", "unlock", "post"}, c : Chars]]
      /\ op'[p].at = "unlock"
      /\ \A q \in Procs : q # p => op'[q] = op[q]
  BY <1>0, StepType
<1>2. /\ ch' \in [w : 0..Width - 1, r : 0..Width - 1, buf : [0..BufSize - 1 -> Chars],
                  empty : Nat, full : Nat, mutex : Nat]
      /\ ch'.empty = ch.empty /\ ch'.full = ch.full /\ ch'.mutex = ch.mutex
      /\ ch'.w = ch.w /\ ch'.r = (ch.r + 1) % Width
  BY <1>0, NextCounter DEF TypeOK
<1>3. /\ InCritical' = InCritical /\ InCall' = InCall /\ Written' = Written
      /\ Claimed' = Claimed \ {p} /\ p \in Claimed
  <2>1. p \in InCall /\ p \in InCritical /\ p \notin Written /\ p \in Claimed
    BY <1>0, Membership
  <2>2. InCritical' = InCritical \cup {p} /\ Written' = Written \ {p}
    BY <1>0, <1>1, PartsMove
  <2>3. Claimed' = Claimed \ {p} /\ InCall' = InCall \cup {p}
    BY <1>0, <1>1, PartsMove
  <2> QED
    BY <2>1, <2>2, <2>3
<1>4. /\ Cardinality(Claimed') = Cardinality(Claimed) - 1
      /\ Cardinality(Claimed) \in Nat \ {0}
  BY <1>3, FiniteParts, Removed
<1>5. TypeOK'
  BY <1>1, <1>2 DEF TypeOK
<1>6. MutexIsBinary'
  BY <1>2, <1>3 DEF IInv, MutexIsBinary
<1>7. CellsAccountedFor'
  BY <1>2, <1>3 DEF IInv, CellsAccountedFor
<1>8. CountMatchesSemaphores'
  <2>1. Count > 0
    BY <1>0, <1>4, NaturalParts DEF IInv, TypeOK, CountMatchesSemaphores
  <2>2. Count' = Count - 1
    BY <1>0, <1>2, <2>1, CountIsDistance, CountIsDistancePrime, WidthIsPositive, DistanceDown
       DEF TypeOK
  <2>3. Count = ch.full + Cardinality(Written) + Cardinality(Claimed)
    BY DEF IInv, CountMatchesSemaphores
  <2>4. ch.full \in Nat
    BY <1>0 DEF TypeOK
  <2>5. ch'.full = ch.full /\ Cardinality(Written') = Cardinality(Written)
    BY <1>2, <1>3
  <2>6. Count' = ch'.full + Cardinality(Written') + Cardinality(Claimed')
    BY <1>4, <2>2, <2>3, <2>4, <2>5, NaturalParts
  <2> QED
    BY <2>6 DEF CountMatchesSemaphores
<1> QED
  BY <1>5, <1>6, <1>7, <1>8 DEF IInv

\* sem_post(mutex): the process leaves the critical section.
LEMMA PostMutexInv ==
  ASSUME IInv, NEW p \in Procs, PostMutex(p)
  PROVE  IInv'
<1>0. /\ TypeOK
      /\ op[p].at = "unlock"
      /\ ch.mutex \in Nat
      /\ ch' = [ch EXCEPT !.mutex = @ + 1]
      /\ Goto(p, "post")
  BY DEF IInv, PostMutex, TypeOK
<1>1. /\ op' \in [Procs -> [at : {"idle", "lock", "critical", "unlock", "post"}, c : Chars]]
      /\ op'[p].at = "post"
      /\ \A q \in Procs : q # p => op'[q] = op[q]
  BY <1>0, GotoType
<1>2. /\ ch' \in [w : 0..Width - 1, r : 0..Width - 1, buf : [0..BufSize - 1 -> Chars],
                  empty : Nat, full : Nat, mutex : Nat]
      /\ ch'.empty = ch.empty /\ ch'.full = ch.full /\ ch'.mutex = ch.mutex + 1
      /\ ch'.w = ch.w /\ ch'.r = ch.r
  BY <1>0 DEF TypeOK
<1>3. /\ InCritical' = InCritical \ {p} /\ p \in InCritical
      /\ Written' = Written /\ Claimed' = Claimed /\ InCall' = InCall
  BY ZenonT(60), <1>0, <1>1, PartsMove, Membership
<1>4. /\ Cardinality(InCritical') = Cardinality(InCritical) - 1
      /\ Cardinality(InCritical) \in Nat \ {0}
  BY <1>3, FiniteParts, Removed
<1>5. TypeOK'
  BY <1>1, <1>2 DEF TypeOK
<1>6. MutexIsBinary'
  BY <1>0, <1>2, <1>4 DEF IInv, MutexIsBinary
<1>7. CellsAccountedFor'
  BY <1>2, <1>3 DEF IInv, CellsAccountedFor
<1>8. CountMatchesSemaphores'
  BY <1>2, <1>3 DEF IInv, CountMatchesSemaphores, Count
<1> QED
  BY <1>5, <1>6, <1>7, <1>8 DEF IInv

\* sem_post(full): the character is there for a receiver.
LEMMA SendPostFullInv ==
  ASSUME IInv, NEW p \in Senders, SendPostFull(p)
  PROVE  IInv'
<1>0. /\ TypeOK /\ p \in Procs /\ p \notin Receivers
      /\ op[p].at = "post"
      /\ ch.full \in Nat
      /\ ch' = [ch EXCEPT !.full = @ + 1]
      /\ Goto(p, "idle")
  BY Kinds DEF IInv, SendPostFull, TypeOK
<1>1. /\ op' \in [Procs -> [at : {"idle", "lock", "critical", "unlock", "post"}, c : Chars]]
      /\ op'[p].at = "idle"
      /\ \A q \in Procs : q # p => op'[q] = op[q]
  BY <1>0, GotoType
<1>2. /\ ch' \in [w : 0..Width - 1, r : 0..Width - 1, buf : [0..BufSize - 1 -> Chars],
                  empty : Nat, full : Nat, mutex : Nat]
      /\ ch'.full = ch.full + 1 /\ ch'.empty = ch.empty /\ ch'.mutex = ch.mutex
      /\ ch'.w = ch.w /\ ch'.r = ch.r
  BY <1>0 DEF TypeOK
<1>3. /\ InCritical' = InCritical /\ Claimed' = Claimed
      /\ InCall' = InCall \ {p} /\ p \in InCall
      /\ Written' = Written \ {p} /\ p \in Written
  <2>1. p \in InCall /\ p \notin InCritical /\ p \in Written /\ p \notin Claimed
    BY <1>0, Membership
  <2>2. InCritical' = InCritical \ {p} /\ Written' = Written \ {p}
    BY <1>0, <1>1, PartsMove
  <2>3. Claimed' = Claimed \ {p} /\ InCall' = InCall \ {p}
    BY <1>0, <1>1, PartsMove
  <2> QED
    BY <2>1, <2>2, <2>3
<1>4. /\ Cardinality(InCall') = Cardinality(InCall) - 1
      /\ Cardinality(InCall) \in Nat \ {0}
      /\ Cardinality(Written') = Cardinality(Written) - 1
      /\ Cardinality(Written) \in Nat \ {0}
  BY <1>3, FiniteParts, Removed
<1>5. TypeOK'
  BY <1>1, <1>2 DEF TypeOK
<1>6. MutexIsBinary'
  BY <1>2, <1>3 DEF IInv, MutexIsBinary
<1>7. CellsAccountedFor'
  <2>1. ch.empty + ch.full + Cardinality(InCall) = BufSize
    BY DEF IInv, CellsAccountedFor
  <2>2. ch.empty \in Nat /\ ch.full \in Nat
    BY <1>0 DEF TypeOK
  <2>3. /\ ch'.empty = ch.empty /\ ch'.full = ch.full + 1
        /\ Cardinality(InCall') = Cardinality(InCall) - 1
    BY <1>2, <1>4
  <2>4. ch'.empty + ch'.full + Cardinality(InCall') = BufSize
    BY <2>1, <2>2, <2>3, NaturalParts
  <2> QED
    BY <2>4 DEF CellsAccountedFor
<1>9. Count' = Count
  BY <1>2 DEF Count
<1>8. CountMatchesSemaphores'
  <2>1. Count = ch.full + Cardinality(Written) + Cardinality(Claimed)
    BY DEF IInv, CountMatchesSemaphores
  <2>2. /\ ch'.full = ch.full + 1
        /\ Cardinality(Written') = Cardinality(Written) - 1
        /\ Cardinality(Claimed') = Cardinality(Claimed)
    BY <1>2, <1>3, <1>4
  <2>3. Count' = ch'.full + Cardinality(Written') + Cardinality(Claimed')
    BY <1>0, <1>9, <2>1, <2>2, NaturalParts
  <2> QED
    BY <2>3 DEF CountMatchesSemaphores
<1> QED
  BY <1>5, <1>6, <1>7, <1>8 DEF IInv

\* sem_post(empty): the cell is free.
LEMMA RecvPostEmptyInv ==
  ASSUME IInv, NEW p \in Receivers, RecvPostEmpty(p)
  PROVE  IInv'
<1>0. /\ TypeOK /\ p \in Procs /\ p \notin Senders
      /\ op[p].at = "post"
      /\ ch.empty \in Nat
      /\ ch' = [ch EXCEPT !.empty = @ + 1]
      /\ Goto(p, "idle")
  BY Kinds DEF IInv, RecvPostEmpty, TypeOK
<1>1. /\ op' \in [Procs -> [at : {"idle", "lock", "critical", "unlock", "post"}, c : Chars]]
      /\ op'[p].at = "idle"
      /\ \A q \in Procs : q # p => op'[q] = op[q]
  BY <1>0, GotoType
<1>2. /\ ch' \in [w : 0..Width - 1, r : 0..Width - 1, buf : [0..BufSize - 1 -> Chars],
                  empty : Nat, full : Nat, mutex : Nat]
      /\ ch'.empty = ch.empty + 1 /\ ch'.full = ch.full /\ ch'.mutex = ch.mutex
      /\ ch'.w = ch.w /\ ch'.r = ch.r
  BY <1>0 DEF TypeOK
<1>3. /\ InCritical' = InCritical /\ Claimed' = Claimed
      /\ InCall' = InCall \ {p} /\ p \in InCall
      /\ Written' = Written
  <2>1. p \in InCall /\ p \notin InCritical /\ p \notin Written /\ p \notin Claimed
    BY <1>0, Membership
  <2>2. InCritical' = InCritical \ {p} /\ Written' = Written \ {p}
    BY <1>0, <1>1, PartsMove
  <2>3. Claimed' = Claimed \ {p} /\ InCall' = InCall \ {p}
    BY <1>0, <1>1, PartsMove
  <2> QED
    BY <2>1, <2>2, <2>3
<1>4. /\ Cardinality(InCall') = Cardinality(InCall) - 1
      /\ Cardinality(InCall) \in Nat \ {0}
  BY <1>3, FiniteParts, Removed
<1>5. TypeOK'
  BY <1>1, <1>2 DEF TypeOK
<1>6. MutexIsBinary'
  BY <1>2, <1>3 DEF IInv, MutexIsBinary
<1>7. CellsAccountedFor'
  <2>1. ch.empty + ch.full + Cardinality(InCall) = BufSize
    BY DEF IInv, CellsAccountedFor
  <2>2. ch.empty \in Nat /\ ch.full \in Nat
    BY <1>0 DEF TypeOK
  <2>3. /\ ch'.empty = ch.empty + 1 /\ ch'.full = ch.full
        /\ Cardinality(InCall') = Cardinality(InCall) - 1
    BY <1>2, <1>4
  <2>4. ch'.empty + ch'.full + Cardinality(InCall') = BufSize
    BY <2>1, <2>2, <2>3, NaturalParts
  <2> QED
    BY <2>4 DEF CellsAccountedFor
<1>8. CountMatchesSemaphores'
  BY <1>2, <1>3 DEF IInv, CountMatchesSemaphores, Count
<1> QED
  BY <1>5, <1>6, <1>7, <1>8 DEF IInv

\* sem_wait(full): the receiver claims a character.
LEMMA RecvWaitFullInv ==
  ASSUME IInv, NEW p \in Receivers, RecvWaitFull(p)
  PROVE  IInv'
<1>0. /\ TypeOK /\ p \in Procs /\ p \notin Senders
      /\ op[p].at = "idle"
      /\ ch.full \in Nat /\ ch.full > 0
      /\ ch' = [ch EXCEPT !.full = @ - 1]
      /\ Goto(p, "lock")
  BY Kinds DEF IInv, RecvWaitFull, TypeOK
<1>1. /\ op' \in [Procs -> [at : {"idle", "lock", "critical", "unlock", "post"}, c : Chars]]
      /\ op'[p].at = "lock"
      /\ \A q \in Procs : q # p => op'[q] = op[q]
  BY <1>0, GotoType
<1>2. /\ ch' \in [w : 0..Width - 1, r : 0..Width - 1, buf : [0..BufSize - 1 -> Chars],
                  empty : Nat, full : Nat, mutex : Nat]
      /\ ch'.full = ch.full - 1 /\ ch'.empty = ch.empty /\ ch'.mutex = ch.mutex
      /\ ch'.w = ch.w /\ ch'.r = ch.r
  BY <1>0 DEF TypeOK
<1>3. /\ InCritical' = InCritical /\ Written' = Written
      /\ InCall' = InCall \cup {p} /\ p \notin InCall
      /\ Claimed' = Claimed \cup {p} /\ p \notin Claimed
  <2>1. p \notin InCall /\ p \notin InCritical /\ p \notin Written /\ p \notin Claimed
    BY <1>0, Membership
  <2>2. InCritical' = InCritical \ {p} /\ Written' = Written \ {p}
    BY <1>0, <1>1, PartsMove
  <2>3. Claimed' = Claimed \cup {p} /\ InCall' = InCall \cup {p}
    BY <1>0, <1>1, PartsMove
  <2> QED
    BY <2>1, <2>2, <2>3
<1>4. /\ Cardinality(InCall') = Cardinality(InCall) + 1
      /\ Cardinality(Claimed') = Cardinality(Claimed) + 1
  BY <1>3, FiniteParts, Added
<1>5. TypeOK'
  BY <1>1, <1>2 DEF TypeOK
<1>6. MutexIsBinary'
  BY <1>2, <1>3 DEF IInv, MutexIsBinary
<1>7. CellsAccountedFor'
  <2>1. ch.empty + ch.full + Cardinality(InCall) = BufSize
    BY DEF IInv, CellsAccountedFor
  <2>2. ch.empty \in Nat /\ ch.full \in Nat
    BY <1>0 DEF TypeOK
  <2>3. /\ ch'.empty = ch.empty /\ ch'.full = ch.full - 1
        /\ Cardinality(InCall') = Cardinality(InCall) + 1
    BY <1>2, <1>4
  <2>4. ch'.empty + ch'.full + Cardinality(InCall') = BufSize
    BY <2>1, <2>2, <2>3, NaturalParts
  <2> QED
    BY <2>4 DEF CellsAccountedFor
<1>9. Count' = Count
  BY <1>2 DEF Count
<1>8. CountMatchesSemaphores'
  <2>1. Count = ch.full + Cardinality(Written) + Cardinality(Claimed)
    BY DEF IInv, CountMatchesSemaphores
  <2>2. /\ ch'.full = ch.full - 1
        /\ Cardinality(Claimed') = Cardinality(Claimed) + 1
        /\ Cardinality(Written') = Cardinality(Written)
    BY <1>2, <1>3, <1>4
  <2>3. Count' = ch'.full + Cardinality(Written') + Cardinality(Claimed')
    BY <1>0, <1>9, <2>1, <2>2, NaturalParts
  <2> QED
    BY <2>3 DEF CountMatchesSemaphores
<1> QED
  BY <1>5, <1>6, <1>7, <1>8 DEF IInv


-----------------------------------------------------------------------------
(* Theorems *)

\* Every step of every process preserves the inductive invariant.
LEMMA NextIInv == IInv /\ [Next]_vars => IInv'
<1> SUFFICES ASSUME IInv, [Next]_vars PROVE IInv'
  OBVIOUS
<1>1. ASSUME NEW p \in Senders, NEW c \in Chars, SendWaitEmpty(p, c) PROVE IInv'
  BY <1>1, SendWaitEmptyInv
<1>2. ASSUME NEW p \in Senders, SendStep(p) PROVE IInv'
  <2>1. CASE WaitMutex(p)
    BY <2>1, Kinds, WaitMutexInv
  <2>2. CASE SendPut(p)
    BY <2>2, SendPutInv
  <2>3. CASE PostMutex(p)
    BY <2>3, Kinds, PostMutexInv
  <2>4. CASE SendPostFull(p)
    BY <2>4, SendPostFullInv
  <2> QED
    BY <1>2, <2>1, <2>2, <2>3, <2>4 DEF SendStep
<1>3. ASSUME NEW p \in Receivers, RecvWaitFull(p) PROVE IInv'
  BY <1>3, RecvWaitFullInv
<1>4. ASSUME NEW p \in Receivers, RecvStep(p) PROVE IInv'
  <2>1. CASE WaitMutex(p)
    BY <2>1, Kinds, WaitMutexInv
  <2>2. CASE RecvTake(p)
    BY <2>2, RecvTakeInv
  <2>3. CASE PostMutex(p)
    BY <2>3, Kinds, PostMutexInv
  <2>4. CASE RecvPostEmpty(p)
    BY <2>4, RecvPostEmptyInv
  <2> QED
    BY <1>4, <2>1, <2>2, <2>3, <2>4 DEF RecvStep
<1>5. CASE UNCHANGED vars
  BY <1>5 DEF IInv, TypeOK, MutexIsBinary, InCritical, CellsAccountedFor, InCall,
              CountMatchesSemaphores, Count, Written, Claimed, vars
<1> QED
  BY <1>1, <1>2, <1>3, <1>4, <1>5 DEF Next

\* In every state the counts of the semaphores, the places of the processes and
\* the indices w and r agree.
THEOREM Invariance == Spec => []IInv
<1>1. Init => IInv
  BY InitIInv
<1>2. IInv /\ [Next]_vars => IInv'
  BY NextIInv
<1> QED
  BY <1>1, <1>2, PTL DEF Spec

\* The channel's memory and the calls on it keep their types.
THEOREM TypeCorrect == Spec => []TypeOK
<1>1. IInv => TypeOK
  BY DEF IInv
<1> QED
  BY <1>1, Invariance, PTL

\* channel_send() and channel_recv() touch buf, w and r one process at a time.
THEOREM MutualExclusion == Spec => []MutexIsBinary
<1>1. IInv => MutexIsBinary
  BY DEF IInv
<1> QED
  BY <1>1, Invariance, PTL

\* No cell of the buffer is lost or counted twice.
THEOREM CellsAreConserved == Spec => []CellsAccountedFor
<1>1. IInv => CellsAccountedFor
  BY DEF IInv
<1> QED
  BY <1>1, Invariance, PTL

\* w and r stay as far apart as the semaphores say, for ever: also after 2^32
\* characters, when they wrap around.
THEOREM IndicesFollowSemaphores == Spec => []CountMatchesSemaphores
<1>1. IInv => CountMatchesSemaphores
  BY DEF IInv
<1> QED
  BY <1>1, Invariance, PTL

-----------------------------------------------------------------------------
(* Cells of the ring *)

LEMMA Division ==
  ASSUME NEW b \in Nat \ {0}, NEW x \in Nat
  PROVE  \E q \in Nat : x = q * b + (x % b) /\ x % b \in 0..b - 1
<1>1. x = b * (x \div b) + (x % b)
  OBVIOUS
<1>2. x % b \in 0..b - 1
  OBVIOUS
<1>3. x \div b \in Int
  OBVIOUS
<1>4. x \div b >= 0
  OBVIOUS
<1>5. (x \div b) * b = b * (x \div b)
  BY <1>3
<1>6. x \div b \in Nat
  BY <1>3, <1>4
<1>7. x = (x \div b) * b + (x % b)
  BY <1>1, <1>5, Zenon
<1> QED
  BY <1>2, <1>6, <1>7, Zenon

\* Multiples of b that are apart are b apart.
LEMMA Apart ==
  ASSUME NEW b \in Nat \ {0}, NEW p \in Int, NEW q \in Int, p < q
  PROVE  q * b >= p * b + b
<1>1. (q - p - 1) * b >= 0
  OBVIOUS
<1>2. (q - p - 1) * b = q * b - p * b - b
  OBVIOUS
<1> QED
  BY <1>1, <1>2

LEMMA UniqueRemainder ==
  ASSUME NEW b \in Nat \ {0}, NEW p \in Int, NEW q \in Int,
         NEW m \in 0..b - 1, NEW n \in 0..b - 1, p * b + m = q * b + n
  PROVE  p = q /\ m = n
<1>1. ~(p < q)
  BY Apart
<1>2. ~(q < p)
  BY Apart
<1> QED
  BY <1>1, <1>2

\* Positions less than b apart have different cells.
LEMMA DifferentCells ==
  ASSUME NEW b \in Nat \ {0}, NEW x \in Nat, NEW y \in Nat, x < y, y < x + b
  PROVE  x % b # y % b
<1>1. PICK p \in Nat : x = p * b + (x % b)
  BY Division
<1>2. PICK q \in Nat : y = q * b + (y % b)
  BY Division
<1>3. SUFFICES ASSUME x % b = y % b PROVE FALSE
  OBVIOUS
<1>4. x % b \in Int /\ y % b \in Int /\ p * b \in Int /\ q * b \in Int
  OBVIOUS
<1>5. p * b < q * b /\ q * b < p * b + b
  BY <1>1, <1>2, <1>3, <1>4
<1>6. CASE p < q
  BY <1>4, <1>5, <1>6, Apart
<1>7. CASE q < p
  BY <1>4, <1>5, <1>7, Apart
<1>8. CASE p = q
  BY <1>4, <1>5, <1>8
<1> QED
  BY <1>6, <1>7, <1>8

\* The counters wrap around at a multiple of the buffer size.
LEMMA SameCell ==
  ASSUME NEW x \in Nat, x >= Width
  PROVE  x % BufSize = (x - Width) % BufSize
<1> DEFINE b == BufSize
<1>b. b \in Nat \ {0} /\ Width \in Nat /\ Width % b = 0
  BY BufSizeAssumption, WidthAssumption
<1> HIDE DEF b
<1>1. PICK k \in Nat : Width = k * b
  <2>1. PICK k \in Nat : Width = k * b + (Width % b)
    BY <1>b, Division
  <2>2. k * b \in Int
    BY <1>b
  <2>3. Width = k * b
    BY <1>b, <2>1, <2>2
  <2> QED
    BY <2>3
<1>2. PICK p \in Nat : x = p * b + (x % b) /\ x % b \in 0..b - 1
  BY <1>b, Division
<1>3. x - Width \in Nat
  BY <1>b
<1>4. PICK q \in Nat : x - Width = q * b + ((x - Width) % b) /\ (x - Width) % b \in 0..b - 1
  BY <1>b, <1>3, Division
<1>5. (p - k) * b = p * b - k * b
  BY <1>b
<1>6. (p - k) * b + (x % b) = q * b + ((x - Width) % b)
  <2>1. /\ p * b \in Int /\ k * b \in Int /\ q * b \in Int
        /\ x % b \in Int /\ (x - Width) % b \in Int
    BY <1>b, <1>2, <1>4
  <2> QED
    BY <1>1, <1>2, <1>4, <1>5, <1>b, <2>1
<1>7. x % b = (x - Width) % b
  <2> DEFINE m == x % b
             n == (x - Width) % b
             d == p - k
  <2>1. m \in 0..b - 1 /\ n \in 0..b - 1 /\ d \in Int /\ q \in Int /\ d * b + m = q * b + n
    BY <1>2, <1>4, <1>6
  <2> HIDE DEF m, n, d
  <2>2. m = n
    BY <1>b, <2>1, UniqueRemainder
  <2> QED
    BY <2>2 DEF m, n
<1> QED
  BY <1>7 DEF b

-----------------------------------------------------------------------------
(* What is in the ring *)

LEMMA RingFacts ==
  ASSUME TypeOK
  PROVE  /\ ch.w \in 0..Width - 1 /\ ch.r \in 0..Width - 1 /\ Count \in 0..Width - 1
         /\ ch.w = ch.r + Count \/ (ch.w = (ch.r + Count) - Width /\ ch.r + Count >= Width)
         /\ BufSize \in Nat \ {0} /\ Width \in Nat /\ Width > BufSize
<1>1. /\ ch.w \in 0..Width - 1 /\ ch.r \in 0..Width - 1
      /\ BufSize \in Nat \ {0} /\ Width \in Nat \ {0} /\ Width > BufSize
  BY BufSizeAssumption, WidthAssumption DEF TypeOK
<1>2. CASE ch.r <= ch.w
  <2>1. ch.w + Width - ch.r \in Width..2 * Width - 1
    BY <1>1, <1>2
  <2>2. \A x \in Width..2 * Width - 1 : x % Width = x - Width
    BY <1>1, ModOnceOver
  <2>3. (ch.w + Width - ch.r) % Width = (ch.w + Width - ch.r) - Width
    BY <2>1, <2>2
  <2>4. Count = ch.w - ch.r
    BY <1>1, <2>3 DEF Count
  <2> QED
    BY <1>1, <1>2, <2>4
<1>3. CASE ~(ch.r <= ch.w)
  <2>1. ch.w + Width - ch.r \in 0..Width - 1
    BY <1>1, <1>3
  <2>2. Count = ch.w + Width - ch.r
    BY <1>1, <2>1, ModSmall DEF Count
  <2> QED
    BY <1>1, <1>3, <2>2
<1> QED
  BY <1>2, <1>3

\* The next character goes to the cell after the last one of the contents.
LEMMA CellOfW ==
  ASSUME TypeOK
  PROVE  ch.w % BufSize = (ch.r + Count) % BufSize
<1>1. ch.r + Count \in Nat
  BY RingFacts
<1>2. CASE ch.w = ch.r + Count
  BY <1>2
<1>3. CASE ch.w = (ch.r + Count) - Width /\ ch.r + Count >= Width
  BY <1>1, <1>3, SameCell
<1> QED
  BY <1>2, <1>3, RingFacts

Ring(n, r, buf) == [i \in 1..n |-> buf[(r + i - 1) % BufSize]]

LEMMA RingType ==
  ASSUME NEW n \in Nat, NEW r \in Nat, NEW buf \in [0..BufSize - 1 -> Chars]
  PROVE  /\ Ring(n, r, buf) \in Seq(Chars) /\ Len(Ring(n, r, buf)) = n
         /\ \A i \in 1..n : Ring(n, r, buf)[i] = buf[(r + i - 1) % BufSize]
<1>1. ASSUME NEW i \in 1..n PROVE buf[(r + i - 1) % BufSize] \in Chars
  <2>1. r + i - 1 \in Nat /\ BufSize \in Nat \ {0}
    BY BufSizeAssumption
  <2>2. (r + i - 1) % BufSize \in 0..BufSize - 1
    BY <2>1
  <2> QED
    BY <2>2
<1> DEFINE s == Ring(n, r, buf)
<1>2. s \in [1..n -> Chars] /\ \A i \in 1..n : s[i] = buf[(r + i - 1) % BufSize]
  BY <1>1 DEF Ring
<1> HIDE DEF s
<1>3. s \in Seq(Chars)
  BY <1>2, SeqDef
<1>4. Len(s) \in Nat /\ DOMAIN s = 1..Len(s) /\ DOMAIN s = 1..n
  BY <1>2, <1>3, LenProperties
<1>5. Len(s) = n
  <2> DEFINE m == Len(s)
  <2>1. m \in Nat /\ 1..m = 1..n
    BY <1>4
  <2> HIDE DEF m
  <2>2. n \in 1..n <=> n \in 1..m
    BY <2>1
  <2>3. m \in 1..m <=> m \in 1..n
    BY <2>1
  <2>4. m = n
    BY <2>1, <2>2, <2>3
  <2> QED
    BY <2>4 DEF m
<1> QED
  BY <1>2, <1>3, <1>5 DEF s

LEMMA ContentsType ==
  ASSUME TypeOK
  PROVE  /\ Contents \in Seq(Chars) /\ Len(Contents) = Count
         /\ \A i \in 1..Count : Contents[i] = ch.buf[(ch.r + i - 1) % BufSize]
<1>1. Count \in Nat /\ ch.r \in Nat /\ ch.buf \in [0..BufSize - 1 -> Chars]
  BY RingFacts DEF TypeOK
<1>2. Contents = Ring(Count, ch.r, ch.buf)
  BY DEF Contents, Ring
<1> QED
  BY <1>1, <1>2, RingType

-----------------------------------------------------------------------------
(* The steps *)

\* A sender in its critical section has a free cell.
LEMMA RoomToSend ==
  ASSUME IInv, NEW p \in Senders, op[p].at = "critical"
  PROVE  Count < BufSize
<1>1. p \in InCall /\ p \notin Written /\ p \notin Claimed
  BY Kinds, Membership
<1>2. /\ Written \in SUBSET InCall /\ Claimed \in SUBSET InCall /\ Written \cap Claimed = {}
      /\ IsFiniteSet(InCall)
  BY FiniteParts, ProcsAssumption DEF Written, Claimed, InCall, Procs
<1>3. Cardinality(Written) + Cardinality(Claimed) + 1 <= Cardinality(InCall)
  BY <1>1, <1>2, DisjointParts
<1>4. /\ Count = ch.full + Cardinality(Written) + Cardinality(Claimed)
      /\ ch.empty + ch.full + Cardinality(InCall) = BufSize
      /\ ch.empty \in Nat /\ ch.full \in Nat
  BY DEF IInv, CountMatchesSemaphores, CellsAccountedFor, TypeOK
<1> QED
  BY <1>3, <1>4, NaturalParts, BufSizeAssumption

\* SendPut() appends to the contents.
LEMMA AbstractSend ==
  ASSUME IInv, IInv', NEW p \in Senders, SendPut(p)
  PROVE  Abstract!BSend(op[p].c)
<1> DEFINE c == op[p].c
           n == Count
           r == ch.r
           buf == ch.buf
           B == BufSize
           at == ch.w % B
<1>1. /\ TypeOK /\ TypeOK' /\ p \in Procs /\ p \notin Receivers /\ op[p].at = "critical"
      /\ c \in Chars /\ Goto(p, "unlock")
      /\ ch' = [ch EXCEPT !.buf[ch.w % BufSize] = op[p].c, !.w = (@ + 1) % Width]
  BY Kinds DEF IInv, SendPut, TypeOK
<1>2. /\ n \in Nat /\ n < B /\ r \in Nat /\ B \in Nat \ {0} /\ Width \in Nat \ {0}
      /\ at = (r + n) % B /\ at \in 0..B - 1 /\ buf \in [0..B - 1 -> Chars]
  <2>1. /\ n \in Nat /\ r \in Nat /\ B \in Nat \ {0} /\ Width \in Nat \ {0}
        /\ ch.w \in 0..Width - 1
    BY <1>1, RingFacts
  <2>2. n < B
    BY <1>1, RoomToSend
  <2>3. at = (r + n) % B
    BY <1>1, CellOfW
  <2>4. at \in 0..B - 1
    BY <2>1, CellIndex
  <2>5. buf \in [0..B - 1 -> Chars]
    BY <1>1 DEF TypeOK
  <2> QED
    BY <2>1, <2>2, <2>3, <2>4, <2>5
<1>3. /\ ch'.r = r /\ ch'.w = (ch.w + 1) % Width /\ ch'.buf = [buf EXCEPT ![at] = c]
  BY <1>1 DEF TypeOK
<1>4. Count' = n + 1
  <2>1. Distance(Width, ch.w, r) < Width - 1
    BY <1>1, <1>2, RingFacts, CountIsDistance
  <2>2. Distance(Width, (ch.w + 1) % Width, r) = Distance(Width, ch.w, r) + 1
    BY <1>1, <1>2, <2>1, RingFacts, DistanceUp
  <2> QED
    BY <1>3, <2>2, CountIsDistance, CountIsDistancePrime
<1>5. /\ Contents \in Seq(Chars) /\ Len(Contents) = n
      /\ \A i \in 1..n : Contents[i] = buf[(r + i - 1) % B]
  BY <1>1, ContentsType
<1>6. /\ Contents' \in Seq(Chars) /\ Len(Contents') = n + 1
      /\ \A i \in 1..n + 1 : Contents'[i] = ch'.buf[(r + i - 1) % B]
  <2>1. Count' \in Nat /\ ch'.r \in Nat /\ ch'.buf \in [0..BufSize - 1 -> Chars]
    <3>1. Count' \in Nat /\ ch'.r \in Nat
      BY <1>2, <1>3, <1>4
    <3>2. ch'.buf \in [0..BufSize - 1 -> Chars]
      BY <1>1 DEF TypeOK
    <3> QED
      BY <3>1, <3>2
  <2>2. /\ Contents' \in Seq(Chars) /\ Len(Contents') = Count'
        /\ \A i \in 1..Count' : Contents'[i] = ch'.buf[(ch'.r + i - 1) % BufSize]
    <3>1. Contents' = Ring(Count', ch'.r, ch'.buf)
      BY DEF Contents, Ring
    <3> QED
      BY <2>1, <3>1, RingType
  <2> QED
    BY <1>3, <1>4, <2>2
<1> HIDE DEF c, n, r, buf, B, at
<1>7. \A i \in 1..n : (r + i - 1) % B \in 0..B - 1 /\ (r + i - 1) % B # at
  <2> SUFFICES ASSUME NEW i \in 1..n
               PROVE  (r + i - 1) % B \in 0..B - 1 /\ (r + i - 1) % B # at
    OBVIOUS
  <2> DEFINE x == r + i - 1
             y == r + n
  <2>1. x \in Nat /\ y \in Nat /\ x < y /\ y < x + B
    BY <1>2
  <2> HIDE DEF x, y
  <2>2. x % B # y % B
    BY <1>2, <2>1, DifferentCells
  <2>3. x % B \in 0..B - 1
    BY <1>2, <2>1
  <2> QED
    BY <1>2, <2>2, <2>3 DEF x, y
<1>8. Contents' = Append(Contents, c)
  <2>1. /\ Append(Contents, c) \in Seq(Chars) /\ Len(Append(Contents, c)) = n + 1
        /\ \A i \in 1..n : Append(Contents, c)[i] = Contents[i]
        /\ Append(Contents, c)[n + 1] = c
    BY <1>1, <1>5, AppendProperties
  <2>2. \A i \in 1..n : Contents'[i] = Contents[i]
    BY <1>2, <1>3, <1>5, <1>6, <1>7
  <2>3. Contents'[n + 1] = c
    <3>1. n + 1 \in 1..n + 1 /\ r + (n + 1) - 1 = r + n
      BY <1>2
    <3>2. Contents'[n + 1] = ch'.buf[(r + n) % B]
      BY <1>6, <3>1
    <3> QED
      BY <1>2, <1>3, <3>2
  <2>4. \A i \in 1..n + 1 : Contents'[i] = Append(Contents, c)[i]
    <3>1. \A i \in 1..n + 1 : i \in 1..n \/ i = n + 1
      BY <1>2
    <3> QED
      BY <2>1, <2>2, <2>3, <3>1
  <2> QED
    BY <1>6, <2>1, <2>4, SeqEqual
<1>9. \A q \in Receivers : op'[q] = op[q]
  BY <1>1, Kinds, GotoType
<1> QED
  BY <1>2, <1>5, <1>8, <1>9 DEF Abstract!BSend, c, B

\* RecvTake() removes the oldest of the contents.
LEMMA AbstractRecv ==
  ASSUME IInv, IInv', NEW p \in Receivers, RecvTake(p)
  PROVE  Abstract!BRecv(p)
<1> DEFINE n == Count
           r == ch.r
           buf == ch.buf
           B == BufSize
<1>1. /\ TypeOK /\ TypeOK' /\ p \in Procs /\ op[p].at = "critical"
      /\ op' = [op EXCEPT ![p] = [at |-> "unlock", c |-> ch.buf[ch.r % BufSize]]]
      /\ ch' = [ch EXCEPT !.r = (@ + 1) % Width]
  BY Kinds DEF IInv, RecvTake
<1>2. /\ n \in Nat /\ r \in 0..Width - 1 /\ B \in Nat \ {0} /\ Width \in Nat \ {0}
      /\ buf \in [0..B - 1 -> Chars]
  <2>1. buf \in [0..B - 1 -> Chars]
    BY <1>1 DEF TypeOK
  <2> QED
    BY <1>1, <2>1, RingFacts
<1>3. n > 0
  <2>1. p \in Claimed
    BY <1>1, Membership
  <2>2. Cardinality(Claimed) # 0
    BY <2>1, FiniteParts, FS_EmptySet
  <2>3. n = ch.full + Cardinality(Written) + Cardinality(Claimed) /\ ch.full \in Nat
    BY <1>1 DEF IInv, CountMatchesSemaphores, TypeOK
  <2> QED
    BY <2>2, <2>3, NaturalParts
<1>4. ch'.r = (r + 1) % Width /\ ch'.w = ch.w /\ ch'.buf = buf
  BY <1>1 DEF TypeOK
<1>5. Count' = n - 1
  <2>1. Distance(Width, ch.w, (r + 1) % Width) = Distance(Width, ch.w, r) - 1
    BY <1>1, <1>2, <1>3, RingFacts, CountIsDistance, DistanceDown
  <2> QED
    BY <1>4, <2>1, CountIsDistance, CountIsDistancePrime
<1>6. /\ Contents \in Seq(Chars) /\ Len(Contents) = n
      /\ \A i \in 1..n : Contents[i] = buf[(r + i - 1) % B]
  BY <1>1, ContentsType
<1>7. /\ Contents' \in Seq(Chars) /\ Len(Contents') = n - 1
      /\ \A i \in 1..n - 1 : Contents'[i] = buf[(ch'.r + i - 1) % B]
  <2>1. Count' \in Nat /\ ch'.r \in Nat /\ ch'.buf \in [0..BufSize - 1 -> Chars]
    <3>1. n - 1 \in Nat
      BY <1>2, <1>3
    <3>2. (r + 1) % Width \in 0..Width - 1
      BY <1>2, NextCounter
    <3> QED
      BY <1>2, <1>4, <1>5, <3>1, <3>2
  <2>2. /\ Contents' \in Seq(Chars) /\ Len(Contents') = Count'
        /\ \A i \in 1..Count' : Contents'[i] = ch'.buf[(ch'.r + i - 1) % BufSize]
    <3>1. Contents' = Ring(Count', ch'.r, ch'.buf)
      BY DEF Contents, Ring
    <3> QED
      BY <2>1, <3>1, RingType
  <2> QED
    BY <1>4, <1>5, <2>2
<1>8. ASSUME NEW i \in 1..n - 1 PROVE (ch'.r + i - 1) % B = (r + i) % B
  <2>1. ch'.r = IF r = Width - 1 THEN 0 ELSE r + 1
    BY <1>2, <1>4, ModStep
  <2>2. CASE r = Width - 1
    <3>1. r + i \in Nat /\ r + i >= Width /\ (r + i) - Width = ch'.r + i - 1
      BY <1>2, <2>1, <2>2
    <3>2. (r + i) % BufSize = ((r + i) - Width) % BufSize
      BY <3>1, SameCell
    <3> QED
      BY <3>1, <3>2
  <2>3. CASE r # Width - 1
    <3>1. ch'.r + i - 1 = r + i
      BY <1>2, <2>1, <2>3
    <3> QED
      BY <3>1
  <2> QED
    BY <2>2, <2>3
<1> HIDE DEF n, r, buf, B
<1>9. /\ Contents # <<>> /\ Head(Contents) = buf[r % B]
      /\ Tail(Contents) \in Seq(Chars) /\ Len(Tail(Contents)) = n - 1
      /\ \A i \in 1..n - 1 : Tail(Contents)[i] = Contents[i + 1]
  <2>1. Contents # <<>>
    BY <1>3, <1>6, EmptySeq
  <2>2. /\ Head(Contents) = Contents[1]
        /\ Tail(Contents) \in Seq(Chars) /\ Len(Tail(Contents)) = n - 1
        /\ \A i \in 1..n - 1 : Tail(Contents)[i] = Contents[i + 1]
    BY <1>6, <2>1, HeadTailProperties
  <2>3. 1 \in 1..n /\ r + 1 - 1 = r
    BY <1>2, <1>3
  <2> QED
    BY <1>6, <2>1, <2>2, <2>3
<1>10. Contents' = Tail(Contents)
  <2>1. ASSUME NEW i \in 1..n - 1 PROVE Contents'[i] = Tail(Contents)[i]
    <3>1. i + 1 \in 1..n /\ r + (i + 1) - 1 = r + i
      BY <1>2
    <3>2. Contents[i + 1] = buf[(r + i) % B]
      BY <1>6, <3>1
    <3> QED
      BY <1>7, <1>8, <1>9, <3>2
  <2> QED
    BY <1>7, <1>9, <2>1, SeqEqual
<1>11. [q \in Receivers |-> op'[q].c]
         = [[q \in Receivers |-> op[q].c] EXCEPT ![p] = Head(Contents)]
  <2>1. op'[p].c = buf[r % B] /\ \A q \in Receivers \ {p} : op'[q] = op[q]
    BY <1>1, Kinds DEF TypeOK, buf, r, B
  <2> QED
    BY <1>9, <2>1
<1> QED
  BY <1>9, <1>10, <1>11 DEF Abstract!BRecv

\* The steps on semaphores change neither the contents nor what was received.
LEMMA AbstractStutter ==
  ASSUME ch'.w = ch.w, ch'.r = ch.r, ch'.buf = ch.buf,
         \A q \in Receivers : op'[q].c = op[q].c
  PROVE  UNCHANGED Abstract!bvars
<1>1. Contents' = Contents
  BY DEF Contents, Count
<1> QED
  BY <1>1 DEF Abstract!bvars

LEMMA GotoKeeps ==
  ASSUME TypeOK, NEW p, NEW at, Goto(p, at)
  PROVE  \A q \in Receivers : op'[q].c = op[q].c
BY Kinds DEF TypeOK, Goto

LEMMA AbstractStep ==
  IInv /\ IInv' /\ [Next]_vars => [Abstract!BNext]_Abstract!bvars
<1> SUFFICES ASSUME IInv, IInv', [Next]_vars PROVE Abstract!BNext \/ UNCHANGED Abstract!bvars
  OBVIOUS
<1>t. TypeOK
  BY DEF IInv
<1>1. ASSUME NEW p \in Senders, NEW c \in Chars, SendWaitEmpty(p, c)
      PROVE  UNCHANGED Abstract!bvars
  <2>1. \A q \in Receivers : op'[q].c = op[q].c
    BY <1>1, <1>t, Kinds DEF SendWaitEmpty, TypeOK
  <2> QED
    BY <1>1, <1>t, <2>1, AbstractStutter DEF SendWaitEmpty, TypeOK
<1>2. ASSUME NEW p \in Procs,
             WaitMutex(p) \/ PostMutex(p) \/ SendPostFull(p) \/ RecvWaitFull(p) \/ RecvPostEmpty(p)
      PROVE  UNCHANGED Abstract!bvars
  <2>1. \A q \in Receivers : op'[q].c = op[q].c
    BY <1>2, <1>t, GotoKeeps DEF WaitMutex, PostMutex, SendPostFull, RecvWaitFull, RecvPostEmpty
  <2>2. ch'.w = ch.w /\ ch'.r = ch.r /\ ch'.buf = ch.buf
    BY <1>2, <1>t DEF WaitMutex, PostMutex, SendPostFull, RecvWaitFull, RecvPostEmpty, TypeOK
  <2> QED
    BY <2>1, <2>2, AbstractStutter
<1>3. ASSUME NEW p \in Senders, SendPut(p) PROVE Abstract!BNext
  <2>1. Abstract!BSend(op[p].c) /\ op[p].c \in Chars
    BY <1>3, <1>t, Kinds, AbstractSend DEF TypeOK
  <2> QED
    BY <2>1 DEF Abstract!BNext
<1>4. ASSUME NEW p \in Receivers, RecvTake(p) PROVE Abstract!BNext
  BY <1>4, AbstractRecv DEF Abstract!BNext
<1>5. CASE UNCHANGED vars
  BY <1>5, AbstractStutter DEF vars
<1> QED
  BY <1>1, <1>2, <1>3, <1>4, <1>5, Kinds DEF Next, SendStep, RecvStep

LEMMA AbstractInit == Init => Abstract!BInit
<1> SUFFICES ASSUME Init PROVE Abstract!BInit
  OBVIOUS
<1>1. TypeOK /\ Count = 0
  <2>1. ch.w = 0 /\ ch.r = 0
    BY DEF Init, Fresh
  <2>2. Width % Width = 0 /\ Width \in Nat
    BY WidthIsPositive
  <2> QED
    BY <2>1, <2>2, InitIInv DEF Count, IInv
<1>2. Contents = <<>>
  BY <1>1, ContentsType, EmptySeq
<1>3. [p \in Receivers |-> op[p].c] \in [Receivers -> Chars]
  BY <1>1, Kinds DEF TypeOK
<1> QED
  BY <1>2, <1>3 DEF Abstract!BInit

\* channel_send() and channel_recv() are the atomic operations of a bounded FIFO
\* for any number of processes, whatever their semaphore operations interleave with,
\* and also after 2^32 characters, when w and r wrap around (ipc.c:12-34).
THEOREM IsBoundedFifo == Spec => ImplementsBoundedFifo
<1>1. Spec => Abstract!BInit /\ [][Abstract!BNext]_Abstract!bvars
  BY AbstractInit, AbstractStep, Invariance, PTL DEF Spec
<1> QED
  BY <1>1 DEF ImplementsBoundedFifo, Abstract!BSpec
=============================================================================
