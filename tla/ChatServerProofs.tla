-------------------------- MODULE ChatServerProofs --------------------------
(***************************************************************************)
(* The safety properties of ChatServer, for any number of clients, table   *)
(* and messages.  They hold as long as no accept() has returned before a   *)
(* handler has read its argument; `rushed' says in each behaviour whether  *)
(* one has, and nothing excludes the behaviours in which it has.           *)
(*                                                                         *)
(* The argument: main() holds one connection at a time that is not yet in  *)
(* the table, and its number is in newSocket (Arrivals).  A number stands  *)
(* for one connection and a thread that serves reads from its own          *)
(* (Connected); the table does not change under the lock that a thread     *)
(* holds while it sends (Locked).  What a client has said and others have  *)
(* not yet heard comes later than what they have heard (Talk).             *)
(***************************************************************************)
EXTENDS ChatServer, FiniteSetTheorems, SequenceTheorems, TLAPS

-----------------------------------------------------------------------------
(* The inductive invariant *)

Serving(c) == h[c].pc \in {"recv", "lock", "send", "close"}

\* A connection without a thread is the one that main() has just accepted; one
\* whose thread has not read its argument is the one that it has just appended.
Arriving(c) ==
  /\ peer[c] = "out" => h[c].pc = "none"
  /\ h[c].pc = "none" /\ peer[c] # "out"
       => mpc = "append" /\ newSocket \in Fds /\ conn[newSocket] = c
  /\ h[c].pc = "created" => mpc = "accept" /\ newSocket \in Fds /\ conn[newSocket] = c

Arrivals == /\ \A c \in Clients : Arriving(c)
            /\ mpc = "append" => /\ newSocket \in Fds /\ conn[newSocket] \in Clients
                                 /\ h[conn[newSocket]].pc = "none"

\* A thread serves the connection behind its descriptor; one that has closed it
\* had been told to.
Served(c) ==
  /\ Serving(c) => h[c].fd \in Fds /\ conn[h[c].fd] = c /\ h[c].sock = c
  /\ h[c].pc \in {"close", "remove", "done"} => peer[c] # "up"
  /\ h[c].pc = "remove" => h[c].fd \in Fds

Connected ==
  /\ \A f, g \in Fds : conn[f] # Nobody /\ conn[f] = conn[g] => f = g
  /\ \A f \in Fds : conn[f] # Nobody => peer[conn[f]] # "out"
  /\ \A c \in Clients : Served(c)

Locked == \A c \in Clients :
            /\ h[c].pc = "send" <=> lock = c
            /\ h[c].pc = "send" => h[c].i \in 1..Len(clients) /\ clients[h[c].i] # h[c].fd

\* While no number in the table has been given out again, none is in it twice.
Listing == ~doubled => /\ \A i, j \in 1..Len(clients) : clients[i] = clients[j] => i = j
                       /\ mpc = "append" => ~Listed(newSocket)

\* Pieces of one client, in the order in which it has sent them; those of s
\* before those of t.
Stream(s, c) == /\ \A i \in 1..Len(s) : s[i].from = c
                /\ \A i, j \in 1..Len(s) : i < j => s[i].n < s[j].n
Before(s, t, c) == \A i \in 1..Len(s), j \in 1..Len(t) :
                     s[i].from = c => s[i].n < t[j].n

\* A client that is connected has not said "stop chat".
Numbered(s, c) == \A i \in 1..Len(s) : s[i].from = c => s[i].n <= 2 * Len(said)

\* What a client has said: some of it heard, then the part that its thread
\* forwards, then the part that no recv() has returned.
Talking(c) ==
  /\ Stream(inbox[c], c) /\ Stream(h[c].chunk, c)
  /\ Before(h[c].chunk, inbox[c], c)
  /\ peer[c] \in {"out", "up"} => Numbered(inbox[c], c) /\ Numbered(h[c].chunk, c)

\* A client has yet to be sent what the thread of another forwards.
Awaits(d, c) == \/ h[c].pc = "lock"
                \/ /\ h[c].pc = "send" /\ ~doubled
                   /\ \E k \in h[c].i..Len(clients) : conn[clients[k]] = d

Hearing(d, c) ==
  /\ Before(heard[d], inbox[c], c)
  /\ Awaits(d, c) => Before(heard[d], h[c].chunk, c)
  /\ peer[c] \in {"out", "up"} => Numbered(heard[d], c)

Talk == /\ \A c \in Clients : Talking(c)
        /\ \A c, d \in Clients : Hearing(d, c)
        /\ \A d \in Clients : peer[d] = "out" => heard[d] = <<>>

Inside == TypeOK /\ Arrivals /\ Connected /\ Locked /\ TableMatches /\ Listing
IInv == Inside /\ Talk /\ OrderlyHearing

-----------------------------------------------------------------------------
(* Functions and sequences *)

LEMMA UpdateType ==
  ASSUME NEW S, NEW T, NEW f \in [S -> T], NEW x \in S, NEW y \in T
  PROVE  /\ [f EXCEPT ![x] = y] \in [S -> T]
         /\ [f EXCEPT ![x] = y][x] = y
         /\ \A z \in S \ {x} : [f EXCEPT ![x] = y][z] = f[z]
OBVIOUS

LEMMA SeqFacts ==
  ASSUME NEW S, NEW s \in Seq(S)
  PROVE  /\ Len(s) \in Nat
         /\ \A i \in 1..Len(s) : s[i] \in S
BY LenProperties, ElementOfSeq

LEMMA AppendFacts ==
  ASSUME NEW S, NEW s \in Seq(S), NEW e \in S, NEW t, t = Append(s, e)
  PROVE  /\ t \in Seq(S)
         /\ Len(t) = Len(s) + 1
         /\ \A i \in 1..Len(t) : t[i] = IF i <= Len(s) THEN s[i] ELSE e
<1>1. /\ Append(s, e) \in Seq(S)
      /\ Len(Append(s, e)) = Len(s) + 1
      /\ \A i \in 1..Len(s) : Append(s, e)[i] = s[i]
      /\ Append(s, e)[Len(s) + 1] = e
  BY AppendProperties
<1>2. Len(s) \in Nat
  BY SeqFacts
<1>3. \A i \in 1..Len(s) + 1 : (i <= Len(s) => i \in 1..Len(s)) /\ (~(i <= Len(s)) => i = Len(s) + 1)
  BY <1>2
<1> QED
  BY <1>1, <1>3

LEMMA PrefixFacts ==
  ASSUME NEW S, NEW s \in Seq(S), NEW n \in 0..Len(s), NEW t, t = SubSeq(s, 1, n)
  PROVE  /\ t \in Seq(S)
         /\ Len(t) = n
         /\ \A i \in 1..n : t[i] = s[i]
<1>1. Len(s) \in Nat /\ \A i \in 1..Len(s) : s[i] \in S
  BY SeqFacts
<1>2. 1 \in Int /\ n \in Int /\ n \in Nat /\ \A i \in 1..n : s[i] \in S
  BY <1>1
<1>3. /\ SubSeq(s, 1, n) \in Seq(S)
      /\ Len(SubSeq(s, 1, n)) = IF 1 <= n THEN n - 1 + 1 ELSE 0
      /\ \A i \in 1..n - 1 + 1 : SubSeq(s, 1, n)[i] = s[1 + i - 1]
  BY <1>2, SubSeqProperties
<1>4. Len(SubSeq(s, 1, n)) = n
  BY <1>2, <1>3
<1>5. \A i \in 1..n : SubSeq(s, 1, n)[i] = s[i]
  BY <1>2, <1>3
<1> QED
  BY <1>3, <1>4, <1>5

LEMMA SuffixFacts ==
  ASSUME NEW S, NEW s \in Seq(S), NEW n \in 0..Len(s), NEW t, t = SubSeq(s, n + 1, Len(s))
  PROVE  /\ t \in Seq(S)
         /\ Len(t) = Len(s) - n
         /\ \A i \in 1..Len(t) : t[i] = s[n + i]
<1>1. Len(s) \in Nat /\ \A i \in 1..Len(s) : s[i] \in S
  BY SeqFacts
<1>2. n + 1 \in Int /\ Len(s) \in Int /\ n \in Nat /\ \A i \in n + 1..Len(s) : s[i] \in S
  BY <1>1
<1>3. /\ SubSeq(s, n + 1, Len(s)) \in Seq(S)
      /\ Len(SubSeq(s, n + 1, Len(s))) = IF n + 1 <= Len(s) THEN Len(s) - (n + 1) + 1 ELSE 0
      /\ \A i \in 1..Len(s) - (n + 1) + 1 : SubSeq(s, n + 1, Len(s))[i] = s[(n + 1) + i - 1]
  BY <1>2, SubSeqProperties
<1>4. Len(SubSeq(s, n + 1, Len(s))) = Len(s) - n
  BY <1>1, <1>2, <1>3
<1>5. \A i \in 1..Len(s) - n : SubSeq(s, n + 1, Len(s))[i] = s[n + i]
  BY <1>1, <1>2, <1>3
<1> QED
  BY <1>3, <1>4, <1>5

LEMMA ConcatFacts ==
  ASSUME NEW S, NEW s \in Seq(S), NEW u \in Seq(S), NEW t, t = s \o u
  PROVE  /\ t \in Seq(S)
         /\ Len(t) = Len(s) + Len(u)
         /\ \A i \in 1..Len(t) : t[i] = IF i <= Len(s) THEN s[i] ELSE u[i - Len(s)]
BY ConcatProperties

-----------------------------------------------------------------------------
(* The table *)

\* Where a number stands in the table.
Places(table, f) == {i \in 1..Len(table) : table[i] = f}

LEMMA PlacesFinite ==
  ASSUME NEW table \in Seq(Fds), NEW f
  PROVE  IsFiniteSet(Places(table, f)) /\ Cardinality(Places(table, f)) \in Nat
<1>1. IsFiniteSet(1..Len(table))
  BY SeqFacts, FS_Interval
<1> QED
  BY <1>1, FS_Subset, FS_CardinalityType DEF Places

\* One more entry.
LEMMA AppendPlaces ==
  ASSUME NEW s \in Seq(Fds), NEW e \in Fds, NEW f
  PROVE  Cardinality(Places(Append(s, e), f))
           = Cardinality(Places(s, f)) + IF f = e THEN 1 ELSE 0
<1> SUFFICES ASSUME NEW t, t = Append(s, e)
             PROVE  Cardinality(Places(t, f)) = Cardinality(Places(s, f)) + IF f = e THEN 1 ELSE 0
  OBVIOUS
<1>1. /\ t \in Seq(Fds) /\ Len(t) = Len(s) + 1 /\ Len(s) \in Nat
      /\ \A i \in 1..Len(t) : t[i] = IF i <= Len(s) THEN s[i] ELSE e
  BY AppendFacts, SeqFacts
<1>2. CASE f = e
  <2>1. Places(t, f) = Places(s, f) \cup {Len(s) + 1} /\ Len(s) + 1 \notin Places(s, f)
    BY <1>1, <1>2 DEF Places
  <2>2. IsFiniteSet(Places(s, f)) /\ Cardinality(Places(s, f)) \in Nat
    BY PlacesFinite
  <2>3. Cardinality(Places(t, f)) = Cardinality(Places(s, f)) + 1
    BY <2>1, <2>2, FS_AddElement
  <2> QED
    BY <1>2, <2>3
<1>3. CASE f # e
  <2>1. Places(t, f) = Places(s, f)
    BY <1>1, <1>3 DEF Places
  <2> QED
    BY <1>3, <2>1, PlacesFinite
<1> QED
  BY <1>2, <1>3

\* The entry i is overwritten with the last one, which goes.
LEMMA TakenOut ==
  ASSUME NEW s \in Seq(Fds), NEW i \in 1..Len(s)
  PROVE  /\ TakeOut(s, i) \in Seq(Fds)
         /\ Len(s) \in Nat \ {0} /\ Len(TakeOut(s, i)) = Len(s) - 1
         /\ \A j \in 1..Len(s) - 1 : TakeOut(s, i)[j] = IF j = i THEN s[Len(s)] ELSE s[j]
<1> DEFINE u == [s EXCEPT ![i] = s[Len(s)]]
<1>1. Len(s) \in Nat /\ Len(s) >= 1 /\ Len(s) \in 1..Len(s) /\ s[Len(s)] \in Fds
  BY SeqFacts
<1>2. /\ u \in Seq(Fds) /\ Len(u) = Len(s)
      /\ \A j \in 1..Len(s) : u[j] = IF j = i THEN s[Len(s)] ELSE s[j]
  BY <1>1, ExceptSeq
<1> HIDE DEF u
<1>3. Len(s) - 1 \in 0..Len(u)
  BY <1>1, <1>2
<1>4. TakeOut(s, i) = SubSeq(u, 1, Len(s) - 1)
  BY DEF u, TakeOut
<1>5. /\ TakeOut(s, i) \in Seq(Fds) /\ Len(TakeOut(s, i)) = Len(s) - 1
      /\ \A j \in 1..Len(s) - 1 : TakeOut(s, i)[j] = u[j]
  BY <1>2, <1>3, <1>4, PrefixFacts
<1> QED
  BY <1>1, <1>2, <1>5

LEMMA TakenOutPlaces ==
  ASSUME NEW s \in Seq(Fds), NEW i \in 1..Len(s), NEW t,
         t = TakeOut(s, i), NEW f
  PROVE  Cardinality(Places(s, f)) = Cardinality(Places(t, f)) + IF f = s[i] THEN 1 ELSE 0
<1>1. PICK n \in Nat \ {0} :
         /\ n = Len(s) /\ t \in Seq(Fds) /\ Len(t) = n - 1
         /\ \A j \in 1..n - 1 : t[j] = IF j = i THEN s[n] ELSE s[j]
  BY TakenOut
<1>2. n = Len(s) /\ i \in 1..n /\ i <= n
  BY <1>1
<1>3. IsFiniteSet(Places(t, f)) /\ Cardinality(Places(t, f)) \in Nat
  BY <1>1, PlacesFinite
<1>4. CASE f = s[i] /\ s[n] = f
  <2>1. Places(s, f) = Places(t, f) \cup {n} /\ n \notin Places(t, f)
    BY <1>1, <1>2, <1>4 DEF Places
  <2>2. Cardinality(Places(s, f)) = Cardinality(Places(t, f)) + 1
    BY <1>3, <2>1, FS_AddElement
  <2> QED
    BY <1>4, <2>2
<1>5. CASE f = s[i] /\ s[n] # f
  <2>1. Places(s, f) = Places(t, f) \cup {i} /\ i \notin Places(t, f)
    BY <1>1, <1>2, <1>5 DEF Places
  <2>2. Cardinality(Places(s, f)) = Cardinality(Places(t, f)) + 1
    BY <1>3, <2>1, FS_AddElement
  <2> QED
    BY <1>5, <2>2
<1>6. CASE f # s[i] /\ s[n] = f
  <2> DEFINE rest == Places(s, f) \ {n}
  <2>1. /\ Places(s, f) = rest \cup {n} /\ n \notin rest
        /\ Places(t, f) = rest \cup {i} /\ i \notin rest
    <3>1. n \in Places(s, f) /\ i \notin Places(s, f)
      BY <1>2, <1>6 DEF Places
    <3>2. Places(t, f) = rest \cup {i}
      BY <1>1, <1>2, <1>6, SMTT(40) DEF Places
    <3> QED
      BY <3>1, <3>2
  <2>2. IsFiniteSet(rest)
    BY PlacesFinite, FS_Subset
  <2>3. Cardinality(Places(s, f)) = Cardinality(rest) + 1
    BY <2>1, <2>2, FS_AddElement
  <2>4. Cardinality(Places(t, f)) = Cardinality(rest) + 1
    BY <2>1, <2>2, FS_AddElement
  <2> QED
    BY <1>3, <1>6, <2>3, <2>4
<1>7. CASE f # s[i] /\ s[n] # f
  <2>1. Places(s, f) = Places(t, f)
    BY <1>1, <1>2, <1>7 DEF Places
  <2> QED
    BY <1>3, <1>7, <2>1
<1> QED
  BY <1>4, <1>5, <1>6, <1>7

-----------------------------------------------------------------------------
(* Steps of a thread *)

USE NClientsAssumption, FdsAssumption, BoundsAssumption

\* A handler goes on with these; the other handlers stay.
Turns(c, pc, fd, sock, chunk, i) ==
  /\ h' \in [Clients -> Frames]
  /\ h'[c].pc = pc /\ h'[c].fd = fd /\ h'[c].sock = sock /\ h'[c].chunk = chunk /\ h'[c].i = i
  /\ \A d \in Clients \ {c} : h'[d] = h[d]

LEMMA FrameType ==
  ASSUME h \in [Clients -> Frames], NEW c \in Clients
  PROVE  /\ h[c].pc \in Pcs /\ h[c].fd \in Fds \cup {NoFd} /\ h[c].sock \in Clients \cup {Nobody}
         /\ h[c].chunk \in Seq(Pieces) /\ h[c].i \in 0..MaxClients
<1>1. h[c] \in Frames
  OBVIOUS
<1> QED
  BY <1>1 DEF Frames

LEMMA SetTurns ==
  ASSUME h \in [Clients -> Frames], NEW c \in Clients, NEW pc \in Pcs,
         NEW fd \in Fds \cup {NoFd}, NEW sock \in Clients \cup {Nobody},
         NEW chunk \in Seq(Pieces), NEW i \in 0..MaxClients,
         h' = [h EXCEPT ![c] = Frame(pc, fd, sock, chunk, i)]
  PROVE  Turns(c, pc, fd, sock, chunk, i)
<1> DEFINE r == Frame(pc, fd, sock, chunk, i)
<1>1. /\ r \in Frames
      /\ r.pc = pc /\ r.fd = fd /\ r.sock = sock /\ r.chunk = chunk /\ r.i = i
  BY DEF Frame, Frames
<1>2. h' = [h EXCEPT ![c] = r]
  OBVIOUS
<1> HIDE DEF r
<1>3. /\ h' \in [Clients -> Frames] /\ h'[c] = r
      /\ \A d \in Clients \ {c} : h'[d] = h[d]
  BY <1>1, <1>2, UpdateType
<1> QED
  BY <1>1, <1>3 DEF Turns

LEMMA EmptyChunk == <<>> \in Seq(Pieces) /\ 0 \in 0..MaxClients
BY EmptySeq

LEMMA GotoTurns ==
  ASSUME h \in [Clients -> Frames], NEW c \in Clients, NEW pc \in Pcs,
         NEW chunk \in Seq(Pieces), NEW i \in 0..MaxClients, Goto(c, pc, chunk, i)
  PROVE  Turns(c, pc, h[c].fd, h[c].sock, chunk, i)
BY FrameType, SetTurns DEF Goto

\* A thread whose descriptor is open waits on the connection behind it.
LEMMA EnterTurns ==
  ASSUME TypeOK, NEW c \in Clients, NEW f \in Fds, conn[f] = c,
         h' = [h EXCEPT ![c] = EnterRecv(f)]
  PROVE  Turns(c, "recv", f, c, <<>>, 0)
<1>1. f \in Open /\ "recv" \in Pcs
  BY DEF Open, Clients, Nobody, Pcs
<1>2. h' = [h EXCEPT ![c] = Frame("recv", f, c, <<>>, 0)]
  BY <1>1 DEF EnterRecv
<1>3. h \in [Clients -> Frames]
  BY DEF TypeOK
<1> QED
  BY <1>1, <1>2, <1>3, EmptyChunk, SetTurns

LEMMA StartTurns ==
  ASSUME IInv, NEW c \in Clients, HandlerStart(c)
  PROVE  /\ newSocket \in Fds /\ conn[newSocket] = c
         /\ Turns(c, "recv", newSocket, c, <<>>, 0)
<1>1. newSocket \in Fds /\ conn[newSocket] = c
  BY DEF HandlerStart, IInv, Inside, Arrivals, Arriving
<1> QED
  BY <1>1, EnterTurns DEF HandlerStart, IInv, Inside

LEMMA ServesOwn ==
  ASSUME IInv, NEW c \in Clients, Serving(c)
  PROVE  h[c].fd \in Fds /\ conn[h[c].fd] = c /\ h[c].sock = c
BY DEF IInv, Inside, Connected, Served

LEMMA ReturnTurns ==
  ASSUME IInv, NEW c \in Clients, RecvReturn(c)
  PROVE  \E n \in 1..Len(inbox[c]), first \in Seq(Pieces) :
            /\ inbox' = [inbox EXCEPT ![c] = SubSeq(inbox[c], n + 1, Len(inbox[c]))]
            /\ first = SubSeq(inbox[c], 1, n) /\ Len(first) = n /\ first[1] = inbox[c][1]
            /\ \/ IsStop(first) /\ Turns(c, "close", h[c].fd, c, <<>>, 0)
               \/ ~IsStop(first) /\ Turns(c, "lock", h[c].fd, c, first, 0)
<1>1. h[c].sock = c /\ {"close", "lock"} \subseteq Pcs /\ h \in [Clients -> Frames]
  BY ServesOwn DEF RecvReturn, Serving, Pcs, IInv, Inside, TypeOK
<1>2. PICK n \in 1..Len(inbox[c]) :
        /\ inbox' = [inbox EXCEPT ![c] = SubSeq(inbox[c], n + 1, Len(inbox[c]))]
        /\ IF IsStop(SubSeq(inbox[c], 1, n)) THEN Goto(c, "close", <<>>, 0)
                                             ELSE Goto(c, "lock", SubSeq(inbox[c], 1, n), 0)
  BY <1>1 DEF RecvReturn, IInv, Inside, TypeOK
<1>3. inbox[c] \in Seq(Pieces) /\ Len(inbox[c]) \in Nat
  BY SeqFacts DEF IInv, Inside, TypeOK
<1>4. n \in 0..Len(inbox[c]) /\ 1 \in 1..n
  BY <1>3
<1>5. PICK first \in Seq(Pieces) :
        first = SubSeq(inbox[c], 1, n) /\ Len(first) = n /\ first[1] = inbox[c][1]
  <2>1. \A t : t = SubSeq(inbox[c], 1, n)
                => t \in Seq(Pieces) /\ Len(t) = n /\ \A i \in 1..n : t[i] = inbox[c][i]
    BY <1>3, <1>4, PrefixFacts
  <2>2. PICK t : t = SubSeq(inbox[c], 1, n)
    OBVIOUS
  <2>3. t \in Seq(Pieces) /\ Len(t) = n /\ t[1] = inbox[c][1]
    BY <1>4, <2>1, <2>2
  <2> QED
    BY <2>2, <2>3
<1>6. CASE IsStop(first)
  <2>1. Turns(c, "close", h[c].fd, c, <<>>, 0)
    BY <1>1, <1>2, <1>5, <1>6, EmptyChunk, GotoTurns
  <2> QED
    BY <1>2, <1>5, <1>6, <2>1
<1>7. CASE ~IsStop(first)
  <2>1. Turns(c, "lock", h[c].fd, c, first, 0)
    BY <1>1, <1>2, <1>5, <1>7, EmptyChunk, GotoTurns
  <2> QED
    BY <1>2, <1>5, <1>7, <2>1
<1> QED
  BY <1>6, <1>7

\* recv() reports the end, close() and the removal: the thread stays as it is but
\* for its place.
LEMMA LeaveTurns ==
  ASSUME IInv, NEW c \in Clients
  PROVE  /\ RecvEnd(c) \/ RemoveClient(c) => Turns(c, "done", h[c].fd, h[c].sock, <<>>, 0)
         /\ Close(c) => Turns(c, "remove", h[c].fd, h[c].sock, <<>>, 0)
<1>1. h \in [Clients -> Frames] /\ {"done", "remove"} \subseteq Pcs
  BY DEF IInv, Inside, TypeOK, Pcs
<1> QED
  BY <1>1, EmptyChunk, GotoTurns DEF RecvEnd, RemoveClient, Close

LEMMA NextTurns ==
  ASSUME IInv, NEW c \in Clients, Serving(c), NEW i \in 0..MaxClients, SendNext(c, i)
  PROVE  \/ Turns(c, "recv", h[c].fd, c, <<>>, 0) /\ lock' = Nobody
         \/ \E j \in 1..Len(clients) :
               /\ j > i /\ clients[j] # h[c].fd /\ lock' = c
               /\ Turns(c, "send", h[c].fd, c, h[c].chunk, j)
<1>1. h[c].fd \in Fds /\ conn[h[c].fd] = c /\ h[c].sock = c
  BY ServesOwn
<1>2. CASE NextChunk(c) /\ lock' = Nobody
  BY <1>1, <1>2, EnterTurns DEF NextChunk, IInv, Inside
<1>3. ASSUME NEW j \in Recipients(c, i), Goto(c, "send", h[c].chunk, j), lock' = c
      PROVE  /\ j \in 1..Len(clients) /\ j > i /\ clients[j] # h[c].fd
             /\ Turns(c, "send", h[c].fd, c, h[c].chunk, j)
  <2>1. Len(clients) \in Nat /\ Len(clients) <= MaxClients /\ h \in [Clients -> Frames]
    BY SeqFacts DEF IInv, Inside, TypeOK
  <2>2. j \in 1..Len(clients) /\ j > i /\ clients[j] # h[c].fd /\ j \in 0..MaxClients
    BY <2>1 DEF Recipients
  <2>3. "send" \in Pcs /\ h[c].chunk \in Seq(Pieces)
    BY <2>1, FrameType DEF Pcs
  <2> QED
    BY <1>1, <1>3, <2>1, <2>2, <2>3, GotoTurns
<1> QED
  BY <1>2, <1>3 DEF SendNext

LEMMA AppendTurns ==
  ASSUME IInv, AppendClient
  PROVE  \/ fault' = "overflow" /\ UNCHANGED <<clients, h, joined, mpc>>
         \/ /\ Len(clients) < MaxClients /\ clients' = Append(clients, newSocket)
            /\ mpc' = "accept" /\ UNCHANGED fault
            /\ \E c \in Clients :
                 /\ c = conn[newSocket] /\ h[c].pc = "none"
                 /\ joined' = [joined EXCEPT ![c] = Len(said)]
                 /\ Turns(c, "created", NoFd, Nobody, <<>>, 0)
<1>1. "created" \in Pcs /\ h \in [Clients -> Frames]
  BY DEF Pcs, IInv, Inside, TypeOK
<1>2. ASSUME NEW c \in Clients, peer[c] # "out", h[c].pc = "none"
      PROVE  c = conn[newSocket]
  BY <1>2 DEF IInv, Inside, Arrivals, Arriving
<1>3. ASSUME NEW c \in Clients, h' = [h EXCEPT ![c] = Frame("created", NoFd, Nobody, <<>>, 0)]
      PROVE  Turns(c, "created", NoFd, Nobody, <<>>, 0)
  BY <1>1, <1>3, EmptyChunk, SetTurns
<1> QED
  BY <1>2, <1>3 DEF AppendClient

-----------------------------------------------------------------------------
(* Type correctness *)

LEMMA AcceptFacts ==
  ASSUME TypeOK, NEW c \in Clients, Accept(c)
  PROVE  \E f \in Fds \ Open :
            /\ newSocket' = f /\ conn' \in [Fds -> Clients \cup {Nobody}] /\ conn'[f] = c
            /\ \A g \in Fds \ {f} : conn'[g] = conn[g]
            /\ doubled' = (doubled \/ Listed(f))
            /\ peer' \in [Clients -> {"out", "up", "left", "probed"}] /\ peer'[c] = "up"
            /\ \A d \in Clients \ {c} : peer'[d] = peer[d]
<1>1. /\ peer' \in [Clients -> {"out", "up", "left", "probed"}] /\ peer'[c] = "up"
      /\ \A d \in Clients \ {c} : peer'[d] = peer[d]
  BY UpdateType DEF Accept, TypeOK
<1>2. PICK f \in Fds \ Open : /\ conn' = [conn EXCEPT ![f] = c] /\ newSocket' = f
                              /\ doubled' = (doubled \/ Listed(f))
  BY DEF Accept
<1>3. /\ conn' \in [Fds -> Clients \cup {Nobody}] /\ conn'[f] = c
      /\ \A g \in Fds \ {f} : conn'[g] = conn[g]
  BY <1>2, UpdateType DEF TypeOK
<1> QED
  BY <1>1, <1>2, <1>3

LEMMA AcceptType ==
  ASSUME TypeOK, NEW c \in Clients, Accept(c)
  PROVE  TypeOK'
<1>1. /\ newSocket' \in Fds /\ conn' \in [Fds -> Clients \cup {Nobody}]
      /\ peer' \in [Clients -> {"out", "up", "left", "probed"}]
  BY AcceptFacts
<1>2. doubled' \in BOOLEAN /\ rushed' \in BOOLEAN
  BY AcceptFacts DEF Accept
<1>3. mpc' = "append" /\ UNCHANGED <<clients, lock, h, inbox, heard, fault, said, joined>>
  BY DEF Accept
<1> QED
  BY <1>1, <1>2, <1>3 DEF TypeOK

LEMMA AppendType ==
  ASSUME IInv, AppendClient
  PROVE  TypeOK'
<1>1. CASE fault' = "overflow" /\ UNCHANGED <<clients, h, joined, mpc>>
  BY <1>1 DEF TypeOK, AppendClient, IInv, Inside
<1>2. CASE fault' # "overflow" \/ ~UNCHANGED <<clients, h, joined, mpc>>
  <2>1. PICK c \in Clients :
           /\ Len(clients) < MaxClients /\ clients' = Append(clients, newSocket)
           /\ mpc' = "accept" /\ UNCHANGED fault
           /\ joined' = [joined EXCEPT ![c] = Len(said)]
           /\ Turns(c, "created", NoFd, Nobody, <<>>, 0)
    BY <1>2, AppendTurns
  <2>2. newSocket \in Fds /\ clients \in Seq(Fds) /\ said \in Seq(Clients) /\ Len(said) <= MaxSays
    BY DEF IInv, Inside, Arrivals, TypeOK, AppendClient
  <2>3. clients' \in Seq(Fds) /\ Len(clients') <= MaxClients
    BY <2>1, <2>2, AppendFacts, SeqFacts
  <2>4. Len(said) \in 0..MaxSays
    BY <2>2, SeqFacts
  <2>5. joined' \in [Clients -> 0..MaxSays]
    BY <2>1, <2>4, UpdateType DEF IInv, Inside, TypeOK
  <2> QED
    BY <2>1, <2>3, <2>5 DEF TypeOK, Turns, AppendClient, IInv, Inside
<1> QED
  BY <1>1, <1>2

LEMMA ReturnType ==
  ASSUME IInv, NEW c \in Clients, RecvReturn(c)
  PROVE  TypeOK'
<1>1. PICK n \in 1..Len(inbox[c]) :
        inbox' = [inbox EXCEPT ![c] = SubSeq(inbox[c], n + 1, Len(inbox[c]))]
  BY ReturnTurns
<1>2. h' \in [Clients -> Frames]
  BY ReturnTurns DEF Turns
<1>3. inbox[c] \in Seq(Pieces) /\ Len(inbox[c]) \in Nat /\ inbox \in [Clients -> Seq(Pieces)]
  BY SeqFacts DEF IInv, Inside, TypeOK
<1>4. n \in 0..Len(inbox[c])
  BY <1>3
<1>5. SubSeq(inbox[c], n + 1, Len(inbox[c])) \in Seq(Pieces)
  BY <1>3, <1>4, SuffixFacts
<1>6. inbox' \in [Clients -> Seq(Pieces)]
  BY <1>1, <1>3, <1>5, UpdateType
<1> QED
  BY <1>2, <1>6 DEF RecvReturn, TypeOK, IInv, Inside

LEMMA RemoveFacts ==
  ASSUME TypeOK, NEW f, RemoveEntry(f)
  PROVE  /\ clients' \in Seq(Fds) /\ Len(clients') <= Len(clients)
         /\ Len(clients) \in Nat /\ Len(clients') \in Nat
         /\ \/ Len(clients') = Len(clients) - 1 /\ Listed(f)
               /\ \E i \in 1..Len(clients) : clients[i] = f /\ clients' = TakeOut(clients, i)
            \/ UNCHANGED clients /\ ~Listed(f)
<1>1. clients \in Seq(Fds) /\ Len(clients) \in Nat
  BY SeqFacts DEF TypeOK
<1>2. ASSUME NEW i \in 1..Len(clients), clients[i] = f, clients' = TakeOut(clients, i)
      PROVE  clients' \in Seq(Fds) /\ Len(clients') = Len(clients) - 1 /\ Len(clients') \in Nat
             /\ Listed(f)
  <2>1. /\ TakeOut(clients, i) \in Seq(Fds) /\ Len(clients) \in Nat \ {0}
        /\ Len(TakeOut(clients, i)) = Len(clients) - 1
    BY <1>1, TakenOut
  <2> QED
    BY <1>2, <2>1 DEF Listed
<1> QED
  BY <1>1, <1>2 DEF RemoveEntry

LEMMA CloseFacts ==
  ASSUME IInv, NEW c \in Clients, Close(c)
  PROVE  /\ h[c].fd \in Fds /\ conn[h[c].fd] = c
         /\ conn' \in [Fds -> Clients \cup {Nobody}] /\ conn'[h[c].fd] = Nobody
         /\ \A f \in Fds \ {h[c].fd} : conn'[f] = conn[f]
<1>1. h[c].fd \in Fds /\ conn[h[c].fd] = c
  BY ServesOwn DEF Close, Serving
<1> QED
  BY <1>1, UpdateType DEF Close, IInv, Inside, TypeOK

LEMMA LeaveType ==
  ASSUME IInv, NEW c \in Clients, RecvEnd(c) \/ RemoveClient(c) \/ Close(c)
  PROVE  TypeOK'
<1>1. h' \in [Clients -> Frames]
  BY LeaveTurns DEF Turns
<1>2. CASE RecvEnd(c)
  BY <1>1, <1>2 DEF RecvEnd, TypeOK, IInv, Inside
<1>3. CASE RemoveClient(c)
  <2>1. clients \in Seq(Fds) /\ Len(clients) <= MaxClients
    BY DEF TypeOK, IInv, Inside
  <2>2. clients' \in Seq(Fds) /\ Len(clients') <= MaxClients
    BY <1>3, <2>1, RemoveFacts DEF RemoveClient, IInv, Inside
  <2> QED
    BY <1>1, <1>3, <2>2 DEF RemoveClient, TypeOK, IInv, Inside
<1>4. CASE Close(c)
  BY <1>1, <1>4, CloseFacts DEF Close, TypeOK, IInv, Inside
<1> QED
  BY <1>2, <1>3, <1>4

\* What send() to an entry does.
Hears(d, chunk) == /\ heard' \in [Clients -> Seq(Pieces)] /\ heard'[d] = heard[d] \o chunk
                   /\ \A e \in Clients \ {d} : heard'[e] = heard[e]

LEMMA SendFacts ==
  ASSUME IInv, NEW c \in Clients, Send(c)
  PROVE  /\ h[c].i \in 1..Len(clients) /\ clients[h[c].i] \in Fds /\ clients[h[c].i] # h[c].fd
         /\ Serving(c) /\ lock = c /\ SendNext(c, h[c].i)
         /\ \/ UNCHANGED heard
            \/ /\ conn[clients[h[c].i]] \in Clients /\ peer[conn[clients[h[c].i]]] = "up"
               /\ Hears(conn[clients[h[c].i]], h[c].chunk)
         /\ peer' \in [Clients -> {"out", "up", "left", "probed"}]
         /\ \A d \in Clients : (peer'[d] = "up" <=> peer[d] = "up")
                               /\ (peer'[d] = "out" <=> peer[d] = "out")
         /\ fault' \in {"none", "overflow", "sigpipe"}
<1>1. h[c].i \in 1..Len(clients) /\ clients[h[c].i] # h[c].fd /\ lock = c
  BY DEF IInv, Inside, Locked, Send
<1>2. clients[h[c].i] \in Fds
  BY <1>1, SeqFacts DEF IInv, Inside, TypeOK
<1>3. PICK d : d = conn[clients[h[c].i]]
  OBVIOUS
<1>4. d \in Clients \cup {Nobody}
  BY <1>2, <1>3 DEF IInv, Inside, TypeOK
<1>5. /\ heard \in [Clients -> Seq(Pieces)] /\ h[c].chunk \in Seq(Pieces)
      /\ peer \in [Clients -> {"out", "up", "left", "probed"}]
      /\ fault \in {"none", "overflow", "sigpipe"}
  BY FrameType DEF IInv, Inside, TypeOK
<1>6. CASE d = Nobody
  BY <1>1, <1>2, <1>3, <1>5, <1>6 DEF Send, Serving
<1>7. CASE d \in Clients
  <2>1. /\ heard' = IF peer[d] = "up" THEN [heard EXCEPT ![d] = heard[d] \o h[c].chunk] ELSE heard
        /\ peer' = IF peer[d] = "left" THEN [peer EXCEPT ![d] = "probed"] ELSE peer
        /\ fault' \in {"none", "sigpipe"}
    <3>1. conn[clients[h[c].i]] # Nobody
      BY <1>3, <1>7, NClientsAssumption DEF Nobody, Clients
    <3> QED
      BY <1>3, <3>1 DEF Send
  <2>2. heard[d] \o h[c].chunk \in Seq(Pieces)
    BY <1>5, <1>7, ConcatFacts
  <2>3. UNCHANGED heard \/ (peer[d] = "up" /\ Hears(d, h[c].chunk))
    BY <1>5, <1>7, <2>1, <2>2, UpdateType DEF Hears
  <2>4. /\ peer' \in [Clients -> {"out", "up", "left", "probed"}]
        /\ \A e \in Clients : (peer'[e] = "up" <=> peer[e] = "up")
                              /\ (peer'[e] = "out" <=> peer[e] = "out")
    BY <1>5, <1>7, <2>1
  <2> QED
    BY <1>1, <1>2, <1>3, <1>7, <2>1, <2>3, <2>4 DEF Send, Serving
<1> QED
  BY <1>4, <1>6, <1>7

LEMMA ForwardType ==
  ASSUME IInv, NEW c \in Clients, BroadcastLock(c) \/ Send(c)
  PROVE  TypeOK'
<1>1. Len(clients) \in Nat /\ Len(clients) <= MaxClients
  BY SeqFacts DEF IInv, Inside, TypeOK
<1>2. PICK i \in 0..MaxClients : SendNext(c, i) /\ Serving(c)
  <2>1. CASE BroadcastLock(c)
    BY <1>1, <2>1 DEF BroadcastLock, Serving
  <2>2. CASE Send(c)
    BY <1>1, <2>2, SendFacts
  <2> QED
    BY <2>1, <2>2
<1>3. h' \in [Clients -> Frames] /\ lock' \in Clients \cup {Nobody}
  BY <1>2, NextTurns DEF Turns
<1>4. CASE BroadcastLock(c)
  BY <1>3, <1>4 DEF BroadcastLock, TypeOK, IInv, Inside
<1>5. CASE Send(c)
  <2>1. heard' \in [Clients -> Seq(Pieces)]
    BY <1>5, SendFacts DEF Hears, IInv, Inside, TypeOK
  <2>2. peer' \in [Clients -> {"out", "up", "left", "probed"}] /\ fault' \in {"none", "overflow", "sigpipe"}
    BY <1>5, SendFacts
  <2> QED
    BY <1>3, <1>5, <2>1, <2>2 DEF Send, TypeOK, IInv, Inside
<1> QED
  BY <1>4, <1>5

\* A message is two pieces of its client, with numbers of their own.
LEMMA MessageFacts ==
  ASSUME NEW c \in Clients, NEW n \in 1..MaxSays + 1
  PROVE  /\ Message(c, n) \in Seq(Pieces)
         /\ Stream(Message(c, n), c)
         /\ \A i \in 1..Len(Message(c, n)) :
               2 * n - 1 <= Message(c, n)[i].n /\ Message(c, n)[i].n <= 2 * n
<1>1. n \in Nat /\ 1 <= n /\ n <= MaxSays + 1
  OBVIOUS
<1>2. PICK a, b : a = Piece(c, 2 * n - 1) /\ b = Piece(c, 2 * n)
  OBVIOUS
<1>3. a \in Pieces /\ b \in Pieces
  BY <1>1, <1>2 DEF Piece, Pieces
<1>4. /\ a.from = c /\ a.n = 2 * n - 1
      /\ b.from = c /\ b.n = 2 * n
  BY <1>2 DEF Piece
<1>5. Message(c, n) = <<a, b>>
  BY <1>2 DEF Message
<1>6. <<a, b>> \in Seq(Pieces) /\ Len(<<a, b>>) = 2
  BY <1>3
<1>7. \A i \in 1..2 : i = 1 \/ i = 2
  OBVIOUS
<1> QED
  BY <1>1, <1>4, <1>5, <1>6, <1>7 DEF Stream

\* What a client does.
LEMMA ClientFacts ==
  ASSUME TypeOK, NEW c \in Clients, Client(c)
  PROVE  /\ UNCHANGED Server /\ peer[c] = "up"
         /\ peer' \in [Clients -> {"out", "up", "left", "probed"}]
         /\ peer'[c] \in {"up", "left"} /\ \A d \in Clients \ {c} : peer'[d] = peer[d]
         /\ said' \in Seq(Clients) /\ Len(said') <= MaxSays /\ Len(said') \in Nat /\ Len(said) \in Nat
         /\ Len(said) <= Len(said')
         /\ inbox' \in [Clients -> Seq(Pieces)] /\ heard' \in [Clients -> Seq(Pieces)]
         /\ \A d \in Clients \ {c} : inbox'[d] = inbox[d] /\ heard'[d] = heard[d]
         /\ joined' = joined
         /\ \/ peer'[c] = "up" /\ heard'[c] = heard[c] /\ Len(said') = Len(said) + 1
               /\ Len(said) + 1 \in 1..MaxSays + 1
               /\ inbox'[c] = inbox[c] \o Message(c, Len(said) + 1)
            \/ /\ peer'[c] = "left" /\ heard'[c] = <<>>
               /\ UNCHANGED said
               /\ inbox'[c] = inbox[c] \/ inbox'[c] = inbox[c] \o Message(c, MaxSays + 1)
<1>1. /\ said \in Seq(Clients) /\ Len(said) \in Nat /\ Len(said) <= MaxSays
      /\ inbox \in [Clients -> Seq(Pieces)] /\ heard \in [Clients -> Seq(Pieces)]
      /\ peer \in [Clients -> {"out", "up", "left", "probed"}]
      /\ <<>> \in Seq(Pieces)
  BY SeqFacts, EmptySeq DEF TypeOK
<1>2. CASE Say(c)
  <2>1. Len(said) + 1 \in 1..MaxSays + 1
    BY <1>1, <1>2 DEF Say
  <2>2. inbox[c] \o Message(c, Len(said) + 1) \in Seq(Pieces)
    BY <1>1, <2>1, MessageFacts, ConcatFacts
  <2>3. said' \in Seq(Clients) /\ Len(said') = Len(said) + 1
    BY <1>1, <1>2, AppendFacts DEF Say
  <2> QED
    BY <1>1, <1>2, <2>1, <2>2, <2>3, UpdateType DEF Say
<1>3. CASE SayStop(c)
  <2>1. MaxSays + 1 \in 1..MaxSays + 1
    OBVIOUS
  <2>2. inbox[c] \o Message(c, MaxSays + 1) \in Seq(Pieces)
    BY <1>1, <2>1, MessageFacts, ConcatFacts
  <2> QED
    BY <1>1, <1>3, <2>2, UpdateType DEF SayStop, StopChat
<1>4. CASE HangUp(c)
  BY <1>1, <1>4, UpdateType DEF HangUp
<1> QED
  BY <1>2, <1>3, <1>4 DEF Client

LEMMA ClientType ==
  ASSUME TypeOK, NEW c \in Clients, Client(c)
  PROVE  TypeOK'
BY ClientFacts DEF TypeOK, Server

-----------------------------------------------------------------------------
(* The descriptors and the table *)

Removers(f) == {c \in Clients : h[c].pc = "remove" /\ h[c].fd = f}
Entry(f) == IF Announced(f) THEN 1 ELSE 0
Exact(f) == Cardinality(Places(clients, f)) = Entry(f) + Cardinality(Removers(f))

LEMMA ExactTable == TableMatches <=> \A f \in Fds : Exact(f)
BY DEF TableMatches, Exact, Places, Entry, Removers

LEMMA RemoversFinite ==
  ASSUME NEW f
  PROVE  IsFiniteSet(Removers(f)) /\ Cardinality(Removers(f)) \in Nat
<1>1. IsFiniteSet(Clients)
  BY FS_Interval DEF Clients
<1> QED
  BY <1>1, FS_Subset, FS_CardinalityType DEF Removers

\* A number that the table and the threads leave alone is listed as often as before.
LEMMA ExactKept ==
  ASSUME NEW f, Exact(f), UNCHANGED clients, Announced(f)' <=> Announced(f),
         Removers(f)' = Removers(f)
  PROVE  Exact(f)'
BY DEF Exact, Entry, Places

LEMMA SameAnnounced ==
  ASSUME UNCHANGED <<conn, mpc, newSocket>>
  PROVE  \A f \in Fds : Announced(f)' <=> Announced(f)
BY DEF Announced, Open

\* The steps of a thread that read its descriptor or its connection.
LEMMA ForwardOn ==
  ASSUME IInv, NEW c \in Clients, NEW pc, NEW fd, NEW sock, NEW chunk, NEW i,
         Turns(c, pc, fd, sock, chunk, i),
         h[c].pc \in {"created", "recv", "lock", "send"},
         pc \in {"recv", "lock", "send", "close", "done"},
         UNCHANGED <<conn, clients, newSocket, mpc, doubled>>,
         \A d \in Clients : (peer'[d] = "out" <=> peer[d] = "out") /\ (peer'[d] = "up" => peer[d] = "up"),
         pc \in {"close", "done"} => peer[c] # "up",
         pc # "done" => fd \in Fds /\ conn[fd] = c /\ sock = c
  PROVE  Arrivals' /\ Connected' /\ TableMatches' /\ Listing'
<1>1. \A d \in Clients : h'[d].pc = "none" <=> h[d].pc = "none"
  BY DEF Turns
<1>2. peer[c] # "out"
  BY DEF IInv, Inside, Arrivals, Arriving
<1>3. Arrivals'
  <2>1. \A d \in Clients : Arriving(d)'
    BY <1>1, <1>2 DEF IInv, Inside, Arrivals, Arriving, Turns
  <2> QED
    BY <1>1, <2>1 DEF IInv, Inside, Arrivals
<1>4. Connected'
  <2>1. \A d \in Clients \ {c} : Served(d)'
    BY DEF IInv, Inside, Connected, Served, Serving, Turns
  <2>2. Served(c)'
    BY DEF Served, Serving, Turns
  <2>3. \A f \in Fds : conn'[f] # Nobody => peer'[conn'[f]] # "out"
    BY DEF IInv, Inside, Connected, TypeOK
  <2> QED
    BY <2>1, <2>2, <2>3 DEF IInv, Inside, Connected
<1>5. TableMatches'
  <2>1. \A f \in Fds : Removers(f)' = Removers(f)
    BY DEF Removers, Turns
  <2>2. \A f \in Fds : Exact(f)'
    BY <2>1, SameAnnounced, ExactKept, ExactTable DEF IInv, Inside
  <2> QED
    BY <2>2 DEF TableMatches, Exact, Places, Entry, Removers
<1>6. Listing'
  BY DEF IInv, Inside, Listing, Listed
<1> QED
  BY <1>3, <1>4, <1>5, <1>6

\* A thread that neither takes nor gives back the lock.
LEMMA LockedKept ==
  ASSUME IInv, NEW c \in Clients, h[c].pc # "send", h'[c].pc # "send",
         \A d \in Clients \ {c} : h'[d] = h[d], UNCHANGED lock,
         UNCHANGED clients \/ lock = Nobody
  PROVE  Locked'
<1>1. \A d \in Clients : h'[d].pc = "send" => h'[d] = h[d] /\ lock = d /\ lock # Nobody
  BY DEF IInv, Inside, Locked, Clients, Nobody
<1> QED
  BY <1>1 DEF IInv, Inside, Locked

LEMMA StartInside ==
  ASSUME IInv, NEW c \in Clients, HandlerStart(c), TypeOK'
  PROVE  Inside'
<1>1. /\ newSocket \in Fds /\ conn[newSocket] = c
      /\ Turns(c, "recv", newSocket, c, <<>>, 0)
  BY StartTurns
<1>2. Arrivals' /\ Connected' /\ TableMatches' /\ Listing'
  BY <1>1, ForwardOn DEF HandlerStart
<1>3. Locked'
  BY <1>1, LockedKept DEF HandlerStart, Turns
<1> QED
  BY <1>2, <1>3 DEF Inside

LEMMA ReturnInside ==
  ASSUME IInv, NEW c \in Clients, RecvReturn(c), TypeOK'
  PROVE  Inside'
<1>1. h[c].fd \in Fds /\ conn[h[c].fd] = c /\ h[c].pc = "recv"
  BY ServesOwn DEF RecvReturn, Serving
<1>2. PICK n \in 1..Len(inbox[c]), first \in Seq(Pieces) :
        /\ first[1] = inbox[c][1]
        /\ \/ IsStop(first) /\ Turns(c, "close", h[c].fd, c, <<>>, 0)
           \/ Turns(c, "lock", h[c].fd, c, first, 0)
  BY ReturnTurns
<1>3. IsStop(first) => peer[c] # "up"
  <2>1. Len(inbox[c]) \in Nat /\ Len(said) \in Nat /\ Len(said) <= MaxSays
    BY SeqFacts DEF IInv, Inside, TypeOK
  <2>2. 1 \in 1..Len(inbox[c]) /\ inbox[c][1].from = c
    <3>1. 1 \in 1..Len(inbox[c])
      BY <2>1
    <3>2. Stream(inbox[c], c)
      BY DEF IInv, Talk, Talking
    <3> QED
      BY <3>1, <3>2 DEF Stream
  <2>3. peer[c] = "up" => first[1].n <= 2 * Len(said)
    BY <1>2, <2>2 DEF IInv, Talk, Talking, Numbered
  <2> QED
    BY <2>1, <2>3 DEF IsStop
<1>4. Arrivals' /\ Connected' /\ TableMatches' /\ Listing'
  <2>1. UNCHANGED <<conn, clients, newSocket, mpc, doubled, peer>>
    BY DEF RecvReturn
  <2> QED
    BY <1>1, <1>2, <1>3, <2>1, ForwardOn
<1>5. Locked'
  BY <1>1, <1>2, LockedKept DEF RecvReturn, Turns
<1> QED
  BY <1>4, <1>5 DEF Inside

LEMMA EndInside ==
  ASSUME IInv, NEW c \in Clients, RecvEnd(c), TypeOK'
  PROVE  Inside'
<1>1. Turns(c, "done", h[c].fd, h[c].sock, <<>>, 0) /\ h[c].pc = "recv" /\ h[c].sock = c
  BY LeaveTurns, ServesOwn DEF RecvEnd, Serving
<1>2. Arrivals' /\ Connected' /\ TableMatches' /\ Listing'
  BY <1>1, ForwardOn DEF RecvEnd
<1>3. Locked'
  BY <1>1, LockedKept DEF RecvEnd, Turns
<1> QED
  BY <1>2, <1>3 DEF Inside

LEMMA ForwardInside ==
  ASSUME IInv, NEW c \in Clients, BroadcastLock(c) \/ Send(c), TypeOK'
  PROVE  Inside'
<1>1. PICK i \in 0..MaxClients : SendNext(c, i)
  <2>1. Len(clients) \in Nat /\ Len(clients) <= MaxClients
    BY SeqFacts DEF IInv, Inside, TypeOK
  <2> QED
    BY <2>1, SendFacts DEF BroadcastLock
<1>2. /\ h[c].pc \in {"lock", "send"} /\ Serving(c)
      /\ UNCHANGED <<conn, clients, newSocket, mpc, doubled>>
      /\ h[c].pc = "lock" => lock = Nobody
      /\ h[c].pc = "send" => lock = c
  BY SendFacts DEF BroadcastLock, Send, Serving
<1>3. \A d \in Clients : (peer'[d] = "out" <=> peer[d] = "out") /\ (peer'[d] = "up" => peer[d] = "up")
  BY SendFacts DEF BroadcastLock
<1>4. h[c].fd \in Fds /\ conn[h[c].fd] = c
  BY <1>2, ServesOwn
<1>5. \/ Turns(c, "recv", h[c].fd, c, <<>>, 0) /\ lock' = Nobody
      \/ \E j \in 1..Len(clients) :
            /\ clients[j] # h[c].fd /\ lock' = c
            /\ Turns(c, "send", h[c].fd, c, h[c].chunk, j)
  BY <1>1, <1>2, NextTurns
<1>6. Arrivals' /\ Connected' /\ TableMatches' /\ Listing'
  BY <1>2, <1>3, <1>4, <1>5, ForwardOn
<1>7. Locked'
  <2>1. /\ c # Nobody
        /\ \A d \in Clients \ {c} : h'[d] = h[d] /\ h[d].pc # "send" /\ d # Nobody
    BY <1>2, <1>5, NClientsAssumption DEF Turns, IInv, Inside, Locked, Clients, Nobody
  <2>2. CASE Turns(c, "recv", h[c].fd, c, <<>>, 0) /\ lock' = Nobody
    <3>1. h'[c].pc = "recv"
      BY <2>2 DEF Turns
    <3> QED
      BY <2>1, <2>2, <3>1 DEF Locked
  <2>3. ASSUME NEW j \in 1..Len(clients), clients[j] # h[c].fd, lock' = c,
               Turns(c, "send", h[c].fd, c, h[c].chunk, j)
        PROVE  Locked'
    <3>1. h'[c].pc = "send" /\ h'[c].i = j /\ h'[c].fd = h[c].fd /\ UNCHANGED clients
      BY <1>2, <2>3 DEF Turns
    <3> QED
      BY <2>1, <2>3, <3>1 DEF Locked
  <2> QED
    BY <1>5, <2>2, <2>3
<1> QED
  BY <1>6, <1>7 DEF Inside

\* A connection is closed: its number is listed for the thread that will remove it.
LEMMA CloseInside ==
  ASSUME IInv, NEW c \in Clients, Close(c), TypeOK'
  PROVE  Inside'
<1>1. PICK f \in Fds :
        /\ f = h[c].fd /\ conn[f] = c /\ conn' \in [Fds -> Clients \cup {Nobody}] /\ conn'[f] = Nobody
        /\ \A g \in Fds \ {f} : conn'[g] = conn[g]
  BY CloseFacts
<1>2. /\ h[c].pc = "close" /\ Turns(c, "remove", f, h[c].sock, <<>>, 0)
      /\ UNCHANGED <<clients, lock, newSocket, mpc, peer, doubled>>
  BY <1>1, LeaveTurns DEF Close
<1>3. ~(mpc = "append" /\ newSocket = f)
  BY <1>1, <1>2 DEF IInv, Inside, Arrivals
<1>4. c # Nobody /\ peer[c] # "up" /\ peer[c] # "out"
  BY <1>2, NClientsAssumption DEF IInv, Inside, Connected, Served, Arrivals, Arriving, Clients, Nobody
<1>5. Arrivals'
  <2>1. \A d \in Clients : h'[d].pc = "none" \/ h'[d].pc = "created" => d # c /\ h'[d] = h[d]
    BY <1>2 DEF Turns
  <2>2. \A d \in Clients : Arriving(d)'
    <3> SUFFICES ASSUME NEW d \in Clients PROVE Arriving(d)'
      OBVIOUS
    <3>1. CASE d = c
      BY <1>2, <1>4, <3>1 DEF Arriving, Turns
    <3>2. CASE d # c
      <4>1. h'[d] = h[d] /\ Arriving(d)
        BY <1>2, <3>2 DEF Turns, IInv, Inside, Arrivals
      <4>2. newSocket \in Fds /\ conn[newSocket] = d => conn'[newSocket] = d
        BY <1>1, <3>2
      <4> QED
        BY <1>2, <4>1, <4>2 DEF Arriving
    <3> QED
      BY <3>1, <3>2
  <2>3. mpc' = "append" => newSocket' \in Fds \ {f} /\ conn'[newSocket'] \in Clients \ {c}
                           /\ h'[conn'[newSocket']].pc = "none"
    BY <1>1, <1>2, <1>3 DEF IInv, Inside, Arrivals, Turns
  <2> QED
    BY <2>2, <2>3 DEF Arrivals
<1>6. Connected'
  <2>1. \A g, e \in Fds : conn'[g] # Nobody /\ conn'[g] = conn'[e] => g = e
    BY <1>1 DEF IInv, Inside, Connected
  <2>2. \A g \in Fds : conn'[g] # Nobody => peer'[conn'[g]] # "out"
    BY <1>1, <1>2 DEF IInv, Inside, Connected
  <2>3. \A d \in Clients : Served(d)'
    <3> SUFFICES ASSUME NEW d \in Clients PROVE Served(d)'
      OBVIOUS
    <3>1. CASE d = c
      BY <1>2, <1>4, <3>1 DEF Served, Serving, Turns
    <3>2. CASE d # c
      <4>1. h'[d] = h[d] /\ Served(d)
        BY <1>2, <3>2 DEF Turns, IInv, Inside, Connected
      <4>2. Serving(d) => h[d].fd # f
        BY <1>1, <3>2, <4>1 DEF Served
      <4> QED
        BY <1>1, <1>2, <4>1, <4>2 DEF Served, Serving
    <3> QED
      BY <3>1, <3>2
  <2> QED
    BY <2>1, <2>2, <2>3 DEF Connected
<1>7. TableMatches'
  <2>1. ASSUME NEW g \in Fds \ {f}
        PROVE  Exact(g)'
    <3>1. Removers(g)' = Removers(g)
      BY <1>2, <2>1 DEF Removers, Turns
    <3>2. Announced(g)' <=> Announced(g)
      BY <1>1, <1>2 DEF Announced, Open
    <3> QED
      BY <1>2, <3>1, <3>2, ExactKept, ExactTable DEF IInv, Inside
  <2>2. Exact(f)'
    <3>1. Removers(f)' = Removers(f) \cup {c} /\ c \notin Removers(f)
      BY <1>2 DEF Removers, Turns
    <3>2. Cardinality(Removers(f)') = Cardinality(Removers(f)) + 1
      BY <3>1, RemoversFinite, FS_AddElement
    <3>3. Announced(f) /\ ~Announced(f)'
      BY <1>1, <1>3, <1>4 DEF Announced, Open
    <3>4. Entry(f) = 1 /\ Entry(f)' = 0
      BY <3>3 DEF Entry
    <3>5. Cardinality(Places(clients, f)) = 1 + Cardinality(Removers(f))
      BY <3>4, ExactTable DEF IInv, Inside, Exact
    <3>6. Cardinality(Places(clients, f)') = Cardinality(Removers(f)')
      BY <1>2, <3>2, <3>5, RemoversFinite DEF Places
    <3> QED
      BY <3>4, <3>6, RemoversFinite, <3>2 DEF Exact, Places
  <2> QED
    BY <2>1, <2>2 DEF TableMatches, Exact, Places, Entry, Removers
<1>8. Locked' /\ Listing'
  BY <1>2, LockedKept DEF Turns, IInv, Inside, Listing, Listed
<1> QED
  BY <1>5, <1>6, <1>7, <1>8 DEF Inside

\* The entry that goes is one of those of its number.
LEMMA RemoveInside ==
  ASSUME IInv, NEW c \in Clients, RemoveClient(c), TypeOK'
  PROVE  Inside'
<1>1. PICK f \in Fds :
        /\ f = h[c].fd /\ RemoveEntry(f) /\ h[c].pc = "remove" /\ peer[c] # "up"
  BY DEF RemoveClient, IInv, Inside, Connected, Served
<1>2. /\ Turns(c, "done", f, h[c].sock, <<>>, 0) /\ lock = Nobody
      /\ UNCHANGED <<conn, lock, newSocket, mpc, peer, doubled>>
  BY <1>1, LeaveTurns DEF RemoveClient
<1>3. /\ Len(clients) \in Nat /\ clients \in Seq(Fds)
      /\ \/ /\ Len(clients') = Len(clients) - 1 /\ Listed(f)
            /\ \E i \in 1..Len(clients) : clients[i] = f /\ clients' = TakeOut(clients, i)
         \/ UNCHANGED clients /\ ~Listed(f)
  BY <1>1, RemoveFacts, SeqFacts DEF IInv, Inside, TypeOK
<1>4. Listed(f)
  <2>1. c \in Removers(f)
    BY <1>1 DEF Removers
  <2>2. Cardinality(Removers(f)) # 0
    BY <2>1, RemoversFinite, FS_EmptySet
  <2>3. Cardinality(Places(clients, f)) # 0
    BY <2>2, ExactTable, RemoversFinite DEF IInv, Inside, Exact, Entry
  <2>4. Places(clients, f) # {}
    BY <2>3, FS_EmptySet
  <2> QED
    BY <2>4 DEF Places, Listed
<1>5. PICK i \in 1..Len(clients) : clients[i] = f /\ clients' = TakeOut(clients, i)
  BY <1>3, <1>4
<1>6. /\ Len(clients') = Len(clients) - 1 /\ Len(clients) \in Nat \ {0}
      /\ \A j \in 1..Len(clients) - 1 :
            clients'[j] = IF j = i THEN clients[Len(clients)] ELSE clients[j]
  <2>1. clients \in Seq(Fds)
    BY <1>3
  <2> QED
    BY <1>5, <2>1, TakenOut
<1>7. Arrivals' /\ Connected'
  <2>1. \A d \in Clients : h'[d].pc \in {"none", "created", "recv", "lock", "send", "close", "remove"}
                             => d # c
    BY <1>2 DEF Turns
  <2>2. \A d \in Clients : Arriving(d)' /\ (h[d].pc = "none" => h'[d].pc = "none")
    <3> SUFFICES ASSUME NEW d \in Clients
                 PROVE  Arriving(d)' /\ (h[d].pc = "none" => h'[d].pc = "none")
      OBVIOUS
    <3>1. CASE d = c
      BY <1>1, <1>2, <3>1 DEF Arriving, Turns, IInv, Inside, Arrivals
    <3>2. CASE d # c
      BY <1>2, <3>2 DEF IInv, Inside, Arrivals, Arriving, Turns
    <3> QED
      BY <3>1, <3>2
  <2>3. \A d \in Clients : Served(d)'
    <3> SUFFICES ASSUME NEW d \in Clients PROVE Served(d)'
      OBVIOUS
    <3>1. CASE d = c
      BY <1>1, <1>2, <3>1 DEF Served, Serving, Turns
    <3>2. CASE d # c
      BY <1>2, <3>2 DEF IInv, Inside, Connected, Served, Serving, Turns
    <3> QED
      BY <3>1, <3>2
  <2> QED
    BY <1>2, <2>2, <2>3 DEF Arrivals, Connected, IInv, Inside
<1>8. TableMatches'
  <2>1. ASSUME NEW g \in Fds
        PROVE  Exact(g)'
    <3>1. Cardinality(Places(clients, g)) = Cardinality(Places(clients, g)') + IF g = f THEN 1 ELSE 0
      <4>1. Cardinality(Places(clients, g)) = Cardinality(Places(clients', g)) + IF g = f THEN 1 ELSE 0
        BY <1>3, <1>5, TakenOutPlaces
      <4>2. Places(clients, g)' = Places(clients', g)
        BY DEF Places
      <4> QED
        BY <4>1, <4>2
    <3>2. Cardinality(Removers(g)) = Cardinality(Removers(g)') + IF g = f THEN 1 ELSE 0
      <4>1. CASE g = f
        <5>1. Removers(g)' = Removers(g) \ {c} /\ c \in Removers(g)
          BY <1>1, <1>2, <4>1 DEF Removers, Turns
        <5>2. IsFiniteSet(Removers(g)) /\ Cardinality(Removers(g)) \in Nat
          BY RemoversFinite
        <5>3. Cardinality(Removers(g) \ {c}) = Cardinality(Removers(g)) - 1
          BY <5>1, <5>2, FS_RemoveElement
        <5>4. Cardinality(Removers(g)') = Cardinality(Removers(g)) - 1
          BY <5>1, <5>3
        <5> QED
          BY <4>1, <5>2, <5>4
      <4>2. CASE g # f
        <5>1. Removers(g)' = Removers(g)
          BY <1>1, <1>2, <4>2 DEF Removers, Turns
        <5> QED
          BY <4>2, <5>1, RemoversFinite
      <4> QED
        BY <4>1, <4>2
    <3>3. Entry(g)' = Entry(g) /\ Entry(g) \in Nat
      BY <1>2, SameAnnounced DEF Entry
    <3>4. Exact(g) /\ Cardinality(Removers(g)) \in Nat
      BY ExactTable, RemoversFinite DEF IInv, Inside
    <3>5. Cardinality(Places(clients, g)) \in Nat /\ Cardinality(Places(clients, g)') \in Nat
          /\ Cardinality(Removers(g)') \in Nat
      <4>1. clients' \in Seq(Fds)
        BY DEF TypeOK
      <4>2. IsFiniteSet(Clients) /\ Removers(g)' \subseteq Clients
        BY FS_Interval DEF Clients, Removers
      <4>3. Places(clients, g)' = Places(clients', g)
        BY DEF Places
      <4> QED
        BY <1>3, <4>1, <4>2, <4>3, PlacesFinite, FS_Subset, FS_CardinalityType
    <3>6. Cardinality(Places(clients, g)') = Entry(g)' + Cardinality(Removers(g)')
      <4>1. Entry(g)' = Entry(g) /\ Entry(g) \in Nat
        BY <3>3 DEF Entry
      <4>2. Cardinality(Places(clients, g)) = Entry(g) + Cardinality(Removers(g))
        BY <3>4 DEF Exact
      <4>3. CASE g = f
        BY <3>1, <3>2, <3>4, <3>5, <4>1, <4>2, <4>3
      <4>4. CASE g # f
        BY <3>1, <3>2, <3>4, <3>5, <4>1, <4>2, <4>4
      <4> QED
        BY <4>3, <4>4
    <3> QED
      BY <3>6 DEF Exact, Places
  <2> QED
    BY <2>1 DEF TableMatches, Exact, Places, Entry, Removers
<1>9. Listing'
  BY <1>2, <1>6 DEF IInv, Inside, Listing, Listed
<1>10. Locked'
  BY <1>1, <1>2, LockedKept DEF Turns
<1> QED
  BY <1>7, <1>8, <1>9, <1>10 DEF Inside

LEMMA AcceptInside ==
  ASSUME IInv, NEW c \in Clients, Accept(c), TypeOK', ~rushed'
  PROVE  Inside'
<1>1. PICK f \in Fds \ Open :
        /\ newSocket' = f /\ conn' \in [Fds -> Clients \cup {Nobody}] /\ conn'[f] = c
        /\ \A g \in Fds \ {f} : conn'[g] = conn[g]
        /\ doubled' = (doubled \/ Listed(f))
        /\ peer' \in [Clients -> {"out", "up", "left", "probed"}] /\ peer'[c] = "up"
        /\ \A d \in Clients \ {c} : peer'[d] = peer[d]
  BY AcceptFacts DEF IInv, Inside
<1>2. /\ mpc = "accept" /\ mpc' = "append" /\ peer[c] = "out" /\ UNCHANGED <<clients, lock, h>>
      /\ \A d \in Clients : h[d].pc # "created"
  BY DEF Accept
<1>3. h[c].pc = "none" /\ c # Nobody
  BY <1>2, NClientsAssumption DEF IInv, Inside, Arrivals, Arriving, Clients, Nobody
<1>4. conn[f] = Nobody /\ \A g \in Fds : conn[g] # c
  BY <1>1, <1>2, <1>3 DEF Open, IInv, Inside, Connected
<1>5. Arrivals'
  <2>1. \A d \in Clients : Arriving(d)'
    BY <1>1, <1>2, <1>3 DEF IInv, Inside, Arrivals, Arriving
  <2> QED
    BY <1>1, <1>2, <1>3, <2>1 DEF Arrivals
<1>6. Connected'
  <2>1. \A g \in Fds : conn'[g] = IF g = f THEN c ELSE conn[g]
    BY <1>1
  <2>2. \A g, e \in Fds : conn'[g] # Nobody /\ conn'[g] = conn'[e] => g = e
    <3>1. \A g, e \in Fds : conn[g] # Nobody /\ conn[g] = conn[e] => g = e
      BY DEF IInv, Inside, Connected
    <3> QED
      BY <1>4, <2>1, <3>1
  <2>3. \A g \in Fds : conn'[g] # Nobody => peer'[conn'[g]] # "out"
    <3>1. \A g \in Fds : conn[g] # Nobody => conn[g] \in Clients /\ peer[conn[g]] # "out"
      BY DEF IInv, Inside, Connected, TypeOK
    <3> QED
      BY <1>1, <1>4, <2>1, <3>1
  <2>4. \A d \in Clients : Served(d)'
    <3> SUFFICES ASSUME NEW d \in Clients PROVE Served(d)'
      OBVIOUS
    <3>1. CASE d = c
      BY <1>2, <1>3, <3>1 DEF Served, Serving
    <3>2. CASE d # c
      <4>1. Served(d) /\ peer'[d] = peer[d]
        BY <1>1, <3>2 DEF IInv, Inside, Connected
      <4>2. Serving(d) => h[d].fd # f
        BY <1>4, <4>1, NClientsAssumption DEF Served, Clients, Nobody
      <4> QED
        BY <1>1, <1>2, <4>1, <4>2 DEF Served, Serving
    <3> QED
      BY <3>1, <3>2
  <2> QED
    BY <2>2, <2>3, <2>4 DEF Connected
<1>7. TableMatches'
  <2>1. ASSUME NEW g \in Fds
        PROVE  Exact(g)'
    <3>1. Removers(g)' = Removers(g)
      BY <1>2 DEF Removers
    <3>2. Announced(g)' <=> Announced(g)
      BY <1>1, <1>2, <1>4 DEF Announced, Open
    <3> QED
      BY <1>2, <3>1, <3>2, ExactKept, ExactTable DEF IInv, Inside
  <2> QED
    BY <2>1 DEF TableMatches, Exact, Places, Entry, Removers
<1>8. Locked'
  BY <1>2 DEF IInv, Inside, Locked
<1>9. Listing'
  BY <1>1, <1>2 DEF IInv, Inside, Listing, Listed
<1> QED
  BY <1>5, <1>6, <1>7, <1>8, <1>9 DEF Inside

LEMMA AppendInside ==
  ASSUME IInv, AppendClient, TypeOK'
  PROVE  Inside'
<1>1. CASE UNCHANGED <<clients, h, joined, mpc>>
  <2>1. UNCHANGED <<conn, lock, newSocket, peer, doubled, clients, h, mpc>>
    BY <1>1 DEF AppendClient
  <2>2. Arrivals' /\ Connected' /\ Locked' /\ Listing'
    BY <2>1 DEF IInv, Inside, Arrivals, Arriving, Connected, Served, Serving, Locked, Listing, Listed
  <2>3. TableMatches'
    BY <2>1 DEF IInv, Inside, TableMatches, Announced, Open
  <2> QED
    BY <2>2, <2>3 DEF Inside
<1>2. CASE ~UNCHANGED <<clients, h, joined, mpc>>
  <2>1. PICK c \in Clients :
          /\ clients' = Append(clients, newSocket) /\ mpc' = "accept"
          /\ c = conn[newSocket] /\ h[c].pc = "none"
          /\ Turns(c, "created", NoFd, Nobody, <<>>, 0)
    BY <1>2, AppendTurns
  <2>2. /\ mpc = "append" /\ lock = Nobody /\ newSocket \in Fds
        /\ UNCHANGED <<conn, lock, newSocket, peer, doubled>>
    BY DEF AppendClient, IInv, Inside, Arrivals
  <2>3. /\ Len(clients) \in Nat /\ clients \in Seq(Fds)
        /\ clients' \in Seq(Fds) /\ Len(clients') = Len(clients) + 1
        /\ \A i \in 1..Len(clients') : clients'[i] = IF i <= Len(clients) THEN clients[i] ELSE newSocket
    <3>1. clients \in Seq(Fds) /\ newSocket \in Fds
      BY <2>2 DEF IInv, Inside, TypeOK
    <3> QED
      BY <2>1, <3>1, AppendFacts, SeqFacts
  <2>4. peer[c] # "out" /\ c # Nobody
    <3>1. c # Nobody
      BY NClientsAssumption DEF Clients, Nobody
    <3> QED
      BY <2>1, <2>2, <3>1 DEF IInv, Inside, Connected
  <2>5. Arrivals'
    <3> SUFFICES ASSUME NEW d \in Clients PROVE Arriving(d)'
      BY <2>1 DEF Arrivals
    <3>1. CASE d = c
      BY <2>1, <2>2, <2>4, <3>1 DEF Arriving, Turns
    <3>2. CASE d # c
      BY <2>1, <2>2, <3>2 DEF IInv, Inside, Arrivals, Arriving, Turns
    <3> QED
      BY <3>1, <3>2
  <2>6. Connected'
    <3>1. \A d \in Clients : Served(d)'
      <4> SUFFICES ASSUME NEW d \in Clients PROVE Served(d)'
        OBVIOUS
      <4>1. CASE d = c
        BY <2>1, <4>1 DEF Served, Serving, Turns
      <4>2. CASE d # c
        BY <2>1, <2>2, <4>2 DEF IInv, Inside, Connected, Served, Serving, Turns
      <4> QED
        BY <4>1, <4>2
    <3> QED
      BY <2>2, <3>1 DEF IInv, Inside, Connected
  <2>7. TableMatches'
    <3>1. ASSUME NEW g \in Fds
          PROVE  Exact(g)'
      <4>1. Removers(g)' = Removers(g)
        BY <2>1 DEF Removers, Turns
      <4>2. Cardinality(Places(clients', g)) = Cardinality(Places(clients, g)) + IF g = newSocket THEN 1 ELSE 0
        BY <2>1, <2>2, <2>3, AppendPlaces
      <4>3. Entry(g)' = Entry(g) + IF g = newSocket THEN 1 ELSE 0
        BY <2>1, <2>2, <2>4 DEF Entry, Announced, Open
      <4>4. /\ Exact(g) /\ Cardinality(Removers(g)) \in Nat /\ Entry(g) \in Nat
            /\ Cardinality(Places(clients, g)) \in Nat
        BY <2>3, ExactTable, RemoversFinite, PlacesFinite DEF IInv, Inside, Entry
      <4>5. Cardinality(Places(clients', g)) = Entry(g)' + Cardinality(Removers(g)')
        BY <4>1, <4>2, <4>3, <4>4 DEF Exact
      <4>6. Places(clients, g)' = Places(clients', g)
        BY DEF Places
      <4> QED
        BY <4>5, <4>6 DEF Exact
    <3> QED
      BY <3>1 DEF TableMatches, Exact, Places, Entry, Removers
  <2>8. Locked'
    BY <2>1, <2>2, LockedKept DEF Turns
  <2>9. Listing'
    BY <2>1, <2>2, <2>3 DEF IInv, Inside, Listing, Listed
  <2> QED
    BY <2>5, <2>6, <2>7, <2>8, <2>9 DEF Inside
<1> QED
  BY <1>1, <1>2

LEMMA ClientInside ==
  ASSUME IInv, NEW c \in Clients, Client(c), TypeOK'
  PROVE  Inside'
<1>1. /\ UNCHANGED <<conn, clients, lock, newSocket, mpc, h, doubled, fault>> /\ peer[c] = "up"
      /\ peer'[c] \in {"up", "left"} /\ \A d \in Clients \ {c} : peer'[d] = peer[d]
  BY ClientFacts DEF Server, IInv, Inside
<1>2. \A d \in Clients : (peer'[d] = "out" <=> peer[d] = "out") /\ (peer'[d] = "up" => peer[d] = "up")
  BY <1>1
<1>3. Arrivals'
  BY <1>1, <1>2 DEF IInv, Inside, Arrivals, Arriving
<1>4. Connected'
  <2>1. \A d \in Clients : Served(d)'
    BY <1>1, <1>2 DEF IInv, Inside, Connected, Served, Serving
  <2>2. \A f \in Fds : conn'[f] # Nobody => peer'[conn'[f]] # "out"
    BY <1>1, <1>2 DEF IInv, Inside, Connected, TypeOK
  <2> QED
    BY <1>1, <2>1, <2>2 DEF IInv, Inside, Connected
<1>5. Locked' /\ Listing'
  BY <1>1 DEF IInv, Inside, Locked, Listing, Listed
<1>6. TableMatches'
  BY <1>1 DEF IInv, Inside, TableMatches, Announced, Open
<1> QED
  BY <1>3, <1>4, <1>5, <1>6 DEF Inside

-----------------------------------------------------------------------------
(* What the clients say and hear *)

LEMMA MessageType ==
  ASSUME NEW s \in Seq(Pieces)
  PROVE  /\ Len(s) \in Nat
         /\ \A i \in 1..Len(s) : s[i].from \in Clients /\ s[i].n \in 1..2 * (MaxSays + 1) /\ s[i].n \in Nat
<1>1. Len(s) \in Nat /\ \A i \in 1..Len(s) : s[i] \in Pieces
  BY SeqFacts
<1>2. \A m \in Pieces : m.from \in Clients /\ m.n \in 1..2 * (MaxSays + 1)
  BY DEF Pieces
<1> QED
  BY <1>1, <1>2

LEMMA EmptyStream ==
  ASSUME NEW c, NEW s
  PROVE  Stream(<<>>, c) /\ Before(<<>>, s, c) /\ Before(s, <<>>, c) /\ Numbered(<<>>, c)
<1>1. Len(<<>>) = 0 /\ 1..0 = {}
  BY EmptySeq
<1> QED
  BY <1>1 DEF Stream, Before, Numbered

LEMMA SplitStream ==
  ASSUME NEW c, NEW s \in Seq(Pieces), Stream(s, c), NEW n \in 1..Len(s)
  PROVE  /\ Stream(SubSeq(s, 1, n), c) /\ Stream(SubSeq(s, n + 1, Len(s)), c)
         /\ Before(SubSeq(s, 1, n), SubSeq(s, n + 1, Len(s)), c)
         /\ Numbered(s, c) => /\ Numbered(SubSeq(s, 1, n), c)
                              /\ Numbered(SubSeq(s, n + 1, Len(s)), c)
         /\ \A r : Before(r, s, c) => /\ Before(r, SubSeq(s, 1, n), c)
                                      /\ Before(r, SubSeq(s, n + 1, Len(s)), c)
<1> SUFFICES ASSUME NEW t, t = SubSeq(s, 1, n), NEW u, u = SubSeq(s, n + 1, Len(s))
             PROVE  /\ Stream(t, c) /\ Stream(u, c) /\ Before(t, u, c)
                    /\ Numbered(s, c) => Numbered(t, c) /\ Numbered(u, c)
                    /\ \A r : Before(r, s, c) => Before(r, t, c) /\ Before(r, u, c)
  OBVIOUS
<1>1. Len(s) \in Nat /\ n \in 0..Len(s) /\ n \in Nat /\ n <= Len(s)
  BY SeqFacts
<1>2. Len(t) = n /\ \A i \in 1..n : t[i] = s[i] /\ i \in 1..Len(s)
  BY <1>1, PrefixFacts
<1>3. /\ Len(u) = Len(s) - n
      /\ \A i \in 1..Len(u) : u[i] = s[n + i] /\ n + i \in 1..Len(s)
  <2>1. Len(u) = Len(s) - n /\ \A i \in 1..Len(u) : u[i] = s[n + i]
    BY <1>1, SuffixFacts
  <2> QED
    BY <1>1, <2>1
<1>4. Stream(t, c)
  BY <1>1, <1>2 DEF Stream
<1>5. Stream(u, c)
  <2>1. \A i \in 1..Len(u) : u[i].from = c
    BY <1>3 DEF Stream
  <2>2. \A i, j \in 1..Len(u) : i < j => n + i < n + j
    BY <1>1, <1>3
  <2>3. \A i, j \in 1..Len(u) : i < j => u[i].n < u[j].n
    BY <1>3, <2>2 DEF Stream
  <2> QED
    BY <2>1, <2>3 DEF Stream
<1>6. Before(t, u, c)
  <2>1. \A i \in 1..Len(t), j \in 1..Len(u) : i < n + j
    BY <1>1, <1>2, <1>3
  <2> QED
    BY <1>2, <1>3, <2>1 DEF Before, Stream
<1>7. Numbered(s, c) => Numbered(t, c) /\ Numbered(u, c)
  BY <1>2, <1>3 DEF Numbered
<1>8. \A r : Before(r, s, c) => Before(r, t, c) /\ Before(r, u, c)
  BY <1>2, <1>3 DEF Before
<1> QED
  BY <1>4, <1>5, <1>6, <1>7, <1>8

LEMMA LongerStream ==
  ASSUME NEW c, NEW s \in Seq(Pieces), NEW u \in Seq(Pieces), Stream(s, c), Stream(u, c), Before(s, u, c)
  PROVE  /\ Stream(s \o u, c)
         /\ \A r : Before(r, s, c) /\ Before(r, u, c) => Before(r, s \o u, c)
<1> SUFFICES ASSUME NEW t, t = s \o u
             PROVE  /\ Stream(t, c)
                    /\ \A r : Before(r, s, c) /\ Before(r, u, c) => Before(r, t, c)
  OBVIOUS
<1>1. /\ Len(t) = Len(s) + Len(u) /\ Len(s) \in Nat /\ Len(u) \in Nat
      /\ \A i \in 1..Len(t) : t[i] = IF i <= Len(s) THEN s[i] ELSE u[i - Len(s)]
  BY ConcatFacts, SeqFacts
<1>2. \A i \in 1..Len(t) : \/ i \in 1..Len(s) /\ t[i] = s[i]
                           \/ i > Len(s) /\ i - Len(s) \in 1..Len(u) /\ t[i] = u[i - Len(s)]
  BY <1>1
<1>3. Stream(t, c)
  <2>1. \A i \in 1..Len(t) : t[i].from = c
    BY <1>2 DEF Stream
  <2>2. ASSUME NEW i \in 1..Len(t), NEW j \in 1..Len(t), i < j
        PROVE  t[i].n < t[j].n
    <3>1. CASE i \in 1..Len(s) /\ j \in 1..Len(s)
      BY <1>1, <2>2, <3>1 DEF Stream
    <3>2. CASE i \in 1..Len(s) /\ j > Len(s)
      BY <1>1, <1>2, <2>2, <3>2 DEF Stream, Before
    <3>3. CASE i > Len(s) /\ j > Len(s)
      <4>1. i - Len(s) < j - Len(s)
        BY <1>1, <2>2
      <4>2. i - Len(s) \in 1..Len(u) /\ j - Len(s) \in 1..Len(u) /\ t[i] = u[i - Len(s)] /\ t[j] = u[j - Len(s)]
        BY <1>1, <1>2, <3>3
      <4> QED
        BY <4>1, <4>2 DEF Stream
    <3> QED
      BY <1>1, <1>2, <2>2, <3>1, <3>2, <3>3
  <2> QED
    BY <2>1, <2>2 DEF Stream
<1>4. \A r : Before(r, s, c) /\ Before(r, u, c) => Before(r, t, c)
  BY <1>2 DEF Before
<1> QED
  BY <1>3, <1>4

\* The order and the origin of what a client hears.
NoEcho(d) == \A i \in 1..Len(heard[d]) : heard[d][i].from # d
InOrder(d) == ~doubled => \A i, j \in 1..Len(heard[d]) :
                 i < j /\ heard[d][i].from = heard[d][j].from => heard[d][i].n < heard[d][j].n

LEMMA HeardParts ==
  ASSUME heard \in [Clients -> Seq(Pieces)]
  PROVE  OrderlyHearing <=> \A d \in Clients : NoEcho(d) /\ InOrder(d)
<1>1. ASSUME NEW d \in Clients
      PROVE  (\A m \in Range(heard[d]) : m.from # d) <=> NoEcho(d)
  <2>1. DOMAIN heard[d] = 1..Len(heard[d])
    BY LenProperties
  <2> QED
    BY <2>1 DEF Range, NoEcho
<1> QED
  BY <1>1 DEF OrderlyHearing, InOrder

LEMMA HeardAgain ==
  ASSUME TypeOK', \A d \in Clients : NoEcho(d)' /\ InOrder(d)'
  PROVE  OrderlyHearing'
<1>1. ASSUME NEW d \in Clients
      PROVE  \A m \in Range(heard'[d]) : m.from # d
  <2>1. DOMAIN heard'[d] = 1..Len(heard'[d])
    BY LenProperties DEF TypeOK
  <2> QED
    BY <2>1 DEF Range, NoEcho
<1> QED
  BY <1>1 DEF OrderlyHearing, InOrder

\* Nobody says or hears anything.
LEMMA SilentTalk ==
  ASSUME IInv, TypeOK', UNCHANGED <<inbox, heard, said>>, doubled => doubled',
         \A d \in Clients : /\ h'[d].chunk = h[d].chunk \/ h'[d].chunk = <<>>
                            /\ peer'[d] \in {"out", "up"} => peer[d] \in {"out", "up"}
                            /\ peer'[d] = "out" => peer[d] = "out",
         \A c, d \in Clients : Awaits(d, c)' => Awaits(d, c) \/ h'[c].chunk = <<>>
  PROVE  Talk' /\ OrderlyHearing'
<1>1. ASSUME NEW c \in Clients
      PROVE  Talking(c)'
  <2>1. Talking(c)
    BY DEF IInv, Talk
  <2>2. CASE h'[c].chunk = h[c].chunk
    BY <2>1, <2>2 DEF Talking, Numbered
  <2>3. CASE h'[c].chunk = <<>>
    BY <2>1, <2>3, EmptyStream DEF Talking, Numbered
  <2> QED
    BY <2>2, <2>3
<1>2. ASSUME NEW c \in Clients, NEW d \in Clients
      PROVE  Hearing(d, c)'
  <2>1. Hearing(d, c)
    BY DEF IInv, Talk
  <2>2. Awaits(d, c)' => Before(heard'[d], h'[c].chunk, c)
    <3>1. CASE h'[c].chunk = <<>>
      BY <3>1, EmptyStream
    <3>2. CASE h'[c].chunk = h[c].chunk /\ h'[c].chunk # <<>>
      BY <2>1, <3>2 DEF Hearing
    <3> QED
      BY <3>1, <3>2
  <2> QED
    BY <2>1, <2>2 DEF Hearing, Numbered
<1>3. Talk'
  BY <1>1, <1>2 DEF Talk, IInv
<1>4. \A d \in Clients : NoEcho(d)' /\ InOrder(d)'
  BY HeardParts DEF IInv, Inside, TypeOK, NoEcho, InOrder
<1> QED
  BY <1>3, <1>4, HeardAgain

\* A thread is the only one that changes; it does not go on to send.
LEMMA IdleTalk ==
  ASSUME IInv, TypeOK', NEW c \in Clients, NEW pc, NEW fd, NEW sock, NEW i,
         Turns(c, pc, fd, sock, <<>>, i),
         UNCHANGED <<inbox, heard, said, peer, doubled>>, clients' = clients \/ lock = Nobody,
         \A f \in Fds : conn'[f] = conn[f] \/ conn'[f] = Nobody
  PROVE  Talk' /\ OrderlyHearing'
<1>1. \A d \in Clients : h'[d].chunk = h[d].chunk \/ h'[d].chunk = <<>>
  BY DEF Turns
<1>2. ASSUME NEW e \in Clients, NEW d \in Clients, Awaits(d, e)'
      PROVE  Awaits(d, e) \/ h'[e].chunk = <<>>
  <2>1. CASE e = c
    BY <2>1 DEF Turns
  <2>2. CASE e # c /\ h[e].pc # "send"
    BY <1>2, <2>2 DEF Awaits, Turns
  <2>3. CASE e # c /\ h[e].pc = "send"
    <3>1. h'[e] = h[e] /\ e # Nobody /\ d # Nobody
      BY <2>3, NClientsAssumption DEF Turns, Clients, Nobody
    <3>2. lock = e /\ clients' = clients /\ clients \in Seq(Fds) /\ h[e].i \in 1..Len(clients)
      BY <2>3, <3>1 DEF IInv, Inside, Locked, TypeOK
    <3>3. PICK k \in h[e].i..Len(clients) : conn'[clients[k]] = d /\ ~doubled
      BY <1>2, <2>3, <3>1, <3>2 DEF Awaits
    <3>4. clients[k] \in Fds
      BY <3>2, <3>3, SeqFacts
    <3>5. conn[clients[k]] = d
      BY <3>1, <3>3, <3>4
    <3> QED
      BY <2>3, <3>3, <3>5 DEF Awaits
  <2> QED
    BY <2>1, <2>2, <2>3
<1> QED
  BY <1>1, <1>2, SilentTalk

LEMMA StartTalk ==
  ASSUME IInv, TypeOK', NEW c \in Clients,
         HandlerStart(c) \/ RecvEnd(c) \/ RemoveClient(c) \/ Close(c)
  PROVE  Talk' /\ OrderlyHearing'
<1>1. CASE HandlerStart(c)
  BY <1>1, StartTurns, IdleTalk DEF HandlerStart
<1>2. CASE RecvEnd(c)
  BY <1>2, LeaveTurns, IdleTalk DEF RecvEnd
<1>3. CASE RemoveClient(c)
  BY <1>3, LeaveTurns, IdleTalk DEF RemoveClient
<1>4. CASE Close(c)
  <2>1. \A f \in Fds : conn'[f] = conn[f] \/ conn'[f] = Nobody
    BY <1>4, CloseFacts
  <2> QED
    BY <1>4, <2>1, LeaveTurns, IdleTalk DEF Close
<1> QED
  BY <1>1, <1>2, <1>3, <1>4

LEMMA AppendTalk ==
  ASSUME IInv, TypeOK', AppendClient
  PROVE  Talk' /\ OrderlyHearing'
<1>1. CASE UNCHANGED h
  <2>1. UNCHANGED <<inbox, heard, said, peer, doubled, conn>> /\ lock = Nobody
    BY DEF AppendClient
  <2>2. \A c, d \in Clients : Awaits(d, c)' => Awaits(d, c)
    <3>1. \A c \in Clients : h[c].pc # "send"
      BY <2>1, NClientsAssumption DEF IInv, Inside, Locked, Clients, Nobody
    <3> QED
      BY <1>1, <3>1 DEF Awaits
  <2> QED
    BY <1>1, <2>1, <2>2, SilentTalk
<1>2. CASE ~UNCHANGED h
  <2>1. PICK c \in Clients : Turns(c, "created", NoFd, Nobody, <<>>, 0)
    BY <1>2, AppendTurns
  <2> QED
    BY <2>1, IdleTalk DEF AppendClient
<1> QED
  BY <1>1, <1>2

\* The number that accept() returns is in nobody's way, unless it is in the table.
LEMMA AcceptTalk ==
  ASSUME IInv, TypeOK', NEW c \in Clients, Accept(c)
  PROVE  Talk' /\ OrderlyHearing'
<1>1. PICK f \in Fds \ Open :
        /\ conn' \in [Fds -> Clients \cup {Nobody}] /\ conn'[f] = c
        /\ \A g \in Fds \ {f} : conn'[g] = conn[g]
        /\ doubled' = (doubled \/ Listed(f))
        /\ peer'[c] = "up"
        /\ \A d \in Clients \ {c} : peer'[d] = peer[d]
  BY AcceptFacts DEF IInv, Inside
<1>2. peer[c] = "out" /\ UNCHANGED <<clients, h, inbox, heard, said>>
  BY DEF Accept
<1>3. \A e, d \in Clients : Awaits(d, e)' => Awaits(d, e)
  <2> SUFFICES ASSUME NEW e \in Clients, NEW d \in Clients, Awaits(d, e)', h[e].pc # "lock"
               PROVE  Awaits(d, e)
    BY DEF Awaits
  <2>1. h[e].pc = "send" /\ h[e].i \in 1..Len(clients) /\ clients \in Seq(Fds) /\ ~doubled'
    BY <1>2 DEF Awaits, IInv, Inside, Locked, TypeOK
  <2>2. PICK k \in h[e].i..Len(clients) : conn'[clients[k]] = d
    BY <1>2, <2>1 DEF Awaits
  <2>3. k \in 1..Len(clients) /\ clients[k] \in Fds
    BY <2>1, <2>2, SeqFacts
  <2>4. clients[k] # f /\ ~doubled
    BY <1>1, <2>1, <2>3 DEF Listed
  <2>5. conn[clients[k]] = d
    BY <1>1, <2>2, <2>3, <2>4
  <2> QED
    BY <2>1, <2>2, <2>4, <2>5 DEF Awaits
<1>4. \A d \in Clients : /\ peer'[d] \in {"out", "up"} => peer[d] \in {"out", "up"}
                         /\ peer'[d] = "out" => peer[d] = "out"
  BY <1>1, <1>2
<1> QED
  BY <1>1, <1>2, <1>3, <1>4, SilentTalk

LEMMA LockTalk ==
  ASSUME IInv, TypeOK', NEW c \in Clients, BroadcastLock(c)
  PROVE  Talk' /\ OrderlyHearing'
<1>1. /\ h[c].pc = "lock" /\ SendNext(c, 0) /\ Serving(c) /\ 0 \in 0..MaxClients
      /\ UNCHANGED <<conn, clients, peer, said, inbox, heard, doubled>>
  BY DEF BroadcastLock, Serving
<1>2. /\ \A e \in Clients \ {c} : h'[e] = h[e]
      /\ h'[c].chunk = h[c].chunk \/ h'[c].chunk = <<>>
  BY <1>1, NextTurns DEF Turns
<1>3. \A e, d \in Clients : Awaits(d, e)' => Awaits(d, e)
  <2> SUFFICES ASSUME NEW e \in Clients, NEW d \in Clients, Awaits(d, e)'
               PROVE  Awaits(d, e)
    OBVIOUS
  <2>1. CASE e = c
    BY <1>1, <2>1 DEF Awaits
  <2>2. CASE e # c
    BY <1>1, <1>2, <2>2 DEF Awaits
  <2> QED
    BY <2>1, <2>2
<1> QED
  BY <1>1, <1>2, <1>3, SilentTalk

\* What recv() returns comes before what it leaves.
LEMMA ReturnTalk ==
  ASSUME IInv, TypeOK', NEW c \in Clients, RecvReturn(c)
  PROVE  Talk' /\ OrderlyHearing'
<1>1. /\ inbox \in [Clients -> Seq(Pieces)] /\ inbox[c] \in Seq(Pieces)
      /\ Talking(c) /\ Stream(inbox[c], c) /\ h[c].pc = "recv"
      /\ UNCHANGED <<conn, clients, heard, said, peer, doubled>>
  BY DEF IInv, Inside, TypeOK, Talk, Talking, RecvReturn
<1>2. PICK n \in 1..Len(inbox[c]), first \in Seq(Pieces) :
        /\ inbox' = [inbox EXCEPT ![c] = SubSeq(inbox[c], n + 1, Len(inbox[c]))]
        /\ first = SubSeq(inbox[c], 1, n)
        /\ \/ Turns(c, "close", h[c].fd, c, <<>>, 0)
           \/ Turns(c, "lock", h[c].fd, c, first, 0)
  BY ReturnTurns
<1>3. PICK rest : rest = SubSeq(inbox[c], n + 1, Len(inbox[c])) /\ first = SubSeq(inbox[c], 1, n)
  BY <1>2
<1>4. /\ Stream(first, c) /\ Stream(rest, c) /\ Before(first, rest, c)
      /\ Numbered(inbox[c], c) => Numbered(first, c) /\ Numbered(rest, c)
      /\ \A r : Before(r, inbox[c], c) => Before(r, first, c) /\ Before(r, rest, c)
  BY <1>1, <1>3, SplitStream
<1>5. /\ inbox'[c] = rest /\ \A e \in Clients \ {c} : inbox'[e] = inbox[e]
      /\ h'[c].chunk \in {<<>>, first} /\ h'[c].pc \in {"close", "lock"}
      /\ h'[c].pc = "close" => h'[c].chunk = <<>>
      /\ \A e \in Clients \ {c} : h'[e] = h[e]
  BY <1>1, <1>2, <1>3 DEF Turns
<1>6. Talking(c)'
  <2>1. peer[c] \in {"out", "up"} => Numbered(first, c) /\ Numbered(rest, c)
    BY <1>1, <1>4 DEF Talking
  <2>2. /\ Stream(h'[c].chunk, c) /\ Before(h'[c].chunk, rest, c)
        /\ Numbered(first, c) => Numbered(h'[c].chunk, c)
    BY <1>4, <1>5, EmptyStream
  <2> QED
    BY <1>1, <1>4, <1>5, <2>1, <2>2 DEF Talking, Numbered
<1>7. \A e \in Clients \ {c} : Talking(e)'
  <2> SUFFICES ASSUME NEW e \in Clients \ {c}
               PROVE  Talking(e)'
    OBVIOUS
  <2>1. inbox'[e] = inbox[e] /\ h'[e] = h[e] /\ peer'[e] = peer[e] /\ said' = said
    BY <1>1, <1>5
  <2>2. Talking(e)
    BY DEF IInv, Talk
  <2> QED
    BY <2>1, <2>2 DEF Talking, Numbered
<1>8. ASSUME NEW d \in Clients
      PROVE  Hearing(d, c)'
  <2>1. Before(heard[d], first, c) /\ Before(heard[d], rest, c)
    BY <1>4 DEF IInv, Talk, Hearing
  <2>2. Before(heard[d], h'[c].chunk, c)
    BY <1>5, <2>1, EmptyStream
  <2> QED
    BY <1>1, <1>5, <2>1, <2>2 DEF Hearing, Numbered, IInv, Talk
<1>9. ASSUME NEW d \in Clients, NEW e \in Clients \ {c}
      PROVE  Hearing(d, e)'
  <2>1. Awaits(d, e)' => Awaits(d, e)
    BY <1>1, <1>5 DEF Awaits
  <2> QED
    BY <1>1, <1>5, <2>1 DEF IInv, Talk, Hearing, Numbered
<1>10. Talk'
  BY <1>1, <1>6, <1>7, <1>8, <1>9 DEF Talk, IInv
<1>11. OrderlyHearing'
  BY <1>1 DEF IInv, OrderlyHearing
<1> QED
  BY <1>10, <1>11

\* Another message of one client, after what is waiting and what has been heard.
LEMMA Spoken ==
  ASSUME IInv, NEW c \in Clients, peer[c] = "up", NEW u \in Seq(Pieces), Stream(u, c),
         \A i \in 1..Len(u) : 2 * Len(said) < u[i].n
  PROVE  /\ Stream(inbox[c] \o u, c)
         /\ Before(h[c].chunk, inbox[c] \o u, c)
         /\ \A d \in Clients : Before(heard[d], inbox[c] \o u, c)
<1>1. /\ Talking(c) /\ Numbered(inbox[c], c) /\ Numbered(h[c].chunk, c)
      /\ \A d \in Clients : Numbered(heard[d], c) /\ Hearing(d, c)
  BY DEF IInv, Talk, Talking, Hearing
<1>2. /\ inbox[c] \in Seq(Pieces) /\ h[c].chunk \in Seq(Pieces)
      /\ \A d \in Clients : heard[d] \in Seq(Pieces)
  BY FrameType DEF IInv, Inside, TypeOK
<1>3. ASSUME NEW s \in Seq(Pieces), Numbered(s, c)
      PROVE  Before(s, u, c)
  <2>1. Len(said) \in Nat
    BY SeqFacts DEF IInv, Inside, TypeOK
  <2>2. \A i \in 1..Len(s) : s[i].n \in Nat
    BY MessageType
  <2>3. \A i \in 1..Len(u) : u[i].n \in Nat
    BY MessageType
  <2> QED
    BY <1>3, <2>1, <2>2, <2>3 DEF Numbered, Before
<1>4. /\ Stream(inbox[c] \o u, c)
      /\ \A r : Before(r, inbox[c], c) /\ Before(r, u, c) => Before(r, inbox[c] \o u, c)
  BY <1>1, <1>2, <1>3, LongerStream DEF Talking
<1>5. Before(h[c].chunk, inbox[c] \o u, c)
  BY <1>1, <1>2, <1>3, <1>4 DEF Talking
<1>6. ASSUME NEW d \in Clients
      PROVE  Before(heard[d], inbox[c] \o u, c)
  BY <1>1, <1>2, <1>3, <1>4 DEF Hearing
<1> QED
  BY <1>4, <1>5, <1>6

LEMMA ClientTalk ==
  ASSUME IInv, TypeOK', NEW c \in Clients, Client(c)
  PROVE  Talk' /\ OrderlyHearing'
<1>1. /\ UNCHANGED <<conn, clients, h, doubled>> /\ peer[c] = "up"
      /\ peer'[c] \in {"up", "left"} /\ \A d \in Clients \ {c} : peer'[d] = peer[d]
      /\ Len(said') \in Nat /\ Len(said) \in Nat /\ Len(said) <= Len(said') /\ Len(said) <= MaxSays
      /\ \A d \in Clients \ {c} : inbox'[d] = inbox[d] /\ heard'[d] = heard[d]
      /\ \/ peer'[c] = "up" /\ heard'[c] = heard[c] /\ Len(said') = Len(said) + 1
            /\ Len(said) + 1 \in 1..MaxSays + 1
            /\ inbox'[c] = inbox[c] \o Message(c, Len(said) + 1)
         \/ /\ peer'[c] = "left" /\ heard'[c] = <<>>
            /\ UNCHANGED said
            /\ inbox'[c] = inbox[c] \/ inbox'[c] = inbox[c] \o Message(c, MaxSays + 1)
  BY ClientFacts DEF Server, IInv, Inside, TypeOK
<1>2. \A d \in Clients : heard'[d] = heard[d] \/ heard'[d] = <<>>
  BY <1>1
<1>3. /\ Stream(inbox'[c], c) /\ Before(h[c].chunk, inbox'[c], c)
      /\ \A d \in Clients : Before(heard[d], inbox'[c], c)
  <2>1. CASE inbox'[c] = inbox[c]
    BY <2>1 DEF IInv, Talk, Talking, Hearing
  <2>2. ASSUME NEW n \in 1..MaxSays + 1, Len(said) < n, inbox'[c] = inbox[c] \o Message(c, n)
        PROVE  /\ Stream(inbox'[c], c) /\ Before(h[c].chunk, inbox'[c], c)
               /\ \A d \in Clients : Before(heard[d], inbox'[c], c)
    <3>1. /\ Message(c, n) \in Seq(Pieces) /\ Stream(Message(c, n), c)
          /\ \A i \in 1..Len(Message(c, n)) : 2 * n - 1 <= Message(c, n)[i].n
      BY MessageFacts
    <3>2. \A i \in 1..Len(Message(c, n)) : Message(c, n)[i].n \in Nat
      BY <3>1, MessageType
    <3>3. \A i \in 1..Len(Message(c, n)) : 2 * Len(said) < Message(c, n)[i].n
      BY <1>1, <2>2, <3>1, <3>2
    <3> QED
      BY <1>1, <2>2, <3>1, <3>3, Spoken
  <2>3. MaxSays + 1 \in 1..MaxSays + 1 /\ Len(said) < MaxSays + 1 /\ Len(said) < Len(said) + 1
    BY <1>1
  <2> QED
    BY <1>1, <2>1, <2>2, <2>3
<1>4. ASSUME NEW e \in Clients, NEW s \in Seq(Pieces), Numbered(s, e)
      PROVE  Numbered(s, e)'
  <2>1. \A i \in 1..Len(s) : s[i].n \in Nat
    BY MessageType
  <2> QED
    BY <1>1, <1>4, <2>1 DEF Numbered
<1>5. /\ inbox[c] \in Seq(Pieces) /\ inbox'[c] \in Seq(Pieces)
      /\ \A e \in Clients : /\ h[e].chunk \in Seq(Pieces) /\ inbox[e] \in Seq(Pieces)
                            /\ heard[e] \in Seq(Pieces)
  BY FrameType DEF IInv, Inside, TypeOK
<1>6. peer'[c] = "up" => Numbered(inbox[c], c)'
  <2> SUFFICES ASSUME peer'[c] = "up" PROVE Numbered(inbox[c], c)'
    OBVIOUS
  <2>1. PICK u \in Seq(Pieces) : /\ inbox'[c] = inbox[c] \o u /\ Len(said') = Len(said) + 1
                                 /\ \A i \in 1..Len(u) : u[i].n <= 2 * (Len(said) + 1)
    BY <1>1, MessageFacts
  <2>2. \A i \in 1..Len(inbox[c]) : inbox[c][i].from = c => inbox[c][i].n <= 2 * Len(said)
                                    /\ inbox[c][i].n \in Nat
    BY <1>1, <1>5, MessageType DEF IInv, Talk, Talking, Numbered
  <2>3. /\ Len(inbox'[c]) = Len(inbox[c]) + Len(u) /\ Len(inbox[c]) \in Nat /\ Len(u) \in Nat
        /\ \A i \in 1..Len(inbox'[c]) : inbox'[c][i] = IF i <= Len(inbox[c]) THEN inbox[c][i]
                                                       ELSE u[i - Len(inbox[c])]
    BY <1>5, <2>1, ConcatFacts, SeqFacts
  <2>4. ASSUME NEW i \in 1..Len(inbox'[c]), inbox'[c][i].from = c
        PROVE  inbox'[c][i].n <= 2 * Len(said')
    <3>1. CASE i <= Len(inbox[c])
      <4>1. i \in 1..Len(inbox[c]) /\ inbox'[c][i] = inbox[c][i]
        BY <2>3, <3>1
      <4> QED
        BY <1>1, <2>1, <2>2, <2>4, <4>1
    <3>2. CASE ~(i <= Len(inbox[c]))
      <4>1. i - Len(inbox[c]) \in 1..Len(u) /\ inbox'[c][i] = u[i - Len(inbox[c])]
        BY <2>3, <3>2
      <4> QED
        BY <2>1, <4>1
    <3> QED
      BY <3>1, <3>2
  <2> QED
    BY <2>4 DEF Numbered
<1>7. ASSUME NEW e \in Clients
      PROVE  Talking(e)'
  <2>1. Talking(e)
    BY DEF IInv, Talk
  <2>2. CASE e = c
    BY <1>1, <1>3, <1>4, <1>5, <1>6, <2>1, <2>2 DEF Talking, Numbered
  <2>3. CASE e # c
    <3>1. /\ peer'[e] = peer[e] /\ inbox'[e] = inbox[e] /\ h'[e] = h[e]
          /\ Numbered(inbox[e], e) => Numbered(inbox[e], e)'
      BY <1>1, <1>4, <1>5, <2>3 DEF Numbered
    <3> QED
      BY <1>1, <1>4, <1>5, <2>1, <3>1 DEF Talking, Numbered
  <2> QED
    BY <2>2, <2>3
<1>8. ASSUME NEW d \in Clients, NEW e \in Clients
      PROVE  Hearing(d, e)'
  <2>1. Hearing(d, e)
    BY DEF IInv, Talk
  <2>2. CASE heard'[d] = <<>>
    BY <2>2, EmptyStream DEF Hearing, Numbered
  <2>3. CASE heard'[d] = heard[d]
    <3>1. Before(heard[d], inbox'[e], e)
      BY <1>1, <1>3, <2>1 DEF Hearing
    <3>2. Awaits(d, e)' <=> Awaits(d, e)
      BY <1>1 DEF Awaits
    <3>3. peer'[e] \in {"out", "up"} => Numbered(heard[d], e)
      BY <1>1, <2>1 DEF Hearing
    <3>4. peer'[e] \in {"out", "up"} => Numbered(heard[d], e)'
      <4>1. \A i \in 1..Len(heard[d]) : heard[d][i].n \in Nat
        BY <1>5, MessageType
      <4> QED
        BY <1>1, <2>3, <3>3, <4>1 DEF Numbered
    <3> QED
      BY <1>1, <2>1, <2>3, <3>1, <3>2, <3>4 DEF Hearing
  <2> QED
    BY <1>2, <2>2, <2>3
<1>9. \A d \in Clients : peer'[d] = "out" => heard'[d] = <<>>
  BY <1>1 DEF IInv, Talk
<1>10. ASSUME NEW d \in Clients
       PROVE  NoEcho(d)' /\ InOrder(d)'
  <2>1. NoEcho(d) /\ InOrder(d)
    BY HeardParts DEF IInv, Inside, TypeOK
  <2>2. CASE heard'[d] = heard[d]
    BY <1>1, <2>1, <2>2 DEF NoEcho, InOrder
  <2>3. CASE heard'[d] = <<>>
    BY <2>3, EmptySeq DEF NoEcho, InOrder
  <2> QED
    BY <1>2, <2>2, <2>3
<1> QED
  BY <1>7, <1>8, <1>9, <1>10, HeardAgain DEF Talk

-----------------------------------------------------------------------------
(* A message is forwarded *)

\* The messages of each client in the order in which it has sent them.
Sorted(s) == \A i, j \in 1..Len(s) : i < j /\ s[i].from = s[j].from => s[i].n < s[j].n

\* What a client has heard, and then a part of what another has said.
LEMMA HeardMore ==
  ASSUME NEW c, NEW s \in Seq(Pieces), NEW u \in Seq(Pieces), Stream(u, c)
  PROVE  /\ \A i \in 1..Len(s \o u) : (\E j \in 1..Len(s) : (s \o u)[i] = s[j]) \/ (s \o u)[i].from = c
         /\ \A e, r : Before(s, r, e) /\ (e = c => Before(u, r, c)) => Before(s \o u, r, e)
         /\ \A e : Numbered(s, e) /\ (e = c => Numbered(u, c)) => Numbered(s \o u, e)
         /\ Sorted(s) /\ Before(s, u, c) => Sorted(s \o u)
<1>1. PICK t : t = s \o u
  OBVIOUS
<1>2. /\ Len(t) = Len(s) + Len(u) /\ Len(s) \in Nat /\ Len(u) \in Nat
      /\ \A i \in 1..Len(t) : t[i] = IF i <= Len(s) THEN s[i] ELSE u[i - Len(s)]
  BY <1>1, ConcatFacts, SeqFacts
<1>3. \A i \in 1..Len(t) : \/ i \in 1..Len(s) /\ t[i] = s[i]
                           \/ /\ i > Len(s) /\ i - Len(s) \in 1..Len(u)
                              /\ t[i] = u[i - Len(s)] /\ t[i].from = c
  <2>1. \A i \in 1..Len(t) : i <= Len(s) => i \in 1..Len(s) /\ t[i] = s[i]
    BY <1>2
  <2>2. \A i \in 1..Len(t) : ~(i <= Len(s)) => i > Len(s) /\ i - Len(s) \in 1..Len(u) /\ t[i] = u[i - Len(s)]
    BY <1>2
  <2> QED
    BY <2>1, <2>2 DEF Stream
<1>4. \A i \in 1..Len(t) : (\E j \in 1..Len(s) : t[i] = s[j]) \/ t[i].from = c
  BY <1>3
<1>5. \A e, r : Before(s, r, e) /\ (e = c => Before(u, r, c)) => Before(t, r, e)
  BY <1>3 DEF Before, Stream
<1>6. \A e : Numbered(s, e) /\ (e = c => Numbered(u, c)) => Numbered(t, e)
  BY <1>3 DEF Numbered
<1>7. ASSUME Before(s, u, c), Sorted(s), NEW i \in 1..Len(t), NEW j \in 1..Len(t), i < j, t[i].from = t[j].from
      PROVE  t[i].n < t[j].n
  <2>1. CASE j \in 1..Len(s)
    <3>1. t[j] = s[j] /\ i \in 1..Len(s) /\ t[i] = s[i]
      BY <1>2, <1>7, <2>1
    <3> QED
      BY <1>7, <2>1, <3>1 DEF Sorted
  <2>2. CASE i \in 1..Len(s) /\ j - Len(s) \in 1..Len(u) /\ t[j] = u[j - Len(s)]
    BY <1>2, <1>3, <1>7, <2>2 DEF Before, Stream
  <2>3. CASE /\ i - Len(s) \in 1..Len(u) /\ t[i] = u[i - Len(s)]
             /\ j - Len(s) \in 1..Len(u) /\ t[j] = u[j - Len(s)]
    <3>1. i - Len(s) < j - Len(s)
      BY <1>2, <1>7
    <3> QED
      BY <2>3, <3>1 DEF Stream
  <2> QED
    BY <1>2, <1>3, <1>7, <2>1, <2>2, <2>3
<1> QED
  BY <1>1, <1>4, <1>5, <1>6, <1>7 DEF Sorted

LEMMA SendTalk ==
  ASSUME IInv, TypeOK', NEW c \in Clients, Send(c)
  PROVE  Talk' /\ OrderlyHearing'
<1>1. PICK i \in 1..Len(clients) :
        /\ i = h[c].i /\ clients[i] \in Fds /\ clients[i] # h[c].fd
        /\ Serving(c) /\ SendNext(c, i)
        /\ \/ UNCHANGED heard
           \/ /\ conn[clients[i]] \in Clients /\ peer[conn[clients[i]]] = "up"
              /\ Hears(conn[clients[i]], h[c].chunk)
        /\ \A d \in Clients : (peer'[d] = "up" <=> peer[d] = "up")
                              /\ (peer'[d] = "out" <=> peer[d] = "out")
  BY SendFacts
<1>2. h[c].pc = "send" /\ UNCHANGED <<conn, clients, said, inbox, doubled>>
  BY DEF Send
<1>3. Len(clients) \in Nat /\ Len(clients) <= MaxClients /\ clients \in Seq(Fds) /\ i \in 0..MaxClients
  BY SeqFacts DEF IInv, Inside, TypeOK
<1>4. \/ Turns(c, "recv", h[c].fd, c, <<>>, 0)
      \/ \E j \in 1..Len(clients) : j > i /\ Turns(c, "send", h[c].fd, c, h[c].chunk, j)
  BY <1>1, <1>3, NextTurns
<1>5. /\ \A e \in Clients \ {c} : h'[e] = h[e]
      /\ h'[c].chunk = h[c].chunk \/ h'[c].chunk = <<>>
  BY <1>4 DEF Turns
\* Whoever is still to be sent the chunk stands further on in the table.
<1>6. ASSUME NEW d \in Clients, Awaits(d, c)'
      PROVE  ~doubled /\ \E k \in i + 1..Len(clients) : conn[clients[k]] = d
  <2>1. h'[c].pc # "lock"
    BY <1>4 DEF Turns
  <2>2. PICK k \in h'[c].i..Len(clients) : conn[clients[k]] = d /\ h'[c].pc = "send" /\ ~doubled
    BY <1>2, <1>6, <2>1 DEF Awaits
  <2>3. h'[c].i \in 1..Len(clients) /\ h'[c].i > i
    BY <1>4, <2>2 DEF Turns
  <2>4. k \in i + 1..Len(clients)
    BY <1>3, <2>3
  <2> QED
    BY <2>2, <2>4
<1>7. \A e, d \in Clients : Awaits(d, e)' => Awaits(d, e)
  <2> SUFFICES ASSUME NEW e \in Clients, NEW d \in Clients, Awaits(d, e)'
               PROVE  Awaits(d, e)
    OBVIOUS
  <2>1. CASE e = c
    <3>1. PICK k \in i + 1..Len(clients) : conn[clients[k]] = d /\ ~doubled
      BY <1>6, <2>1
    <3>2. k \in h[c].i..Len(clients)
      BY <1>1, <1>3
    <3> QED
      BY <1>2, <2>1, <3>1, <3>2 DEF Awaits
  <2>2. CASE e # c
    BY <1>2, <1>5, <2>2 DEF Awaits
  <2> QED
    BY <2>1, <2>2
<1>8. CASE UNCHANGED heard
  <2>1. \A d \in Clients : peer'[d] \in {"out", "up"} => peer[d] \in {"out", "up"}
    BY <1>1
  <2> QED
    BY <1>1, <1>2, <1>5, <1>7, <1>8, <2>1, SilentTalk
<1>9. ASSUME NEW d \in Clients, d = conn[clients[i]], peer[d] = "up", Hears(d, h[c].chunk)
      PROVE  Talk' /\ OrderlyHearing'
  <2>1. PICK u : u = h[c].chunk
    OBVIOUS
  <2>2. /\ heard[d] \in Seq(Pieces) /\ u \in Seq(Pieces) /\ Talking(c)
        /\ heard'[d] = heard[d] \o u /\ \A e \in Clients \ {d} : heard'[e] = heard[e]
    BY <1>9, <2>1, FrameType DEF Hears, IInv, Inside, TypeOK, Talk
  <2>3. d # c /\ d # Nobody
    <3>1. d # Nobody /\ c # Nobody
      BY NClientsAssumption DEF Clients, Nobody
    <3>2. h[c].fd \in Fds /\ conn[h[c].fd] = c
      BY <1>1, ServesOwn
    <3> QED
      BY <1>1, <1>9, <3>1, <3>2 DEF IInv, Inside, Connected
  <2>4. Stream(u, c) /\ Before(u, inbox[c], c) /\ (peer[c] \in {"out", "up"} => Numbered(u, c))
    BY <2>1, <2>2 DEF Talking
  <2>5. ~doubled => Before(heard[d], u, c)
    <3>1. i \in h[c].i..Len(clients)
      BY <1>1, <1>3
    <3>2. ~doubled => Awaits(d, c)
      BY <1>2, <1>9, <3>1 DEF Awaits
    <3> QED
      BY <2>1, <3>2 DEF IInv, Talk, Hearing
\* No number stands twice in the table, so nobody is sent the chunk twice.
  <2>6. ~Awaits(d, c)'
    <3> SUFFICES ASSUME Awaits(d, c)' PROVE FALSE
      OBVIOUS
    <3>1. PICK k \in i + 1..Len(clients) : conn[clients[k]] = d /\ ~doubled
      BY <1>6
    <3>2. k \in 1..Len(clients) /\ k # i
      BY <1>3
    <3>3. clients[k] \in Fds
      BY <1>3, <3>2, SeqFacts
    <3>4. clients[k] = clients[i]
      BY <1>1, <1>9, <2>3, <3>1, <3>3 DEF IInv, Inside, Connected
    <3> QED
      BY <3>1, <3>2, <3>4 DEF IInv, Inside, Listing
  <2>7. /\ \A j \in 1..Len(heard'[d]) : (\E k \in 1..Len(heard[d]) : heard'[d][j] = heard[d][k])
                                         \/ heard'[d][j].from = c
        /\ \A e, r : Before(heard[d], r, e) /\ (e = c => Before(u, r, c)) => Before(heard'[d], r, e)
        /\ \A e : Numbered(heard[d], e) /\ (e = c => Numbered(u, c)) => Numbered(heard'[d], e)
        /\ Sorted(heard[d]) /\ Before(heard[d], u, c) => Sorted(heard'[d])
    <3>1. PICK v, w : v = heard[d] /\ w = v \o u /\ v \in Seq(Pieces)
      BY <2>2
    <3>2. /\ \A j \in 1..Len(v \o u) : (\E k \in 1..Len(v) : (v \o u)[j] = v[k])
                                        \/ (v \o u)[j].from = c
          /\ \A e, r : Before(v, r, e) /\ (e = c => Before(u, r, c)) => Before(v \o u, r, e)
          /\ \A e : Numbered(v, e) /\ (e = c => Numbered(u, c)) => Numbered(v \o u, e)
          /\ Sorted(v) /\ Before(v, u, c) => Sorted(v \o u)
      BY <2>2, <2>4, <3>1, HeardMore
    <3> QED
      BY <2>2, <3>1, <3>2
  <2>8. ASSUME NEW e \in Clients
        PROVE  Talking(e)'
    <3>1. Talking(e) /\ (peer'[e] \in {"out", "up"} => peer[e] \in {"out", "up"})
      BY <1>1 DEF IInv, Talk
    <3>2. h'[e].chunk = h[e].chunk \/ h'[e].chunk = <<>>
      BY <1>5
    <3>3. CASE h'[e].chunk = h[e].chunk
      BY <1>2, <3>1, <3>3 DEF Talking, Numbered
    <3>4. CASE h'[e].chunk = <<>>
      BY <1>2, <3>1, <3>4, EmptyStream DEF Talking, Numbered
    <3> QED
      BY <3>2, <3>3, <3>4
  <2>9. ASSUME NEW x \in Clients, NEW e \in Clients
        PROVE  Hearing(x, e)'
    <3>1. Hearing(x, e) /\ (peer'[e] \in {"out", "up"} => peer[e] \in {"out", "up"})
      BY <1>1 DEF IInv, Talk
    <3>2. CASE x # d
      <4>1. heard'[x] = heard[x] /\ (Awaits(x, e)' => Awaits(x, e))
        BY <1>7, <2>2, <3>2
      <4>2. Awaits(x, e)' => Before(heard[x], h'[e].chunk, e)
        BY <1>5, <3>1, <4>1, EmptyStream DEF Hearing
      <4> QED
        BY <1>2, <3>1, <4>1, <4>2 DEF Hearing, Numbered
    <3>3. CASE x = d
      <4>1. Before(heard'[d], inbox[e], e)
        BY <2>4, <2>7, <3>1, <3>3 DEF Hearing
      <4>2. Awaits(d, e)' => Before(heard'[d], h'[e].chunk, e)
        <5>1. CASE e = c
          BY <2>6, <5>1
        <5>2. CASE e # c
          <6>1. h'[e] = h[e] /\ (Awaits(d, e)' => Before(heard[d], h[e].chunk, e))
            BY <1>5, <1>7, <3>1, <3>3, <5>2 DEF Hearing
          <6> QED
            BY <2>7, <5>2, <6>1
        <5> QED
          BY <5>1, <5>2
      <4>3. peer'[e] \in {"out", "up"} => Numbered(heard'[d], e)
        BY <2>4, <2>7, <3>1, <3>3 DEF Hearing
      <4> QED
        BY <1>2, <3>3, <4>1, <4>2, <4>3 DEF Hearing, Numbered
    <3> QED
      BY <3>2, <3>3
  <2>10. \A x \in Clients : peer'[x] = "out" => heard'[x] = <<>>
    BY <1>1, <1>9, <2>2 DEF IInv, Talk
  <2>11. ASSUME NEW x \in Clients
         PROVE  NoEcho(x)' /\ InOrder(x)'
    <3>1. NoEcho(x) /\ InOrder(x)
      BY HeardParts DEF IInv, Inside, TypeOK
    <3>2. CASE x # d
      BY <1>2, <2>2, <3>1, <3>2 DEF NoEcho, InOrder
    <3>3. CASE x = d
      <4>1. NoEcho(d)'
        BY <2>3, <2>7, <3>1, <3>3 DEF NoEcho
      <4>2. InOrder(d)'
        BY <1>2, <2>5, <2>7, <3>1, <3>3 DEF InOrder, Sorted
      <4> QED
        BY <3>3, <4>1, <4>2
    <3> QED
      BY <3>2, <3>3
  <2> QED
    BY <2>8, <2>9, <2>10, <2>11, HeardAgain DEF Talk
<1> QED
  BY <1>1, <1>8, <1>9

-----------------------------------------------------------------------------
(* The theorems *)

LEMMA InitIInv == Init => IInv
<1> SUFFICES ASSUME Init PROVE IInv
  OBVIOUS
<1>1. /\ <<>> \in Seq(Fds) /\ <<>> \in Seq(Clients) /\ <<>> \in Seq(Pieces) /\ Len(<<>>) = 0
      /\ MaxClients \in Nat /\ MaxSays \in Nat
  BY EmptySeq
<1>2. TypeOK
  <2>1. NoHandler \in Frames
    BY <1>1 DEF NoHandler, Frame, Frames, Pcs
  <2>2. /\ conn \in [Fds -> Clients \cup {Nobody}] /\ h \in [Clients -> Frames]
        /\ peer \in [Clients -> {"out", "up", "left", "probed"}]
    BY <2>1 DEF Init
  <2>3. /\ joined \in [Clients -> 0..MaxSays]
        /\ inbox \in [Clients -> Seq(Pieces)] /\ heard \in [Clients -> Seq(Pieces)]
    BY <1>1 DEF Init
  <2>4. /\ clients \in Seq(Fds) /\ Len(clients) <= MaxClients
        /\ said \in Seq(Clients) /\ Len(said) <= MaxSays
    BY <1>1 DEF Init
  <2> QED
    BY <2>2, <2>3, <2>4 DEF Init, TypeOK
<1>3. \A c \in Clients : /\ h[c].pc = "none" /\ h[c].chunk = <<>> /\ inbox[c] = <<>>
                         /\ heard[c] = <<>> /\ peer[c] = "out"
  BY DEF Init, NoHandler, Frame
<1>4. Arrivals
  BY <1>3 DEF Init, Arrivals, Arriving
<1>5. Connected
  BY <1>3 DEF Init, Connected, Served, Serving
<1>6. Locked
  <2>1. lock = Nobody
    BY DEF Init
  <2>2. Nobody \notin Clients
    BY NClientsAssumption DEF Clients, Nobody
  <2> QED
    BY <1>3, <2>1, <2>2 DEF Locked
<1>7. Listing
  BY <1>1 DEF Init, Listing
<1>8. TableMatches
  <2>1. ASSUME NEW f \in Fds
        PROVE  Exact(f)
    <3>1. Places(clients, f) = {}
      BY <1>1 DEF Init, Places
    <3>2. Removers(f) = {}
      BY <1>3 DEF Removers
    <3>3. ~Announced(f)
      BY DEF Init, Announced, Open
    <3> QED
      BY <3>1, <3>2, <3>3, FS_EmptySet DEF Exact, Entry
  <2> QED
    BY <2>1, ExactTable
<1>9. Talk
  BY <1>3, EmptyStream DEF Talk, Talking, Hearing
<1>10. OrderlyHearing
  <2>1. \A d \in Clients : NoEcho(d) /\ InOrder(d)
    BY <1>1, <1>3 DEF NoEcho, InOrder
  <2> QED
    BY <1>2, <2>1, HeardParts DEF TypeOK
<1> QED
  BY <1>2, <1>4, <1>5, <1>6, <1>7, <1>8, <1>9, <1>10 DEF IInv, Inside

LEMMA NextIInv ==
  ASSUME IInv, [Next]_vars, ~rushed'
  PROVE  IInv'
<1>1. CASE UNCHANGED vars
  <2>1. TypeOK' /\ Arrivals' /\ Connected'
    BY <1>1 DEF vars, IInv, Inside, TypeOK, Arrivals, Arriving, Connected, Served, Serving
  <2>2. Locked' /\ Listing' /\ TableMatches'
    BY <1>1 DEF vars, IInv, Inside, Locked, Listing, Listed, TableMatches, Announced, Open
  <2>3. Talk' /\ OrderlyHearing'
    <3>1. \A c, d \in Clients : Awaits(d, c)' => Awaits(d, c)
      BY <1>1 DEF vars, Awaits
    <3> QED
      BY <1>1, <2>1, <3>1, SilentTalk DEF vars
  <2> QED
    BY <2>1, <2>2, <2>3 DEF IInv, Inside
<1>2. CASE AppendClient
  <2>1. TypeOK'
    BY <1>2, AppendType
  <2> QED
    BY <1>2, <2>1, AppendInside, AppendTalk DEF IInv
<1>3. ASSUME NEW c \in Clients, Accept(c)
      PROVE  IInv'
  <2>1. TypeOK'
    BY <1>3, AcceptType DEF IInv, Inside
  <2> QED
    BY <1>3, <2>1, AcceptInside, AcceptTalk DEF IInv
<1>4. ASSUME NEW c \in Clients, Client(c)
      PROVE  IInv'
  <2>1. TypeOK'
    BY <1>4, ClientType DEF IInv, Inside
  <2> QED
    BY <1>4, <2>1, ClientInside, ClientTalk DEF IInv
<1>5. ASSUME NEW c \in Clients, Handler(c)
      PROVE  IInv'
  <2>1. CASE HandlerStart(c)
    <3>1. TypeOK'
      BY <2>1, StartTurns DEF HandlerStart, Turns, TypeOK, IInv, Inside
    <3> QED
      BY <2>1, <3>1, StartInside, StartTalk DEF IInv
  <2>2. CASE RecvReturn(c)
    <3>1. TypeOK'
      BY <2>2, ReturnType
    <3> QED
      BY <2>2, <3>1, ReturnInside, ReturnTalk DEF IInv
  <2>3. CASE RecvEnd(c) \/ RemoveClient(c) \/ Close(c)
    <3>1. TypeOK'
      BY <2>3, LeaveType
    <3> QED
      BY <2>3, <3>1, EndInside, RemoveInside, CloseInside, StartTalk DEF IInv
  <2>4. CASE BroadcastLock(c) \/ Send(c)
    <3>1. TypeOK'
      BY <2>4, ForwardType
    <3> QED
      BY <2>4, <3>1, ForwardInside, LockTalk, SendTalk DEF IInv
  <2> QED
    BY <1>5, <2>1, <2>2, <2>3, <2>4 DEF Handler
<1> QED
  BY <1>1, <1>2, <1>3, <1>4, <1>5 DEF Next

\* Once an accept() has been too early, it stays so.
LEMMA RushedStays == [Next]_vars /\ rushed => rushed'
<1> SUFFICES ASSUME [Next]_vars, rushed PROVE rushed'
  OBVIOUS
<1>1. ASSUME NEW c \in Clients, Accept(c) \/ Handler(c) \/ Client(c)
      PROVE  rushed'
  BY <1>1 DEF Accept, Handler, HandlerStart, RecvReturn, RecvEnd, Close, RemoveClient, BroadcastLock, Send,
              Client, Say, SayStop, HangUp, Server
<1> QED
  BY <1>1 DEF Next, AppendClient, vars

THEOREM Invariance == Spec => [](~rushed => IInv)
<1>1. Init => (~rushed => IInv)
  BY InitIInv
<1>2. (~rushed => IInv) /\ [Next]_vars => (~rushed => IInv)'
  BY NextIInv, RushedStays
<1> QED
  BY <1>1, <1>2, PTL DEF Spec

-----------------------------------------------------------------------------
(* Type correctness, in every behaviour *)

\* What a thread needs to go on: its argument when it starts, a descriptor and a
\* connection of its own choice while it serves, and the lock while it sends.
Ready(c) ==
  /\ h[c].pc = "created" => newSocket \in Fds
  /\ Serving(c) => h[c].fd \in Fds /\ h[c].sock \in Clients
  /\ h[c].pc = "remove" => h[c].fd \in Fds
  /\ h[c].pc = "send" => lock = c /\ h[c].i \in 1..Len(clients)

Typed == /\ TypeOK
         /\ mpc = "append" => newSocket \in Fds
         /\ \A c \in Clients : Ready(c)

\* One thread goes on; the table does not change under a thread that sends.
LEMMA ReadyKept ==
  ASSUME Typed, NEW c \in Clients, \A d \in Clients \ {c} : h'[d] = h[d], Ready(c)',
         newSocket \in Fds => newSocket' \in Fds,
         \A d \in Clients \ {c} : lock = d => lock' = d /\ UNCHANGED clients
  PROVE  \A d \in Clients : Ready(d)'
<1> SUFFICES ASSUME NEW d \in Clients \ {c} PROVE Ready(d)'
  OBVIOUS
<1>1. Ready(d) /\ h'[d] = h[d]
  BY DEF Typed
<1>2. h[d].pc = "send" => lock = d /\ lock' = d /\ UNCHANGED clients
  BY <1>1 DEF Ready
<1> QED
  BY <1>1, <1>2 DEF Ready, Serving

\* A thread that goes to its recv() has a descriptor that is open, or ends.
LEMMA EnterAny ==
  ASSUME TypeOK, NEW c \in Clients, NEW f \in Fds, h' = [h EXCEPT ![c] = EnterRecv(f)]
  PROVE  \/ \E s \in Clients : Turns(c, "recv", f, s, <<>>, 0)
         \/ Turns(c, "done", f, Nobody, <<>>, 0)
<1>1. {"recv", "done"} \subseteq Pcs /\ h \in [Clients -> Frames]
  BY DEF Pcs, TypeOK
<1>2. CASE f \in Open
  <2>1. conn[f] \in Clients
    BY <1>2 DEF Open, TypeOK
  <2>2. h' = [h EXCEPT ![c] = Frame("recv", f, conn[f], <<>>, 0)]
    BY <1>2 DEF EnterRecv
  <2> QED
    BY <1>1, <2>1, <2>2, EmptyChunk, SetTurns
<1>3. CASE f \notin Open
  <2>1. h' = [h EXCEPT ![c] = Frame("done", f, Nobody, <<>>, 0)]
    BY <1>3 DEF EnterRecv
  <2> QED
    BY <1>1, <2>1, EmptyChunk, SetTurns
<1> QED
  BY <1>2, <1>3

\* Entering recv() asks nothing of the thread.
LEMMA EnterReady ==
  ASSUME TypeOK, NEW c \in Clients, NEW f \in Fds, h' = [h EXCEPT ![c] = EnterRecv(f)]
  PROVE  Ready(c)' /\ h' \in [Clients -> Frames] /\ \A d \in Clients \ {c} : h'[d] = h[d]
<1>1. CASE \E s \in Clients : Turns(c, "recv", f, s, <<>>, 0)
  BY <1>1 DEF Turns, Ready, Serving
<1>2. CASE Turns(c, "done", f, Nobody, <<>>, 0)
  BY <1>2 DEF Turns, Ready, Serving
<1> QED
  BY <1>1, <1>2, EnterAny

LEMMA AppendTyped ==
  ASSUME Typed, AppendClient
  PROVE  Typed'
<1>1. newSocket \in Fds /\ clients \in Seq(Fds) /\ said \in Seq(Clients) /\ Len(said) <= MaxSays
  BY DEF Typed, TypeOK, AppendClient
<1>2. Len(said) \in 0..MaxSays /\ lock = Nobody
  BY <1>1, SeqFacts DEF AppendClient
<1>3. CASE fault' = "overflow" /\ UNCHANGED <<clients, h, joined, mpc>>
  BY <1>3 DEF AppendClient, Typed, TypeOK, Ready, Serving
<1>4. ASSUME NEW c \in Clients, Len(clients) < MaxClients, clients' = Append(clients, newSocket),
             h' = [h EXCEPT ![c] = Frame("created", NoFd, Nobody, <<>>, 0)],
             joined' = [joined EXCEPT ![c] = Len(said)], mpc' = "accept", UNCHANGED fault
      PROVE  Typed'
  <2>1. clients' \in Seq(Fds) /\ Len(clients') <= MaxClients
    BY <1>1, <1>4, AppendFacts, SeqFacts
  <2>2. joined' \in [Clients -> 0..MaxSays]
    BY <1>2, <1>4, UpdateType DEF Typed, TypeOK
  <2>3. "created" \in Pcs /\ h \in [Clients -> Frames]
    BY DEF Pcs, Typed, TypeOK
  <2>4. Turns(c, "created", NoFd, Nobody, <<>>, 0)
    BY <1>4, <2>3, EmptyChunk, SetTurns
  <2>5. TypeOK'
    BY <1>4, <2>1, <2>2, <2>4 DEF AppendClient, Typed, TypeOK, Turns
  <2>6. Ready(c)' /\ newSocket' = newSocket
    BY <1>1, <2>4 DEF AppendClient, Ready, Serving, Turns
  <2>7. \A d \in Clients : lock # d
    BY <1>2 DEF Clients, Nobody
  <2>8. \A d \in Clients : Ready(d)'
    BY <2>4, <2>6, <2>7, ReadyKept DEF Turns
  <2> QED
    BY <1>4, <2>5, <2>8 DEF Typed
<1> QED
  BY <1>3, <1>4 DEF AppendClient

LEMMA AcceptTyped ==
  ASSUME Typed, NEW c \in Clients, Accept(c)
  PROVE  Typed'
<1>1. newSocket' \in Fds /\ UNCHANGED <<clients, lock, h>> /\ TypeOK'
  BY AcceptFacts, AcceptType DEF Accept, Typed
<1>2. \A d \in Clients : Ready(d)'
  BY <1>1 DEF Typed, Ready, Serving
<1> QED
  BY <1>1, <1>2 DEF Typed

LEMMA StartTyped ==
  ASSUME Typed, NEW c \in Clients, HandlerStart(c)
  PROVE  Typed'
<1>1. newSocket \in Fds /\ TypeOK
  BY DEF HandlerStart, Typed, Ready
<1>2. Ready(c)' /\ h' \in [Clients -> Frames] /\ \A d \in Clients \ {c} : h'[d] = h[d]
  BY <1>1, EnterReady DEF HandlerStart
<1>3. UNCHANGED <<conn, clients, lock, newSocket, mpc, peer, inbox, heard, doubled, rushed, fault,
                  said, joined>>
  BY DEF HandlerStart
<1>4. TypeOK'
  BY <1>1, <1>2, <1>3 DEF TypeOK
<1>5. \A d \in Clients : Ready(d)'
  BY <1>2, <1>3, ReadyKept
<1> QED
  BY <1>3, <1>4, <1>5 DEF Typed

LEMMA ReturnTyped ==
  ASSUME Typed, NEW c \in Clients, RecvReturn(c)
  PROVE  Typed'
<1>1. PICK s \in Clients : s = h[c].sock
  BY DEF RecvReturn, Typed, Ready, Serving
<1>2. /\ h[c].fd \in Fds /\ h \in [Clients -> Frames] /\ {"close", "lock"} \subseteq Pcs
      /\ inbox \in [Clients -> Seq(Pieces)]
  BY DEF RecvReturn, Typed, TypeOK, Ready, Serving, Pcs
<1>3. PICK n \in 1..Len(inbox[s]) :
        /\ inbox' = [inbox EXCEPT ![s] = SubSeq(inbox[s], n + 1, Len(inbox[s]))]
        /\ \/ Goto(c, "close", <<>>, 0)
           \/ Goto(c, "lock", SubSeq(inbox[s], 1, n), 0)
  BY <1>1, <1>2 DEF RecvReturn
<1>4. inbox[s] \in Seq(Pieces) /\ n \in 0..Len(inbox[s])
  <2>1. inbox[s] \in Seq(Pieces) /\ Len(inbox[s]) \in Nat
    BY <1>2, SeqFacts
  <2> QED
    BY <2>1
<1>5. inbox' \in [Clients -> Seq(Pieces)]
  <2>1. SubSeq(inbox[s], n + 1, Len(inbox[s])) \in Seq(Pieces)
    BY <1>4, SuffixFacts
  <2> QED
    BY <1>2, <1>3, <2>1, UpdateType
<1>6. /\ h' \in [Clients -> Frames] /\ \A d \in Clients \ {c} : h'[d] = h[d]
      /\ h'[c].pc \in {"close", "lock"} /\ h'[c].fd = h[c].fd /\ h'[c].sock = s
  <2>1. SubSeq(inbox[s], 1, n) \in Seq(Pieces)
    BY <1>4, PrefixFacts
  <2>2. \/ Turns(c, "close", h[c].fd, h[c].sock, <<>>, 0)
        \/ Turns(c, "lock", h[c].fd, h[c].sock, SubSeq(inbox[s], 1, n), 0)
    BY <1>2, <1>3, <2>1, EmptyChunk, GotoTurns
  <2> QED
    BY <1>1, <2>2 DEF Turns
<1>7. UNCHANGED <<conn, clients, lock, newSocket, mpc, peer, heard, doubled, rushed, fault, said,
                  joined>>
  BY DEF RecvReturn
<1>8. TypeOK'
  BY <1>5, <1>6, <1>7 DEF Typed, TypeOK
<1>9. Ready(c)'
  BY <1>2, <1>6 DEF Ready, Serving
<1>10. \A d \in Clients : Ready(d)'
  BY <1>6, <1>7, <1>9, ReadyKept
<1> QED
  BY <1>7, <1>8, <1>10 DEF Typed

LEMMA LeaveTyped ==
  ASSUME Typed, NEW c \in Clients, RecvEnd(c) \/ RemoveClient(c) \/ Close(c)
  PROVE  Typed'
<1>1. {"done", "remove"} \subseteq Pcs /\ h \in [Clients -> Frames] /\ h[c].fd \in Fds
  BY DEF Pcs, Typed, TypeOK, Ready, Serving, RecvEnd, RemoveClient, Close
<1>2. /\ RecvEnd(c) \/ RemoveClient(c) => Turns(c, "done", h[c].fd, h[c].sock, <<>>, 0)
      /\ Close(c) => Turns(c, "remove", h[c].fd, h[c].sock, <<>>, 0)
  BY <1>1, EmptyChunk, GotoTurns DEF RecvEnd, RemoveClient, Close
<1>3. /\ h' \in [Clients -> Frames] /\ \A d \in Clients \ {c} : h'[d] = h[d]
      /\ h'[c].pc \in {"done", "remove"} /\ h'[c].fd = h[c].fd
  BY <1>2 DEF Turns
<1>4. /\ clients' \in Seq(Fds) /\ Len(clients') <= MaxClients
      /\ lock = Nobody \/ UNCHANGED clients
  <2>1. CASE RemoveClient(c)
    BY <2>1, RemoveFacts DEF RemoveClient, Typed, TypeOK
  <2>2. CASE RecvEnd(c) \/ Close(c)
    BY <2>2 DEF RecvEnd, Close, Typed, TypeOK
  <2> QED
    BY <2>1, <2>2
<1>5. conn' \in [Fds -> Clients \cup {Nobody}]
  <2>1. CASE Close(c)
    BY <1>1, <2>1, UpdateType DEF Close, Typed, TypeOK
  <2>2. CASE RecvEnd(c) \/ RemoveClient(c)
    BY <2>2 DEF RecvEnd, RemoveClient, Typed, TypeOK
  <2> QED
    BY <2>1, <2>2
<1>6. UNCHANGED <<lock, newSocket, mpc, peer, inbox, heard, doubled, rushed, fault, said, joined>>
  BY DEF RecvEnd, RemoveClient, Close
<1>7. TypeOK'
  BY <1>3, <1>4, <1>5, <1>6 DEF Typed, TypeOK
<1>8. Ready(c)'
  BY <1>1, <1>3 DEF Ready, Serving
<1>9. \A d \in Clients : lock = d => lock' = d /\ UNCHANGED clients
  BY <1>4, <1>6 DEF Clients, Nobody
<1>10. \A d \in Clients : Ready(d)'
  BY <1>3, <1>6, <1>8, <1>9, ReadyKept
<1> QED
  BY <1>6, <1>7, <1>10 DEF Typed

LEMMA NextReady ==
  ASSUME Typed, NEW c \in Clients, Serving(c), NEW i \in 0..MaxClients, SendNext(c, i),
         UNCHANGED clients
  PROVE  /\ h' \in [Clients -> Frames] /\ \A d \in Clients \ {c} : h'[d] = h[d]
         /\ lock' \in Clients \cup {Nobody} /\ Ready(c)'
<1>1. h[c].fd \in Fds /\ h[c].sock \in Clients /\ TypeOK /\ h \in [Clients -> Frames]
  BY DEF Typed, TypeOK, Ready
<1>2. CASE NextChunk(c) /\ lock' = Nobody
  BY <1>1, <1>2, EnterReady DEF NextChunk
<1>3. ASSUME NEW j \in Recipients(c, i), Goto(c, "send", h[c].chunk, j), lock' = c
      PROVE  /\ h' \in [Clients -> Frames] /\ \A d \in Clients \ {c} : h'[d] = h[d]
             /\ lock' \in Clients \cup {Nobody} /\ Ready(c)'
  <2>1. Len(clients) \in Nat /\ Len(clients) <= MaxClients
    BY <1>1, SeqFacts DEF TypeOK
  <2>2. j \in 1..Len(clients) /\ j \in 0..MaxClients
    BY <2>1 DEF Recipients
  <2>3. "send" \in Pcs /\ h[c].chunk \in Seq(Pieces)
    BY <1>1, FrameType DEF Pcs
  <2>4. Turns(c, "send", h[c].fd, h[c].sock, h[c].chunk, j)
    BY <1>1, <1>3, <2>2, <2>3, GotoTurns
  <2> QED
    BY <1>1, <1>3, <2>2, <2>4 DEF Turns, Ready, Serving
<1> QED
  BY <1>2, <1>3 DEF SendNext

LEMMA ForwardTyped ==
  ASSUME Typed, NEW c \in Clients, BroadcastLock(c) \/ Send(c)
  PROVE  Typed'
<1>1. UNCHANGED <<conn, clients, newSocket, mpc, said, joined, inbox, doubled, rushed>>
  BY DEF BroadcastLock, Send
<1>2. Serving(c) /\ (lock = Nobody \/ lock = c)
  BY DEF BroadcastLock, Send, Serving, Typed, Ready
<1>3. PICK i \in 0..MaxClients : SendNext(c, i)
  <2>1. 0 \in 0..MaxClients
    OBVIOUS
  <2>2. h[c].i \in 0..MaxClients
    BY FrameType DEF Typed, TypeOK
  <2> QED
    BY <2>1, <2>2 DEF BroadcastLock, Send
<1>4. /\ h' \in [Clients -> Frames] /\ \A d \in Clients \ {c} : h'[d] = h[d]
      /\ lock' \in Clients \cup {Nobody} /\ Ready(c)'
  BY <1>1, <1>2, <1>3, NextReady
<1>5. /\ heard' \in [Clients -> Seq(Pieces)] /\ fault' \in {"none", "overflow", "sigpipe"}
      /\ peer' \in [Clients -> {"out", "up", "left", "probed"}]
  <2>1. CASE BroadcastLock(c)
    BY <2>1 DEF BroadcastLock, Typed, TypeOK
  <2>2. CASE Send(c)
    <3>1. PICK d : d = conn[clients[h[c].i]]
      OBVIOUS
    <3>2. clients[h[c].i] \in Fds
      <4>1. clients \in Seq(Fds) /\ h[c].i \in 1..Len(clients)
        BY <2>2 DEF Send, Typed, TypeOK, Ready
      <4> QED
        BY <4>1, SeqFacts
    <3>3. d \in Clients \cup {Nobody} /\ h[c].chunk \in Seq(Pieces)
      BY <3>1, <3>2, FrameType DEF Typed, TypeOK
    <3>4. CASE d = Nobody
      BY <2>2, <3>1, <3>4 DEF Send, Typed, TypeOK
    <3>5. CASE d \in Clients /\ d # Nobody
      <4>1. /\ heard' = IF peer[d] = "up" THEN [heard EXCEPT ![d] = heard[d] \o h[c].chunk]
                                          ELSE heard
            /\ peer' = IF peer[d] = "left" THEN [peer EXCEPT ![d] = "probed"] ELSE peer
            /\ fault' \in {"none", "sigpipe"}
        BY <2>2, <3>1, <3>5 DEF Send
      <4>2. /\ heard \in [Clients -> Seq(Pieces)]
            /\ peer \in [Clients -> {"out", "up", "left", "probed"}]
        BY DEF Typed, TypeOK
      <4>3. heard[d] \o h[c].chunk \in Seq(Pieces)
        BY <3>3, <3>5, <4>2, ConcatFacts
      <4> QED
        BY <3>5, <4>1, <4>2, <4>3, UpdateType
    <3> QED
      BY <3>3, <3>4, <3>5
  <2> QED
    BY <2>1, <2>2
<1>6. TypeOK'
  BY <1>1, <1>4, <1>5 DEF Typed, TypeOK
<1>7. \A d \in Clients \ {c} : lock = d => lock' = d /\ UNCHANGED clients
  BY <1>2 DEF Clients, Nobody
<1>8. \A d \in Clients : Ready(d)'
  BY <1>1, <1>4, <1>7, ReadyKept
<1> QED
  BY <1>1, <1>6, <1>8 DEF Typed

LEMMA ClientTyped ==
  ASSUME Typed, NEW c \in Clients, Client(c)
  PROVE  Typed'
<1>1. TypeOK' /\ UNCHANGED <<clients, lock, newSocket, mpc, h>>
  BY ClientFacts, ClientType DEF Server, Typed
<1> QED
  BY <1>1 DEF Typed, Ready, Serving

\* Each variable of the server, each thread and each client's end has its type, in
\* every behaviour: also when two threads read from one connection and another
\* connection has none.
THEOREM TypeCorrect == Spec => []TypeOK
<1>1. Init => Typed
  BY InitIInv DEF IInv, Inside, Typed, Init, Ready, Serving, NoHandler, Frame
<1>2. Typed /\ [Next]_vars => Typed'
  <2> SUFFICES ASSUME Typed, [Next]_vars PROVE Typed'
    OBVIOUS
  <2>1. CASE UNCHANGED vars
    BY <2>1 DEF vars, Typed, TypeOK, Ready, Serving
  <2>2. ASSUME NEW c \in Clients, Accept(c) \/ Client(c)
        PROVE  Typed'
    BY <2>2, AcceptTyped, ClientTyped
  <2>3. ASSUME NEW c \in Clients, Handler(c)
        PROVE  Typed'
    BY <2>3, StartTyped, ReturnTyped, LeaveTyped, ForwardTyped DEF Handler
  <2> QED
    BY <2>1, <2>2, <2>3, AppendTyped DEF Next
<1>3. Typed => TypeOK
  BY DEF Typed
<1> QED
  BY <1>1, <1>2, <1>3, PTL DEF Spec

-----------------------------------------------------------------------------
(* The properties *)

LEMMA ReadAlone ==
  ASSUME IInv, NEW f \in Fds, Announced(f), peer[conn[f]] = "up"
  PROVE  Cardinality(Readers(f)) = 1
<1>1. PICK c \in Clients : c = conn[f] /\ peer[c] = "up" /\ c # Nobody
  BY NClientsAssumption DEF Announced, Open, IInv, Inside, TypeOK
<1>2. \A g \in Fds : conn[g] = c => g = f
  BY <1>1 DEF IInv, Inside, Connected
<1>3. h[c].pc \in {"created", "recv", "lock", "send"}
  <2>1. h[c].pc # "none"
    BY <1>1, <1>2 DEF IInv, Inside, Arrivals, Arriving, Announced
  <2>2. h[c].pc \notin {"close", "remove", "done"}
    BY <1>1 DEF IInv, Inside, Connected, Served
  <2> QED
    BY <2>1, <2>2, FrameType DEF IInv, Inside, TypeOK, Pcs
<1>4. c \in Readers(f)
  <2>1. h[c].pc = "created" => newSocket = f
    BY <1>2 DEF IInv, Inside, Arrivals, Arriving
  <2>2. h[c].pc # "created" => h[c].fd = f
    BY <1>2, <1>3, ServesOwn DEF Serving, IInv
  <2> QED
    BY <1>3, <2>1, <2>2 DEF Readers
<1>5. \A d \in Readers(f) : d = c
  <2> SUFFICES ASSUME NEW d \in Clients, d \in Readers(f) PROVE d = c
    BY DEF Readers
  <2>1. CASE h[d].pc = "created"
    BY <1>1, <2>1 DEF Readers, IInv, Inside, Arrivals, Arriving
  <2>2. CASE h[d].pc # "created"
    <3>1. h[d].fd = f /\ h[d].pc \notin {"none", "remove", "done"}
      BY <2>2 DEF Readers
    <3>2. Serving(d)
      BY <2>2, <3>1, FrameType DEF Serving, IInv, Inside, TypeOK, Pcs
    <3> QED
      BY <1>1, <3>1, <3>2, ServesOwn
  <2> QED
    BY <2>1, <2>2
<1>6. Readers(f) = {c}
  BY <1>4, <1>5
<1> QED
  BY <1>6, FS_Singleton

\* handle_client() runs once for each connected client that is in the table: no
\* descriptor is read by two threads, and none that is up is read by none, in every
\* behaviour up to the first accept() that returns before a handler has read
\* &new_socket.  Hang-ups, descriptors that are used again, a removal that is under
\* way and entries that stand twice in the table are no exceptions.
THEOREM OneHandler == Spec => []OneHandlerUnlessRushed
<1>1. IInv => OneHandlerEach
  BY ReadAlone DEF OneHandlerEach
<1>2. (~rushed => IInv) => OneHandlerUnlessRushed
  BY <1>1 DEF OneHandlerUnlessRushed
<1> QED
  BY <1>2, Invariance, PTL

\* clients[0 .. client_count - 1] lists each connection that main() has announced
\* once, and each number that a handler has closed once more until it removes it.
THEOREM ExactlyListed == Spec => []TableIsExact
<1>1. (~rushed => IInv) => TableIsExact
  BY DEF IInv, Inside, TableIsExact
<1> QED
  BY <1>1, Invariance, PTL

\* broadcast_message() sends nobody its own message, and what one client says to
\* another arrives once and in order, wherever recv() cuts it, while no number
\* stands twice in the table.
THEOREM HeardInOrder == Spec => []HeardOnceInOrder
<1>1. (~rushed => IInv) => HeardOnceInOrder
  BY DEF IInv, HeardOnceInOrder
<1> QED
  BY <1>1, Invariance, PTL
=============================================================================
