----------------------------- MODULE ChatServer -----------------------------
(***************************************************************************)
(* The chat server for many clients (server_multi_adv.c): main() accepts   *)
(* connections and starts a handler thread for each; a handler forwards    *)
(* what its client says to every other entry of the table `clients', until *)
(* the client says "stop chat" or hangs up.                                *)
(*                                                                         *)
(* Descriptors are the kernel's: accept() returns the lowest free number,  *)
(* and a number that has been closed is used again.  A connection keeps no *)
(* bounds between messages: recv() returns any beginning of what has come, *)
(* of several messages, or of a part of one.  A message is two pieces, so  *)
(* that there is a place within it where it can be cut.                    *)
(***************************************************************************)
EXTENDS Naturals, FiniteSets, SequencesExt

CONSTANTS NClients,   \* how many connections are made (a bound)
          Fds,        \* the numbers accept() may return (a bound)
          MaxClients, \* MAX_CLIENTS, the length of the table
          Overtakes,  \* whether accept() may return before a handler has read its
                      \* argument (a bound: FALSE leaves those behaviours out)
          MaxSays     \* how many messages the clients send, all together (a bound)

ASSUME NClientsAssumption == NClients \in Nat
ASSUME FdsAssumption == /\ Fds \subseteq Nat \ {0}
                        /\ IsFiniteSet(Fds) /\ Cardinality(Fds) = NClients
ASSUME BoundsAssumption == MaxClients \in Nat \ {0} /\ MaxSays \in Nat /\ Overtakes \in BOOLEAN

\* The connections, in the order they are accepted.
Clients == 1..NClients
Nobody == 0

VARIABLES conn,      \* the connection behind each open descriptor
          clients,   \* the table of descriptors
          lock,      \* the mutex of the table: its holder
          newSocket, \* main()'s variable, the argument of every handler
          mpc,       \* whether main() is about to accept or to append
          h,         \* the handler thread started for each connection
          peer,      \* the client's end of each connection
          said,      \* who has sent each message
          joined,    \* how many messages had been sent when a client was announced
          inbox,     \* the pieces a client has sent and no recv() has returned
          heard,     \* what each connected client has been sent
          doubled,   \* accept() has returned a number that was in the table
          rushed,    \* accept() has returned before a handler has read its argument
          fault      \* how the server died, or "none"

vars == <<conn, clients, lock, newSocket, mpc, h, peer, said, joined, inbox, heard, doubled, rushed,
          fault>>

NoFd == 0
\* The pieces of the n-th message, from client c; a client's "stop chat" is its last.
Piece(c, n) == [from |-> c, n |-> n]
Message(c, n) == <<Piece(c, 2 * n - 1), Piece(c, 2 * n)>>
StopChat(c) == Message(c, MaxSays + 1)
Pieces == [from : Clients, n : 1..2 * (MaxSays + 1)]

\* strncmp(buffer, "stop chat", 9): all of it is there, at the start.
IsStop(chunk) == Len(chunk) > 1 /\ chunk[1].n = 2 * MaxSays + 1

\* A handler thread: its client_fd, the connection that its recv() waits on, the
\* message that it forwards and the entry that it has come to.
Frame(pc, fd, sock, chunk, i) ==
  [pc |-> pc, fd |-> fd, sock |-> sock, chunk |-> chunk, i |-> i]
NoHandler == Frame("none", NoFd, Nobody, <<>>, 0)
Pcs == {"none", "created", "recv", "lock", "send", "close", "remove", "done"}
Frames == [pc : Pcs, fd : Fds \cup {NoFd}, sock : Clients \cup {Nobody},
           chunk : Seq(Pieces), i : 0..MaxClients]

TypeOK ==
  /\ conn \in [Fds -> Clients \cup {Nobody}]
  /\ clients \in Seq(Fds) /\ Len(clients) <= MaxClients
  /\ lock \in Clients \cup {Nobody}
  /\ newSocket \in Fds \cup {NoFd}
  /\ mpc \in {"accept", "append"}
  /\ h \in [Clients -> Frames]
  /\ peer \in [Clients -> {"out", "up", "left", "probed"}]
  /\ said \in Seq(Clients) /\ Len(said) <= MaxSays
  /\ joined \in [Clients -> 0..MaxSays]
  /\ inbox \in [Clients -> Seq(Pieces)] /\ heard \in [Clients -> Seq(Pieces)]
  /\ doubled \in BOOLEAN /\ rushed \in BOOLEAN
  /\ fault \in {"none", "overflow", "sigpipe"}

Init == /\ conn = [f \in Fds |-> Nobody]
        /\ clients = <<>>
        /\ lock = Nobody
        /\ newSocket = NoFd
        /\ mpc = "accept"
        /\ h = [c \in Clients |-> NoHandler]
        /\ peer = [c \in Clients |-> "out"]
        /\ said = <<>>
        /\ joined = [c \in Clients |-> 0]
        /\ inbox = [c \in Clients |-> <<>>]
        /\ heard = [c \in Clients |-> <<>>]
        /\ doubled = FALSE
        /\ rushed = FALSE
        /\ fault = "none"

Open == {f \in Fds : conn[f] # Nobody}
Listed(f) == \E i \in 1..Len(clients) : clients[i] = f

-----------------------------------------------------------------------------
(* main() *)

\* A client connects and accept() returns the lowest free number.
Accept(c) ==
  /\ mpc = "accept"
  /\ Overtakes \/ \A d \in Clients : h[d].pc # "created"
  /\ peer[c] = "out" /\ \A d \in 1..c - 1 : peer[d] # "out"
  /\ \E f \in Fds \ Open :
        /\ \A g \in Fds \ Open : f <= g
        /\ conn' = [conn EXCEPT ![f] = c]
        /\ newSocket' = f
        /\ doubled' = (doubled \/ Listed(f))
  /\ rushed' = (rushed \/ \E d \in Clients : h[d].pc = "created")
  /\ peer' = [peer EXCEPT ![c] = "up"]
  /\ mpc' = "append"
  /\ UNCHANGED <<clients, lock, h, inbox, heard, fault, said, joined>>

\* clients[client_count++] under the lock, and pthread_create().  The index is
\* not checked.
AppendClient ==
  /\ mpc = "append"
  /\ lock = Nobody
  /\ IF Len(clients) < MaxClients
     THEN \E new \in Clients :
             /\ peer[new] # "out" /\ h[new].pc = "none"
             /\ clients' = Append(clients, newSocket)
             /\ h' = [h EXCEPT ![new] = Frame("created", NoFd, Nobody, <<>>, 0)]
             /\ joined' = [joined EXCEPT ![new] = Len(said)]
             /\ mpc' = "accept"
             /\ UNCHANGED fault
     ELSE /\ fault' = "overflow"
          /\ UNCHANGED <<clients, h, joined, mpc>>
  /\ UNCHANGED <<conn, lock, newSocket, peer, said, inbox, heard, doubled, rushed>>

-----------------------------------------------------------------------------
(* handle_client() *)

\* recv(client_fd): the thread waits on the connection that its descriptor
\* stands for now, or ends if there is none.
EnterRecv(f) == IF f \in Open THEN Frame("recv", f, conn[f], <<>>, 0)
                                ELSE Frame("done", f, Nobody, <<>>, 0)

\* The thread goes on with the same descriptor.
Goto(c, pc, chunk, i) ==
  h' = [h EXCEPT ![c] = Frame(pc, h[c].fd, h[c].sock, chunk, i)]

\* int client_fd = *(int *)arg
HandlerStart(c) ==
  /\ h[c].pc = "created"
  /\ h' = [h EXCEPT ![c] = EnterRecv(newSocket)]
  /\ UNCHANGED <<conn, clients, lock, newSocket, mpc, peer, inbox, heard, doubled, rushed, fault,
                 said, joined>>

\* Mutant: the last of what has come is what recv() returns.
RecvReturn_Newest(c) ==
  /\ h[c].pc = "recv"
  /\ LET s == h[c].sock
     IN \E n \in 1..Len(inbox[s]) :
          /\ inbox' = [inbox EXCEPT ![s] = SubSeq(@, 1, Len(@) - n)]
          /\ LET chunk == SubSeq(inbox[s], Len(inbox[s]) - n + 1, Len(inbox[s]))
             IN IF IsStop(chunk) THEN Goto(c, "close", <<>>, 0) ELSE Goto(c, "lock", chunk, 0)
  /\ UNCHANGED <<conn, clients, lock, newSocket, mpc, peer, heard, doubled, rushed, fault, said,
                 joined>>

\* recv() returns what has arrived, or a beginning of it: "stop chat" is recognised
\* only at the start, and only in one piece.
RecvReturn(c) ==
  /\ h[c].pc = "recv"
  /\ LET s == h[c].sock
     IN \E n \in 1..Len(inbox[s]) :
          /\ inbox' = [inbox EXCEPT ![s] = SubSeq(@, n + 1, Len(@))]
          /\ LET chunk == SubSeq(inbox[s], 1, n)
             IN IF IsStop(chunk) THEN Goto(c, "close", <<>>, 0) ELSE Goto(c, "lock", chunk, 0)
  /\ UNCHANGED <<conn, clients, lock, newSocket, mpc, peer, heard, doubled, rushed, fault, said,
                 joined>>

\* The client is gone: the thread ends, the descriptor and its entry remain.
RecvEnd(c) ==
  /\ h[c].pc = "recv"
  /\ inbox[h[c].sock] = <<>>
  /\ peer[h[c].sock] # "up"
  /\ Goto(c, "done", <<>>, 0)
  /\ UNCHANGED <<conn, clients, lock, newSocket, mpc, peer, inbox, heard, doubled, rushed, fault,
                 said, joined>>

\* Mutant: the entry is removed and the descriptor stays open.
Close_Forgotten(c) ==
  /\ h[c].pc = "close"
  /\ Goto(c, "remove", <<>>, 0)
  /\ UNCHANGED <<conn, clients, lock, newSocket, mpc, peer, inbox, heard, doubled, rushed, fault,
                 said, joined>>

\* Closing a descriptor that is closed already fails and changes nothing.
Close(c) ==
  /\ h[c].pc = "close"
  /\ conn' = [conn EXCEPT ![h[c].fd] = Nobody]
  /\ Goto(c, "remove", <<>>, 0)
  /\ UNCHANGED <<clients, lock, newSocket, mpc, peer, inbox, heard, doubled, rushed, fault, said,
                 joined>>

\* Under the lock: the last entry takes the place of the first one that holds
\* the number.
TakeOut(table, i) == SubSeq([table EXCEPT ![i] = table[Len(table)]], 1, Len(table) - 1)

RemoveEntry(f) ==
  \/ \E i \in 1..Len(clients) :
        /\ clients[i] = f /\ \A j \in 1..i - 1 : clients[j] # f
        /\ clients' = TakeOut(clients, i)
  \/ ~Listed(f) /\ UNCHANGED clients

RemoveClient(c) ==
  /\ h[c].pc = "remove"
  /\ lock = Nobody
  /\ RemoveEntry(h[c].fd)
  /\ Goto(c, "done", <<>>, 0)
  /\ UNCHANGED <<conn, lock, newSocket, mpc, peer, inbox, heard, doubled, rushed, fault, said,
                 joined>>

-----------------------------------------------------------------------------
(* broadcast_message() *)

\* Mutant: the thread forwards one message and ends.
NextChunk_Once(c) == h' = [h EXCEPT ![c] = Frame("done", NoFd, Nobody, <<>>, 0)]

\* Back to the loop of handle_client().
NextChunk(c) == h' = [h EXCEPT ![c] = EnterRecv(h[c].fd)]

\* The entries after the i-th one that are not the sender's.
Recipients(c, i) == {j \in i + 1..Len(clients) : clients[j] # h[c].fd}

\* On to the next recipient, with the lock; after the last one it is released.
SendNext(c, i) ==
  \/ Recipients(c, i) = {} /\ NextChunk(c) /\ lock' = Nobody
  \/ \E j \in Recipients(c, i) :
        /\ \A k \in Recipients(c, i) : j <= k
        /\ Goto(c, "send", h[c].chunk, j)
        /\ lock' = c

BroadcastLock(c) ==
  /\ h[c].pc = "lock"
  /\ lock = Nobody
  /\ SendNext(c, 0)
  /\ UNCHANGED <<conn, clients, newSocket, mpc, peer, said, joined, inbox, heard, doubled,
                 rushed, fault>>

\* Mutant: the loop ends after the first send().
Send_FirstOnly(c) ==
  /\ h[c].pc = "send"
  /\ LET d == conn[clients[h[c].i]]
     IN /\ heard' = IF d # Nobody THEN [heard EXCEPT ![d] = @ \o h[c].chunk] ELSE heard
        /\ NextChunk(c) /\ lock' = Nobody
  /\ UNCHANGED <<conn, clients, newSocket, mpc, peer, said, joined, inbox, doubled, rushed, fault>>

\* send(): a descriptor that is closed changes nothing.  The first message to a
\* client that has left is answered with a reset; a later one, if the reset has
\* arrived, raises SIGPIPE.
Send(c) ==
  /\ h[c].pc = "send"
  /\ LET d == conn[clients[h[c].i]]
     IN IF d = Nobody
        THEN UNCHANGED <<peer, heard, fault>>
        ELSE /\ heard' = IF peer[d] = "up" THEN [heard EXCEPT ![d] = @ \o h[c].chunk] ELSE heard
             /\ peer' = IF peer[d] = "left" THEN [peer EXCEPT ![d] = "probed"] ELSE peer
             /\ fault' \in IF peer[d] = "probed" THEN {"none", "sigpipe"} ELSE {"none"}
  /\ SendNext(c, h[c].i)
  /\ UNCHANGED <<conn, clients, newSocket, mpc, said, joined, inbox, doubled, rushed>>

-----------------------------------------------------------------------------
(* The clients *)

Server == <<conn, clients, lock, newSocket, mpc, h, doubled, rushed, fault>>

Say(c) == /\ peer[c] = "up"
          /\ Len(said) < MaxSays
          /\ said' = Append(said, c)
          /\ inbox' = [inbox EXCEPT ![c] = @ \o Message(c, Len(said) + 1)]
          /\ UNCHANGED <<Server, joined, peer, heard>>

\* The client sends "stop chat" and closes its end.
SayStop(c) == /\ peer[c] = "up"
              /\ inbox' = [inbox EXCEPT ![c] = @ \o StopChat(c)]
              /\ peer' = [peer EXCEPT ![c] = "left"]
              /\ heard' = [heard EXCEPT ![c] = <<>>]
              /\ UNCHANGED <<Server, said, joined>>

\* It is interrupted, or loses its network.
HangUp(c) == /\ peer[c] = "up"
             /\ peer' = [peer EXCEPT ![c] = "left"]
             /\ heard' = [heard EXCEPT ![c] = <<>>]
             /\ UNCHANGED <<Server, said, joined, inbox>>

Client(c) == Say(c) \/ SayStop(c) \/ HangUp(c)

-----------------------------------------------------------------------------
Handler(c) == \/ HandlerStart(c) \/ RecvReturn(c) \/ RecvEnd(c)
              \/ Close(c) \/ RemoveClient(c) \/ BroadcastLock(c) \/ Send(c)

\* A process that has died takes no more steps.
Alive == fault = "none"

Next == Alive /\ (AppendClient \/ \E c \in Clients : Accept(c) \/ Handler(c) \/ Client(c))

\* The threads of the server keep running; nothing makes a client do anything.
\* Clients send finitely often, so a thread that waits for the lock finds it
\* free for good in the end.
Fairness == /\ WF_vars(Alive /\ AppendClient)
            /\ \A c \in Clients : WF_vars(Alive /\ Handler(c))

Spec == Init /\ [][Next]_vars /\ Fairness

-----------------------------------------------------------------------------
(* Properties *)

\* main() has put the descriptor in the table and started its thread.
Announced(f) == f \in Open /\ ~(mpc = "append" /\ newSocket = f)

\* The handlers that read, or are about to read, from a descriptor.
Readers(f) == {c \in Clients : IF h[c].pc = "created" THEN newSocket = f
                               ELSE /\ h[c].pc \notin {"none", "remove", "done"}
                                    /\ h[c].fd = f}

\* Every connected client has one thread that forwards its messages.
OneHandlerEach ==
  \A f \in Fds : Announced(f) /\ peer[conn[f]] = "up" => Cardinality(Readers(f)) = 1

\* An accept() that overtakes the start of a handler is the only way to break that:
\* no hang-up, no descriptor that is used again, no order of the threads does.
OneHandlerUnlessRushed == ~rushed => OneHandlerEach

\* The table lists each announced connection once, and, for each handler between
\* its close() and its removal, the number it has given back once more.
TableMatches ==
  \A f \in Fds :
    Cardinality({i \in 1..Len(clients) : clients[i] = f})
      = (IF Announced(f) THEN 1 ELSE 0)
        + Cardinality({c \in Clients : h[c].pc = "remove" /\ h[c].fd = f})
TableIsExact == ~rushed => TableMatches

\* No client is sent its own message, though descriptors are compared and their
\* numbers are used again.  What it hears of another is in the order it was said,
\* and nothing twice, unless a number has stood twice in the table.
OrderlyHearing ==
  \A d \in Clients :
    /\ \A m \in Range(heard[d]) : m.from # d
    /\ ~doubled => \A i, j \in 1..Len(heard[d]) :
         i < j /\ heard[d][i].from = heard[d][j].from => heard[d][i].n < heard[d][j].n
HeardOnceInOrder == ~rushed => OrderlyHearing

\* Whoever is in the table when a message is sent, and stays, gets to hear all of it.
Due(d) == IF peer[d] = "up" /\ h[d].pc # "none"
          THEN {n \in joined[d] + 1..Len(said) : said[n] # d} ELSE {}
EveryoneHears ==
  []<>(\/ ~Alive \/ rushed
       \/ \A d \in Clients, n \in 1..MaxSays :
            n \in Due(d) => {2 * n - 1, 2 * n} \subseteq {m.n : m \in Range(heard[d])})
=============================================================================
