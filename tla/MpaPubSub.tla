----------------------------- MODULE MpaPubSub -----------------------------
(***************************************************************************)
(* The publisher and its subscribers (pipe_POSIX/c/3_mpa_request_control). *)
(* A subscriber writes a request to the publisher's request FIFO and waits *)
(* for "OK" on a control FIFO of its own; it retries when none comes.  The *)
(* publisher, once a second, reads the request FIFO, rewrites a data file, *)
(* and writes "x" to every control FIFO it knows.  After its last update a *)
(* subscriber asks to be removed; with its last one the publisher ends.    *)
(*                                                                         *)
(* The pending requests fit the buffer of one read(), of which the code    *)
(* parses the first line; the messages pending in a control FIFO fit one   *)
(* read() as well, and only the first of them is told apart.               *)
(***************************************************************************)
EXTENDS Naturals, SequencesExt

CONSTANTS Subs,       \* the subscriber processes (a bound)
          MaxSub,     \* MAX_SUB, the length of subs[]
          MaxRetries, \* MAX_RETRIES
          MaxUpdates  \* the updates a subscriber waits for

ASSUME BoundsAssumption == MaxSub \in Nat \ {0} /\ MaxRetries \in Nat \ {0}
                                                /\ MaxUpdates \in Nat \ {0}

VARIABLES calm, \* the clocks are kind: an answer that comes beats the timeout, subscribers
                \* read what is there within the publisher's sleep, and no FIFO is
                \* closed between the publisher's open() and write()
          pub,  \* the publisher: program counter, round, and the entry it writes to
          subs, \* subs[0..sub_count-1], by process
          req,  \* what is written to the request FIFO and not read
          file, \* the data file
          sub,  \* the subscribers: program counter, retries, updates
          ctl,  \* the first of the messages in each control FIFO, or "empty"
          torn  \* who has opened a data file with no line in it

vars == <<calm, pub, subs, req, file, sub, ctl, torn>>

Reg(s) == [kind |-> "reg", s |-> s]
Unreg(s) == [kind |-> "unreg", s |-> s]

TypeOK ==
  /\ calm \in BOOLEAN
  /\ pub \in [pc : {"start", "init", "read", "test", "truncate", "flush", "open", "write",
                   "close", "sleep", "exiting", "unlinked", "done", "dead"},
             round : 0..2, msg : {"ok", "x"}, i : 0..MaxSub + 1]
  /\ pub.pc \in {"open", "write", "close"} => pub.i \in 1..Len(subs)
  /\ subs \in Seq(Subs) /\ Len(subs) <= MaxSub
  /\ req \in Seq([kind : {"reg", "unreg"}, s : Subs])
  /\ file \in {"none", "empty", "whole"}
  /\ sub \in [Subs -> [pc : {"new", "req", "send", "sent", "ack", "acked", "poll", "got", "bye",
                             "byeSend", "leave", "done", "failed", "killed"},
                       tries : 0..MaxRetries, updates : 0..MaxUpdates]]
  /\ ctl \in [Subs -> {"empty", "ok", "x"}]
  /\ torn \subseteq Subs

Init == /\ calm \in BOOLEAN
        /\ pub = [pc |-> "start", round |-> 0, msg |-> "x", i |-> 0]
        /\ subs = <<>> /\ req = <<>> /\ file = "none"
        /\ sub = [s \in Subs |-> [pc |-> "new", tries |-> 0, updates |-> 0]]
        /\ ctl = [s \in Subs |-> "empty"]
        /\ torn = {}

-----------------------------------------------------------------------------
(* Who has which FIFO open *)

RequestFifoExists == pub.pc \notin {"start", "unlinked", "done"}
PubReads == pub.pc \notin {"start", "init", "done", "dead"}
RequestWriters == {s \in Subs : sub[s].pc \in {"send", "byeSend"}}

Reading(s) == sub[s].pc \in {"ack", "poll", "got", "bye", "byeSend", "leave"}
Target == subs[pub.i]
HeldByPub(s) == pub.pc \in {"write", "close"} /\ Target = s
MayClose(s) == calm => ~(pub.pc = "write" /\ Target = s)

\* The reader of a control FIFO has gone: what is in it is lost with the last
\* end that is closed.
CtlClosed(s, rest) == ctl' = [ctl EXCEPT ![s] = IF HeldByPub(s) THEN rest ELSE "empty"]

-----------------------------------------------------------------------------
(* The publisher *)

PubGoto(pc) == pub' = [pub EXCEPT !.pc = pc]

Mkfifo == /\ pub.pc = "start"
          /\ PubGoto("init")
          /\ UNCHANGED <<calm, subs, req, file, sub, ctl, torn>>

OpenRequestFifo == /\ pub.pc = "init"
                   /\ PubGoto("read")
                   /\ UNCHANGED <<calm, subs, req, file, sub, ctl, torn>>

\* read_requests() returns; the first call of all is followed by another.
RequestsRead == IF pub.round = 0
                THEN pub' = [pub EXCEPT !.pc = "read", !.round = 1]
                ELSE PubGoto("test")

\* Mutant: the entries are not moved up, the count alone goes down.
Without_Last(s) == IF s \in Range(subs) THEN Front(subs) ELSE subs

\* The first entry with the process's pid is removed, the later ones move up.
Without(s) == LET i == CHOOSE k \in DOMAIN subs :
                         subs[k] = s /\ \A j \in 1..k - 1 : subs[j] # s
              IN IF s \in Range(subs) THEN RemoveAt(subs, i) ELSE subs

\* read() has nothing when no writer has the FIFO open; while one has, the
\* loop spins until it writes.
ReadNothing == /\ pub.pc = "read"
               /\ req = <<>> /\ RequestWriters = {}
               /\ RequestsRead
               /\ UNCHANGED <<calm, subs, req, file, sub, ctl, torn>>

ReadUnregister == /\ pub.pc = "read"
                  /\ req # <<>> /\ Head(req).kind = "unreg"
                  /\ subs' = Without(Head(req).s)
                  /\ req' = <<>>
                  /\ RequestsRead
                  /\ UNCHANGED <<calm, file, sub, ctl, torn>>

\* A request that finds the table full is not answered.
ReadRegister == /\ pub.pc = "read"
                /\ req # <<>> /\ Head(req).kind = "reg"
                /\ IF Len(subs) < MaxSub
                   THEN /\ subs' = Append(subs, Head(req).s)
                        /\ pub' = [pub EXCEPT !.pc = "open", !.msg = "ok", !.i = Len(subs) + 1]
                   ELSE RequestsRead /\ UNCHANGED subs
                /\ req' = <<>>
                /\ UNCHANGED <<calm, file, sub, ctl, torn>>

TestEmpty == /\ pub.pc = "test"
             /\ PubGoto(IF subs = <<>> /\ pub.round = 2 THEN "exiting" ELSE "truncate")
             /\ UNCHANGED <<calm, subs, req, file, sub, ctl, torn>>

\* Mutant: the last entry is left out.
NotifyFrom_OffByOne(i) == IF i < Len(subs)
                          THEN pub' = [pub EXCEPT !.pc = "open", !.msg = "x", !.i = i]
                          ELSE pub' = [pub EXCEPT !.pc = "sleep", !.round = 2]

\* notify_all() goes on to entry i, or main() to sleep(1).
NotifyFrom(i) == IF i <= Len(subs)
                 THEN pub' = [pub EXCEPT !.pc = "open", !.msg = "x", !.i = i]
                 ELSE pub' = [pub EXCEPT !.pc = "sleep", !.round = 2]

\* Mutant: the data file is not closed, its line stays in the buffer.
TruncateFile_NotFlushed == /\ pub.pc = "truncate"
                           /\ file' = "empty"
                           /\ NotifyFrom(1)
                           /\ UNCHANGED <<calm, subs, req, sub, ctl, torn>>

\* fopen("w") empties the data file, the line is there after fclose().
TruncateFile == /\ pub.pc = "truncate"
                /\ file' = "empty"
                /\ PubGoto("flush")
                /\ UNCHANGED <<calm, subs, req, sub, ctl, torn>>

FlushFile == /\ pub.pc = "flush"
             /\ file' = "whole"
             /\ NotifyFrom(1)
             /\ UNCHANGED <<calm, subs, req, sub, ctl, torn>>

Answered == IF pub.msg = "ok" THEN RequestsRead ELSE NotifyFrom(pub.i + 1)

\* open(O_WRONLY) of a control FIFO waits for a reader, and fails when the
\* subscriber has unlinked it.
OpenControl == /\ pub.pc = "open"
               /\ \/ Reading(Target) /\ PubGoto("write")
                  \/ sub[Target].pc = "done" /\ Answered
               /\ UNCHANGED <<calm, subs, req, file, sub, ctl, torn>>

WriteControl == /\ pub.pc = "write"
                /\ Reading(Target)
                /\ ctl' = [ctl EXCEPT ![Target] = IF @ = "empty" THEN pub.msg ELSE @]
                /\ PubGoto("close")
                /\ UNCHANGED <<calm, subs, req, file, sub, torn>>

\* SIGPIPE ends the publisher; its request FIFO stays, with nobody to read it.
WriteBroken == /\ pub.pc = "write"
               /\ ~Reading(Target)
               /\ PubGoto("dead")
               /\ req' = <<>>
               /\ ctl' = [ctl EXCEPT ![Target] = "empty"]
               /\ UNCHANGED <<calm, subs, file, sub, torn>>

CloseControl == /\ pub.pc = "close"
                /\ ctl' = [ctl EXCEPT ![Target] = IF Reading(Target) THEN @ ELSE "empty"]
                /\ Answered
                /\ UNCHANGED <<calm, subs, req, file, sub, torn>>

\* What a subscriber does within the publisher's second.
Busy(s) == \/ sub[s].pc \in {"acked", "got", "leave"}
           \/ sub[s].pc \in {"ack", "poll"} /\ ctl[s] # "empty"

Sleep == /\ pub.pc = "sleep"
         /\ calm => \A s \in Subs : ~Busy(s)
         /\ PubGoto("read")
         /\ UNCHANGED <<calm, subs, req, file, sub, ctl, torn>>

UnlinkRequestFifo == /\ pub.pc = "exiting"
                     /\ PubGoto("unlinked")
                     /\ UNCHANGED <<calm, subs, req, file, sub, ctl, torn>>

PubExit == /\ pub.pc = "unlinked"
           /\ PubGoto("done")
           /\ req' = <<>>
           /\ UNCHANGED <<calm, subs, file, sub, ctl, torn>>

-----------------------------------------------------------------------------
(* A subscriber *)

Goto(s, pc) == sub' = [sub EXCEPT ![s].pc = pc]

Start(s) == /\ sub[s].pc = "new"
            /\ RequestFifoExists
            /\ Goto(s, "req")
            /\ UNCHANGED <<calm, pub, subs, req, file, ctl, torn>>

\* The next attempt, or the last one has been made.
Retry(s) == LET n == sub[s].tries + 1
            IN sub' = [sub EXCEPT ![s].tries = n,
                                  ![s].pc = IF n < MaxRetries THEN "req" ELSE "failed"]

\* open(O_WRONLY) of the request FIFO waits for the publisher to open it.
OpenRequest(s) == /\ sub[s].pc = "req"
                  /\ \/ RequestFifoExists /\ PubReads /\ Goto(s, "send")
                     \/ ~RequestFifoExists /\ Retry(s)
                  /\ UNCHANGED <<calm, pub, subs, req, file, ctl, torn>>

SendRequest(s) == /\ sub[s].pc = "send"
                  /\ IF PubReads
                     THEN req' = Append(req, Reg(s)) /\ Goto(s, "sent")
                     ELSE Goto(s, "killed") /\ UNCHANGED req
                  /\ UNCHANGED <<calm, pub, subs, file, ctl, torn>>

\* open(O_RDONLY | O_NONBLOCK) of its own FIFO, to wait for OK or for updates.
OpenOwn(s) == /\ sub[s].pc \in {"sent", "acked"}
              /\ Goto(s, IF sub[s].pc = "sent" THEN "ack" ELSE "poll")
              /\ UNCHANGED <<calm, pub, subs, req, file, ctl, torn>>

\* The answer: the FIFO is closed, to be opened again for the updates.
ReadAck(s) == /\ sub[s].pc = "ack" /\ ctl[s] = "ok" /\ MayClose(s)
              /\ CtlClosed(s, "empty")
              /\ Goto(s, "acked")
              /\ UNCHANGED <<calm, pub, subs, req, file, torn>>

\* An "x" came first; an OK behind it is read and not seen.
ReadNoAck(s) == /\ sub[s].pc = "ack" /\ ctl[s] = "x"
                /\ ctl' = [ctl EXCEPT ![s] = "empty"]
                /\ UNCHANGED <<calm, pub, subs, req, file, sub, torn>>

\* Nothing will come: the publisher has read the request and ignored it.
Ignored(s) == Reg(s) \notin Range(req) /\ s \notin Range(subs)

Timeout(s) == /\ sub[s].pc = "ack" /\ MayClose(s)
              /\ calm => Ignored(s)
              /\ CtlClosed(s, ctl[s])
              /\ Retry(s)
              /\ UNCHANGED <<calm, pub, subs, req, file, torn>>

\* poll() and read(): whatever has come is an update.
Poll(s) == /\ sub[s].pc = "poll" /\ ctl[s] # "empty"
           /\ ctl' = [ctl EXCEPT ![s] = "empty"]
           /\ Goto(s, "got")
           /\ UNCHANGED <<calm, pub, subs, req, file, torn>>

ReadFile(s) == /\ sub[s].pc = "got"
               /\ torn' = IF file = "empty" THEN torn \cup {s} ELSE torn
               /\ LET n == sub[s].updates + 1
                  IN sub' = [sub EXCEPT ![s].updates = n,
                                        ![s].pc = IF n < MaxUpdates THEN "poll" ELSE "bye"]
               /\ UNCHANGED <<calm, pub, subs, req, file, ctl>>

\* The publisher has not left while this subscriber is listed, so that the FIFO
\* is there; a publisher that has died leaves it with nobody to read it.
OpenUnregister(s) == /\ sub[s].pc = "bye"
                     /\ RequestFifoExists /\ PubReads
                     /\ Goto(s, "byeSend")
                     /\ UNCHANGED <<calm, pub, subs, req, file, ctl, torn>>

SendUnregister(s) == /\ sub[s].pc = "byeSend"
                     /\ IF PubReads
                        THEN /\ req' = Append(req, Unreg(s))
                             /\ Goto(s, "leave")
                             /\ UNCHANGED ctl
                        ELSE /\ Goto(s, "killed")
                             /\ CtlClosed(s, ctl[s])
                             /\ UNCHANGED req
                     /\ UNCHANGED <<calm, pub, subs, file, torn>>

\* The control FIFO is unlinked and, as the process ends, closed.
Leave(s) == /\ sub[s].pc = "leave" /\ MayClose(s)
            /\ CtlClosed(s, ctl[s])
            /\ Goto(s, "done")
            /\ UNCHANGED <<calm, pub, subs, req, file, torn>>

-----------------------------------------------------------------------------
Publisher == \/ Mkfifo \/ OpenRequestFifo
             \/ ReadNothing \/ ReadUnregister \/ ReadRegister
             \/ TestEmpty \/ TruncateFile \/ FlushFile
             \/ OpenControl \/ WriteControl \/ WriteBroken \/ CloseControl
             \/ Sleep \/ UnlinkRequestFifo \/ PubExit

Subscriber(s) == \/ OpenRequest(s) \/ SendRequest(s) \/ OpenOwn(s)
                 \/ ReadAck(s) \/ ReadNoAck(s) \/ Timeout(s)
                 \/ Poll(s) \/ ReadFile(s)
                 \/ OpenUnregister(s) \/ SendUnregister(s) \/ Leave(s)

Next == Publisher \/ \E s \in Subs : Start(s) \/ Subscriber(s)

\* The kernel runs every process; nobody has to start a subscriber.
Fairness == WF_vars(Publisher) /\ \A s \in Subs : WF_vars(Subscriber(s))

Spec == Init /\ [][Next]_vars /\ Fairness

-----------------------------------------------------------------------------
(* Properties *)

\* A subscriber that has been told OK is in the publisher's table until it asks
\* to be removed, whatever was retried, lost or listed twice before; and with kind
\* clocks no retry registers a subscriber a second time.
RegisteredIsListed ==
  /\ \A s \in Subs : sub[s].pc \in {"acked", "poll", "got", "bye", "byeSend"}
                      => s \in Range(subs)
  /\ calm => IsInjective(subs)

\* With kind clocks a woken subscriber finds the line it was woken for.
SeesWholeLine == calm => torn = {}

\* With kind clocks a subscriber that has asked gets all its updates, or gives
\* up, whatever the other subscribers do: lost requests are retried, and the
\* publisher waits for nobody who does not come.
SubscribersEnd ==
  \A s \in Subs : calm /\ sub[s].pc = "req" ~> sub[s].pc \in {"done", "failed", "killed"}
=============================================================================
