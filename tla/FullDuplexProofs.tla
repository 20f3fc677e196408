-------------------------- MODULE FullDuplexProofs --------------------------
(***************************************************************************)
(* The two processes of FullDuplex stay in step, for any alphabet, any     *)
(* buffer size, any width of w and r and any number of interruptions.      *)
(*                                                                         *)
(* There is one letter under way at a time.  It is with A that sends it,   *)
(* in the channel to B or in B's hands on the way in, with B that answers  *)
(* it, in the channel to A or in A's hands, or it has been answered.  An   *)
(* interrupted A leaves channels and letter as they were: B sees a process *)
(* that does nothing more.  The invariant speaks of that frozen A, until A *)
(* has been started again and has initialised both channels.               *)
(***************************************************************************)
EXTENDS FullDuplex, TLAPS

-----------------------------------------------------------------------------
(* Types *)

Places == {"idle", "lock", "critical", "unlock", "post"}
Channels(S) == [w : 0..Width - 1, r : 0..Width - 1, buf : [0..BufSize - 1 -> S],
                empty : Nat, full : Nat, mutex : Nat]
Calls(S) == [at : Places, c : S]

\* Only letters, and the zero bytes of a new object, are in the channel to B.
TypeOK ==
  /\ a2b \in Channels(Letters) /\ a2bOp \in [{A, B} -> Calls(Letters)]
  /\ b2a \in Channels(Chars) /\ b2aOp \in [{A, B} -> Calls(Chars)]
  /\ aAt \in {"init a2b", "init b2a", "send", "receive", "sleep", "ended", "killed"}
  /\ aChar \in First..Last + 1 /\ (aChar = Last + 1 => aAt = "ended")
  /\ aReply \in Chars
  /\ bAt \in {"not started", "receive", "send", "ended", "stuck"}
  /\ bChar \in Letters
  /\ starts \in Nat /\ ready \in BOOLEAN /\ disturbed \in BOOLEAN

-----------------------------------------------------------------------------
(* One letter on a channel *)

InMutex(s) == s.at \in {"critical", "unlock"}

\* The letter x has been written and not been read.
Stored(c, s, t) == c.full = 1 \/ s.at \in {"unlock", "post"} \/ t.at \in {"lock", "critical"}

\* A channel c on which x is the only letter: its sender s is in the call or the
\* letter waits, or its receiver t is in the call, or none of these.
OneLetter(c, s, t, x) ==
  /\ c.full \in {0, 1}
  /\ s.at # "idle" => t.at = "idle"
  /\ c.full = 1 => s.at = "idle" /\ t.at = "idle"
  /\ c.empty = IF c.full = 1 \/ s.at # "idle" \/ t.at # "idle" THEN BufSize - 1 ELSE BufSize
  /\ c.mutex = IF InMutex(s) \/ InMutex(t) THEN 0 ELSE 1
  /\ c.w = IF Stored(c, s, t) THEN (c.r + 1) % Width ELSE c.r
  /\ Stored(c, s, t) => c.buf[c.r % BufSize] = x
  /\ s.at # "idle" => s.c = x
  /\ t.at \in {"unlock", "post"} => t.c = x

\* A step of channel_send() by a sender that is at s and that sends x.
Sends(c, s, d, u, x) ==
  \/ /\ s.at = "idle" /\ c.empty > 0 /\ u = [at |-> "lock", c |-> x]
     /\ d.empty = c.empty - 1
     /\ d.w = c.w /\ d.r = c.r /\ d.buf = c.buf /\ d.full = c.full /\ d.mutex = c.mutex
  \/ /\ s.at = "lock" /\ c.mutex > 0 /\ u = [at |-> "critical", c |-> s.c]
     /\ d.mutex = c.mutex - 1
     /\ d.w = c.w /\ d.r = c.r /\ d.buf = c.buf /\ d.full = c.full /\ d.empty = c.empty
  \/ /\ s.at = "critical" /\ u = [at |-> "unlock", c |-> s.c]
     /\ d.w = (c.w + 1) % Width /\ d.buf[c.w % BufSize] = s.c
     /\ d.r = c.r /\ d.full = c.full /\ d.empty = c.empty /\ d.mutex = c.mutex
  \/ /\ s.at = "unlock" /\ u = [at |-> "post", c |-> s.c]
     /\ d.mutex = c.mutex + 1
     /\ d.w = c.w /\ d.r = c.r /\ d.buf = c.buf /\ d.full = c.full /\ d.empty = c.empty
  \/ /\ s.at = "post" /\ u = [at |-> "idle", c |-> s.c]
     /\ d.full = c.full + 1
     /\ d.w = c.w /\ d.r = c.r /\ d.buf = c.buf /\ d.empty = c.empty /\ d.mutex = c.mutex

\* A step of channel_recv() by a receiver that is at t.
Receives(c, t, d, u) ==
  \/ /\ t.at = "idle" /\ c.full > 0 /\ u = [at |-> "lock", c |-> t.c]
     /\ d.full = c.full - 1
     /\ d.w = c.w /\ d.r = c.r /\ d.buf = c.buf /\ d.empty = c.empty /\ d.mutex = c.mutex
  \/ /\ t.at = "lock" /\ c.mutex > 0 /\ u = [at |-> "critical", c |-> t.c]
     /\ d.mutex = c.mutex - 1
     /\ d.w = c.w /\ d.r = c.r /\ d.buf = c.buf /\ d.full = c.full /\ d.empty = c.empty
  \/ /\ t.at = "critical" /\ u = [at |-> "unlock", c |-> c.buf[c.r % BufSize]]
     /\ d.r = (c.r + 1) % Width
     /\ d.w = c.w /\ d.buf = c.buf /\ d.full = c.full /\ d.empty = c.empty /\ d.mutex = c.mutex
  \/ /\ t.at = "unlock" /\ u = [at |-> "post", c |-> t.c]
     /\ d.mutex = c.mutex + 1
     /\ d.w = c.w /\ d.r = c.r /\ d.buf = c.buf /\ d.full = c.full /\ d.empty = c.empty
  \/ /\ t.at = "post" /\ u = [at |-> "idle", c |-> t.c]
     /\ d.empty = c.empty + 1
     /\ d.w = c.w /\ d.r = c.r /\ d.buf = c.buf /\ d.full = c.full /\ d.mutex = c.mutex

-----------------------------------------------------------------------------
(* The inductive invariant *)

\* Where the letter is while A waits for the reply to it.
ToB == a2b.full # 0 \/ a2bOp[B].at # "idle"
WithB == bAt = "send"
ToA(t) == b2a.full # 0 \/ t.at # "idle"
Moment(at, t) ==
  \/ at # "receive" /\ ~ToB /\ ~WithB /\ ~ToA(t)
  \/ at = "receive" /\ ToB /\ ~WithB /\ ~ToA(t)
  \/ at = "receive" /\ ~ToB /\ WithB /\ ~ToA(t)
  \/ at = "receive" /\ ~ToB /\ ~WithB /\ ToA(t)

\* A is at `at`, in its calls s and t, and its letter is x.
InStep(at, s, t, x) ==
  /\ x \in Letters
  /\ OneLetter(a2b, s, a2bOp[B], x)
  /\ OneLetter(b2a, b2aOp[B], t, Upper(x))
  /\ s.at # "idle" => at = "send"
  /\ a2bOp[B].at # "idle" => bAt = "receive"
  /\ b2aOp[B].at # "idle" => bAt = "send"
  /\ bAt = "send" => bChar = x
  /\ bAt # "stuck"
  /\ Moment(at, t)
  /\ bAt = "not started" => ~ToA(t)

Frozen == \E at \in {"send", "receive", "sleep"}, s \in Calls(Letters), t \in Calls(Chars), x \in Letters :
            InStep(at, s, t, x)

NoCalls(p) == a2bOp[p].at = "idle" /\ b2aOp[p].at = "idle"

\* Before both channels have been initialised for the first time.
Starting ==
  /\ bAt = "not started" /\ NoCalls(A) /\ NoCalls(B)
  /\ aAt \in {"init a2b", "init b2a", "killed"}
  /\ aAt = "init b2a" => OneLetter(a2b, a2bOp[A], a2bOp[B], First) /\ a2b.full = 0

\* Afterwards: an interrupted A, one that initialises a2b again and one that has
\* done so, and one that runs.
Running ==
  /\ aAt \in {"killed", "init a2b"} => Frozen
  /\ aAt = "init b2a" => InStep("send", a2bOp[A], b2aOp[A], First)
  /\ aAt \in {"send", "receive", "sleep"} => InStep(aAt, a2bOp[A], b2aOp[A], aChar)
  /\ aAt = "sleep" => aReply = Upper(aChar)
  /\ aAt = "ended" => InStep("sleep", a2bOp[A], b2aOp[A], Last)

Synchrony == ~disturbed => /\ aAt \in {"init a2b", "init b2a"} => NoCalls(A) /\ aChar = First
                           /\ ~ready => Starting
                           /\ ready => Running
IInv == TypeOK /\ Synchrony

-----------------------------------------------------------------------------
(* One letter on a channel *)

USE SizesAssumption, ProcessesAssumption, LettersAssumption

\* A sender that begins only when nothing is under way leaves one letter on the
\* channel, and one waiting when its call returns.
LEMMA SendKeeps ==
  ASSUME NEW c, NEW s, NEW t, NEW d, NEW u, NEW x, c.r \in 0..Width - 1,
         OneLetter(c, s, t, x), Sends(c, s, d, u, x), t.at = "idle",
         s.at = "idle" => c.full = 0
  PROVE  OneLetter(d, u, t, x) /\ d.full = IF u.at = "idle" THEN 1 ELSE 0
<1>1. CASE s.at = "idle"
  BY <1>1 DEF OneLetter, Sends, Stored, InMutex
<1>2. CASE s.at = "lock"
  BY <1>2 DEF OneLetter, Sends, Stored, InMutex
<1>3. CASE s.at = "critical"
  BY <1>3 DEF OneLetter, Sends, Stored, InMutex
<1>4. CASE s.at = "unlock"
  BY <1>4 DEF OneLetter, Sends, Stored, InMutex
<1>5. CASE s.at = "post"
  BY <1>5 DEF OneLetter, Sends, Stored, InMutex
<1> QED
  BY <1>1, <1>2, <1>3, <1>4, <1>5 DEF Sends

\* A receiver that goes on takes that letter; its call returns with it.
LEMMA ReceiveKeeps ==
  ASSUME NEW c, NEW s, NEW t, NEW d, NEW u, NEW x, c.r \in 0..Width - 1,
         OneLetter(c, s, t, x), Receives(c, t, d, u)
  PROVE  /\ OneLetter(d, s, u, x)
         /\ s.at = "idle" /\ d.full = 0
         /\ c.full = 1 \/ t.at # "idle"
         /\ u.at = "idle" => u.c = x
<1>1. CASE t.at = "idle"
  BY <1>1 DEF OneLetter, Receives, Stored, InMutex
<1>2. CASE t.at = "lock"
  BY <1>2 DEF OneLetter, Receives, Stored, InMutex
<1>3. CASE t.at = "critical"
  BY <1>3 DEF OneLetter, Receives, Stored, InMutex
<1>4. CASE t.at = "unlock"
  BY <1>4 DEF OneLetter, Receives, Stored, InMutex
<1>5. CASE t.at = "post"
  BY <1>5 DEF OneLetter, Receives, Stored, InMutex
<1> QED
  BY <1>1, <1>2, <1>3, <1>4, <1>5 DEF Receives

\* On a channel where nothing is under way the next letter may be any.
LEMMA QuietChannel ==
  ASSUME NEW c, NEW s, NEW t, NEW x, OneLetter(c, s, t, x),
         c.full = 0, s.at = "idle", t.at = "idle",
         NEW u, NEW v, NEW y, u.at = "idle", v.at = "idle"
  PROVE  OneLetter(c, u, v, y)
  BY DEF OneLetter, Stored, InMutex

-----------------------------------------------------------------------------
(* The operations of Channel on the two channels *)

\* The steps of the calls, on a channel c and with the calls o on it.
Sending(c, o, p, x, d, e) ==
  \/ /\ o[p].at = "idle" /\ c.empty > 0
     /\ d = [c EXCEPT !.empty = @ - 1] /\ e = [o EXCEPT ![p] = [at |-> "lock", c |-> x]]
  \/ /\ o[p].at = "lock" /\ c.mutex > 0
     /\ d = [c EXCEPT !.mutex = @ - 1] /\ e = [o EXCEPT ![p].at = "critical"]
  \/ /\ o[p].at = "critical"
     /\ d = [c EXCEPT !.buf[c.w % BufSize] = o[p].c, !.w = (@ + 1) % Width]
     /\ e = [o EXCEPT ![p].at = "unlock"]
  \/ /\ o[p].at = "unlock"
     /\ d = [c EXCEPT !.mutex = @ + 1] /\ e = [o EXCEPT ![p].at = "post"]
  \/ /\ o[p].at = "post"
     /\ d = [c EXCEPT !.full = @ + 1] /\ e = [o EXCEPT ![p].at = "idle"]

Receiving(c, o, p, d, e) ==
  \/ /\ o[p].at = "idle" /\ c.full > 0
     /\ d = [c EXCEPT !.full = @ - 1] /\ e = [o EXCEPT ![p].at = "lock"]
  \/ /\ o[p].at = "lock" /\ c.mutex > 0
     /\ d = [c EXCEPT !.mutex = @ - 1] /\ e = [o EXCEPT ![p].at = "critical"]
  \/ /\ o[p].at = "critical"
     /\ d = [c EXCEPT !.r = (@ + 1) % Width]
     /\ e = [o EXCEPT ![p] = [at |-> "unlock", c |-> c.buf[c.r % BufSize]]]
  \/ /\ o[p].at = "unlock"
     /\ d = [c EXCEPT !.mutex = @ + 1] /\ e = [o EXCEPT ![p].at = "post"]
  \/ /\ o[p].at = "post"
     /\ d = [c EXCEPT !.empty = @ + 1] /\ e = [o EXCEPT ![p].at = "idle"]

LEMMA CellFacts ==
  ASSUME NEW n \in 0..Width - 1
  PROVE  n % BufSize \in 0..BufSize - 1 /\ (n + 1) % Width \in 0..Width - 1
  OBVIOUS

LEMMA CountFacts ==
  ASSUME NEW S, NEW c \in Channels(S), NEW n \in Nat
  PROVE  /\ [c EXCEPT !.empty = n] \in Channels(S)
         /\ [c EXCEPT !.full = n] \in Channels(S)
         /\ [c EXCEPT !.mutex = n] \in Channels(S)
  BY DEF Channels

\* Types, and the step as seen by Sends and Receives, field by field.
LEMMA SendFacts ==
  ASSUME NEW S, NEW c \in Channels(S), NEW o \in [{A, B} -> Calls(S)], NEW p \in {A, B},
         NEW x \in S, NEW d, NEW e, Sending(c, o, p, x, d, e)
  PROVE  /\ d \in Channels(S) /\ e \in [{A, B} -> Calls(S)]
         /\ Sends(c, o[p], d, e[p], x) /\ \A q \in {A, B} : q # p => e[q] = o[q]
<1>1. CASE /\ o[p].at = "idle" /\ c.empty > 0
         /\ d = [c EXCEPT !.empty = @ - 1]
         /\ e = [o EXCEPT ![p] = [at |-> "lock", c |-> x]]
  <2>1. /\ e \in [{A, B} -> Calls(S)] /\ e[p] = [at |-> "lock", c |-> x]
        /\ \A q \in {A, B} : q # p => e[q] = o[q]
    BY <1>1 DEF Places, Calls
  <2>2. d \in Channels(S)
    <3>1. c.empty - 1 \in Nat
      BY <1>1 DEF Channels
    <3> QED
      BY <1>1, <3>1, CountFacts
  <2>3. d.empty = c.empty - 1
    BY <1>1 DEF Channels, Calls
  <2>4. d.w = c.w /\ d.r = c.r /\ d.buf = c.buf /\ d.full = c.full /\ d.mutex = c.mutex
    BY <1>1 DEF Channels, Calls
  <2> QED
    BY <1>1, <2>1, <2>2, <2>3, <2>4 DEF Sends
<1>2. CASE /\ o[p].at = "lock" /\ c.mutex > 0
         /\ d = [c EXCEPT !.mutex = @ - 1]
         /\ e = [o EXCEPT ![p].at = "critical"]
  <2>1. /\ e \in [{A, B} -> Calls(S)] /\ e[p] = [at |-> "critical", c |-> o[p].c]
        /\ \A q \in {A, B} : q # p => e[q] = o[q]
    BY <1>2 DEF Places, Calls
  <2>2. d \in Channels(S)
    <3>1. c.mutex - 1 \in Nat
      BY <1>2 DEF Channels
    <3> QED
      BY <1>2, <3>1, CountFacts
  <2>3. d.mutex = c.mutex - 1
    BY <1>2 DEF Channels, Calls
  <2>4. d.w = c.w /\ d.r = c.r /\ d.buf = c.buf /\ d.empty = c.empty /\ d.full = c.full
    BY <1>2 DEF Channels, Calls
  <2> QED
    BY <1>2, <2>1, <2>2, <2>3, <2>4 DEF Sends
<1>3. CASE /\ o[p].at = "critical"
         /\ d = [c EXCEPT !.buf[c.w % BufSize] = o[p].c, !.w = (@ + 1) % Width]
         /\ e = [o EXCEPT ![p].at = "unlock"]
  <2>1. /\ e \in [{A, B} -> Calls(S)] /\ e[p] = [at |-> "unlock", c |-> o[p].c]
        /\ \A q \in {A, B} : q # p => e[q] = o[q]
    BY <1>3 DEF Places, Calls
  <2>2. d \in Channels(S)
    BY <1>3, CellFacts DEF Channels, Calls
  <2>3. d.w = (c.w + 1) % Width /\ d.buf[c.w % BufSize] = o[p].c
    BY <1>3, CellFacts DEF Channels, Calls
  <2>4. d.r = c.r /\ d.empty = c.empty /\ d.full = c.full /\ d.mutex = c.mutex
    BY <1>3, CellFacts DEF Channels, Calls
  <2> QED
    BY <1>3, <2>1, <2>2, <2>3, <2>4 DEF Sends
<1>4. CASE /\ o[p].at = "unlock"
         /\ d = [c EXCEPT !.mutex = @ + 1]
         /\ e = [o EXCEPT ![p].at = "post"]
  <2>1. /\ e \in [{A, B} -> Calls(S)] /\ e[p] = [at |-> "post", c |-> o[p].c]
        /\ \A q \in {A, B} : q # p => e[q] = o[q]
    BY <1>4 DEF Places, Calls
  <2>2. d \in Channels(S)
    <3>1. c.mutex + 1 \in Nat
      BY <1>4 DEF Channels
    <3> QED
      BY <1>4, <3>1, CountFacts
  <2>3. d.mutex = c.mutex + 1
    BY <1>4 DEF Channels, Calls
  <2>4. d.w = c.w /\ d.r = c.r /\ d.buf = c.buf /\ d.empty = c.empty /\ d.full = c.full
    BY <1>4 DEF Channels, Calls
  <2> QED
    BY <1>4, <2>1, <2>2, <2>3, <2>4 DEF Sends
<1>5. CASE /\ o[p].at = "post"
         /\ d = [c EXCEPT !.full = @ + 1]
         /\ e = [o EXCEPT ![p].at = "idle"]
  <2>1. /\ e \in [{A, B} -> Calls(S)] /\ e[p] = [at |-> "idle", c |-> o[p].c]
        /\ \A q \in {A, B} : q # p => e[q] = o[q]
    BY <1>5 DEF Places, Calls
  <2>2. d \in Channels(S)
    <3>1. c.full + 1 \in Nat
      BY <1>5 DEF Channels
    <3> QED
      BY <1>5, <3>1, CountFacts
  <2>3. d.full = c.full + 1
    BY <1>5 DEF Channels, Calls
  <2>4. d.w = c.w /\ d.r = c.r /\ d.buf = c.buf /\ d.empty = c.empty /\ d.mutex = c.mutex
    BY <1>5 DEF Channels, Calls
  <2> QED
    BY <1>5, <2>1, <2>2, <2>3, <2>4 DEF Sends
<1> QED
  BY <1>1, <1>2, <1>3, <1>4, <1>5 DEF Sending

LEMMA ReadFacts ==
  ASSUME NEW S, NEW c \in Channels(S)
  PROVE  c.buf[c.r % BufSize] \in S
  BY CellFacts DEF Channels

LEMMA ReceiveFacts ==
  ASSUME NEW S, NEW c \in Channels(S), NEW o \in [{A, B} -> Calls(S)], NEW p \in {A, B},
         NEW d, NEW e, Receiving(c, o, p, d, e)
  PROVE  /\ d \in Channels(S) /\ e \in [{A, B} -> Calls(S)]
         /\ Receives(c, o[p], d, e[p]) /\ \A q \in {A, B} : q # p => e[q] = o[q]
<1>1. CASE /\ o[p].at = "idle" /\ c.full > 0
         /\ d = [c EXCEPT !.full = @ - 1]
         /\ e = [o EXCEPT ![p].at = "lock"]
  <2>1. /\ e \in [{A, B} -> Calls(S)] /\ e[p] = [at |-> "lock", c |-> o[p].c]
        /\ \A q \in {A, B} : q # p => e[q] = o[q]
    BY <1>1 DEF Places, Calls
  <2>2. d \in Channels(S)
    <3>1. c.full - 1 \in Nat
      BY <1>1 DEF Channels
    <3> QED
      BY <1>1, <3>1, CountFacts
  <2>3. d.full = c.full - 1
    BY <1>1 DEF Channels, Calls
  <2>4. d.w = c.w /\ d.r = c.r /\ d.buf = c.buf /\ d.empty = c.empty /\ d.mutex = c.mutex
    BY <1>1 DEF Channels, Calls
  <2> QED
    BY <1>1, <2>1, <2>2, <2>3, <2>4 DEF Receives
<1>2. CASE /\ o[p].at = "lock" /\ c.mutex > 0
         /\ d = [c EXCEPT !.mutex = @ - 1]
         /\ e = [o EXCEPT ![p].at = "critical"]
  <2>1. /\ e \in [{A, B} -> Calls(S)] /\ e[p] = [at |-> "critical", c |-> o[p].c]
        /\ \A q \in {A, B} : q # p => e[q] = o[q]
    BY <1>2 DEF Places, Calls
  <2>2. d \in Channels(S)
    <3>1. c.mutex - 1 \in Nat
      BY <1>2 DEF Channels
    <3> QED
      BY <1>2, <3>1, CountFacts
  <2>3. d.mutex = c.mutex - 1
    BY <1>2 DEF Channels, Calls
  <2>4. d.w = c.w /\ d.r = c.r /\ d.buf = c.buf /\ d.empty = c.empty /\ d.full = c.full
    BY <1>2 DEF Channels, Calls
  <2> QED
    BY <1>2, <2>1, <2>2, <2>3, <2>4 DEF Receives
<1>3. CASE /\ o[p].at = "critical"
         /\ d = [c EXCEPT !.r = (@ + 1) % Width]
         /\ e = [o EXCEPT ![p] = [at |-> "unlock", c |-> c.buf[c.r % BufSize]]]
  <2>1. /\ e \in [{A, B} -> Calls(S)] /\ e[p] = [at |-> "unlock", c |-> c.buf[c.r % BufSize]]
        /\ \A q \in {A, B} : q # p => e[q] = o[q]
    BY <1>3, ReadFacts DEF Places, Calls
  <2>2. d \in Channels(S)
    BY <1>3, CellFacts DEF Channels, Calls
  <2>3. d.r = (c.r + 1) % Width
    BY <1>3, CellFacts DEF Channels, Calls
  <2>4. d.w = c.w /\ d.buf = c.buf /\ d.empty = c.empty /\ d.full = c.full /\ d.mutex = c.mutex
    BY <1>3, CellFacts DEF Channels, Calls
  <2> QED
    BY <1>3, <2>1, <2>2, <2>3, <2>4 DEF Receives
<1>4. CASE /\ o[p].at = "unlock"
         /\ d = [c EXCEPT !.mutex = @ + 1]
         /\ e = [o EXCEPT ![p].at = "post"]
  <2>1. /\ e \in [{A, B} -> Calls(S)] /\ e[p] = [at |-> "post", c |-> o[p].c]
        /\ \A q \in {A, B} : q # p => e[q] = o[q]
    BY <1>4 DEF Places, Calls
  <2>2. d \in Channels(S)
    <3>1. c.mutex + 1 \in Nat
      BY <1>4 DEF Channels
    <3> QED
      BY <1>4, <3>1, CountFacts
  <2>3. d.mutex = c.mutex + 1
    BY <1>4 DEF Channels, Calls
  <2>4. d.w = c.w /\ d.r = c.r /\ d.buf = c.buf /\ d.empty = c.empty /\ d.full = c.full
    BY <1>4 DEF Channels, Calls
  <2> QED
    BY <1>4, <2>1, <2>2, <2>3, <2>4 DEF Receives
<1>5. CASE /\ o[p].at = "post"
         /\ d = [c EXCEPT !.empty = @ + 1]
         /\ e = [o EXCEPT ![p].at = "idle"]
  <2>1. /\ e \in [{A, B} -> Calls(S)] /\ e[p] = [at |-> "idle", c |-> o[p].c]
        /\ \A q \in {A, B} : q # p => e[q] = o[q]
    BY <1>5 DEF Places, Calls
  <2>2. d \in Channels(S)
    <3>1. c.empty + 1 \in Nat
      BY <1>5 DEF Channels
    <3> QED
      BY <1>5, <3>1, CountFacts
  <2>3. d.empty = c.empty + 1
    BY <1>5 DEF Channels, Calls
  <2>4. d.w = c.w /\ d.r = c.r /\ d.buf = c.buf /\ d.full = c.full /\ d.mutex = c.mutex
    BY <1>5 DEF Channels, Calls
  <2> QED
    BY <1>5, <2>1, <2>2, <2>3, <2>4 DEF Receives
<1> QED
  BY <1>1, <1>2, <1>3, <1>4, <1>5 DEF Receiving

LEMMA A2BSends ==
  ASSUME TypeOK, NEW x \in Letters, A2B!SendWaitEmpty(A, x) \/ A2B!SendStep(A)
  PROVE  /\ a2b' \in Channels(Letters) /\ a2bOp' \in [{A, B} -> Calls(Letters)]
         /\ Sends(a2b, a2bOp[A], a2b', a2bOp'[A], x) /\ a2bOp'[B] = a2bOp[B]
<1>1. Sending(a2b, a2bOp, A, x, a2b', a2bOp')
  BY DEF Sending, A2B!SendWaitEmpty, A2B!SendStep, A2B!WaitMutex, A2B!SendPut, A2B!PostMutex,
         A2B!SendPostFull, A2B!Goto
<1>2. a2b \in Channels(Letters) /\ a2bOp \in [{A, B} -> Calls(Letters)] /\ A \in {A, B} /\ B \in {A, B}
  BY DEF TypeOK
<1> QED
  BY <1>1, <1>2, SendFacts

LEMMA A2BReceives ==
  ASSUME TypeOK, A2B!RecvWaitFull(B) \/ A2B!RecvStep(B)
  PROVE  /\ a2b' \in Channels(Letters) /\ a2bOp' \in [{A, B} -> Calls(Letters)]
         /\ Receives(a2b, a2bOp[B], a2b', a2bOp'[B]) /\ a2bOp'[A] = a2bOp[A]
<1>1. Receiving(a2b, a2bOp, B, a2b', a2bOp')
  BY DEF Receiving, A2B!RecvWaitFull, A2B!RecvStep, A2B!WaitMutex, A2B!RecvTake, A2B!PostMutex,
         A2B!RecvPostEmpty, A2B!Goto
<1>2. a2b \in Channels(Letters) /\ a2bOp \in [{A, B} -> Calls(Letters)] /\ A \in {A, B} /\ B \in {A, B}
  BY DEF TypeOK
<1> QED
  BY <1>1, <1>2, ReceiveFacts

LEMMA B2ASends ==
  ASSUME TypeOK, NEW x \in Chars, B2A!SendWaitEmpty(B, x) \/ B2A!SendStep(B)
  PROVE  /\ b2a' \in Channels(Chars) /\ b2aOp' \in [{A, B} -> Calls(Chars)]
         /\ Sends(b2a, b2aOp[B], b2a', b2aOp'[B], x) /\ b2aOp'[A] = b2aOp[A]
<1>1. Sending(b2a, b2aOp, B, x, b2a', b2aOp')
  BY DEF Sending, B2A!SendWaitEmpty, B2A!SendStep, B2A!WaitMutex, B2A!SendPut, B2A!PostMutex,
         B2A!SendPostFull, B2A!Goto
<1>2. b2a \in Channels(Chars) /\ b2aOp \in [{A, B} -> Calls(Chars)] /\ A \in {A, B} /\ B \in {A, B}
  BY DEF TypeOK
<1> QED
  BY <1>1, <1>2, SendFacts

LEMMA B2AReceives ==
  ASSUME TypeOK, B2A!RecvWaitFull(A) \/ B2A!RecvStep(A)
  PROVE  /\ b2a' \in Channels(Chars) /\ b2aOp' \in [{A, B} -> Calls(Chars)]
         /\ Receives(b2a, b2aOp[A], b2a', b2aOp'[A]) /\ b2aOp'[B] = b2aOp[B]
<1>1. Receiving(b2a, b2aOp, A, b2a', b2aOp')
  BY DEF Receiving, B2A!RecvWaitFull, B2A!RecvStep, B2A!WaitMutex, B2A!RecvTake, B2A!PostMutex,
         B2A!RecvPostEmpty, B2A!Goto
<1>2. b2a \in Channels(Chars) /\ b2aOp \in [{A, B} -> Calls(Chars)] /\ A \in {A, B} /\ B \in {A, B}
  BY DEF TypeOK
<1> QED
  BY <1>1, <1>2, ReceiveFacts

-----------------------------------------------------------------------------
(* Type correctness *)

LEMMA LetterFacts ==
  /\ First \in Letters /\ 0 \in Letters /\ 0 \in Chars
  /\ \A x \in Letters : x \in Chars /\ Upper(x) \in Chars
  /\ \A x \in First..Last : x \in Letters
  BY DEF Letters, Chars

LEMMA InitType == Init => TypeOK
<1> SUFFICES ASSUME Init PROVE TypeOK
  OBVIOUS
<1>1. Zeroed \in Channels(Letters) /\ Zeroed \in Channels(Chars)
  BY LetterFacts DEF Zeroed, Channels
<1>2. NoCall \in Calls(Letters) /\ NoCall \in Calls(Chars)
  BY LetterFacts DEF NoCall, Calls, Places
<1>3. /\ a2b \in Channels(Letters) /\ a2bOp \in [{A, B} -> Calls(Letters)]
      /\ b2a \in Channels(Chars) /\ b2aOp \in [{A, B} -> Calls(Chars)]
  BY <1>1, <1>2 DEF Init
<1>4. First \in First..Last + 1 /\ First # Last + 1
  OBVIOUS
<1> QED
  BY <1>3, <1>4, LetterFacts DEF Init, TypeOK

LEMMA FreshType ==
  ASSUME TypeOK
  PROVE  A2B!Fresh(a2b.buf) \in Channels(Letters) /\ B2A!Fresh(b2a.buf) \in Channels(Chars)
<1> DEFINE FreshOf(buf) == [w |-> 0, r |-> 0, buf |-> buf, empty |-> BufSize, full |-> 0, mutex |-> 1]
<1>1. ASSUME NEW S, NEW buf \in [0..BufSize - 1 -> S] PROVE FreshOf(buf) \in Channels(S)
  <2>1. 0 \in 0..Width - 1 /\ BufSize \in Nat
    OBVIOUS
  <2> QED
    BY <1>1, <2>1 DEF Channels
<1>2. a2b.buf \in [0..BufSize - 1 -> Letters] /\ b2a.buf \in [0..BufSize - 1 -> Chars]
  BY DEF TypeOK, Channels
<1> QED
  BY <1>1, <1>2 DEF A2B!Fresh, B2A!Fresh

LEMMA InitA2BType == TypeOK /\ InitA2B => TypeOK'
  BY FreshType DEF TypeOK, InitA2B, ForgetB

LEMMA InitB2AType == TypeOK /\ InitB2A => TypeOK'
  BY FreshType DEF TypeOK, InitB2A, ForgetB

\* The letter that A sends next.
LEMMA NextIsLetter == TypeOK /\ aAt # "ended" => aChar \in First..Last /\ aChar \in Letters
<1> SUFFICES ASSUME TypeOK, aAt # "ended" PROVE aChar \in First..Last
  BY LetterFacts
<1>1. aChar \in First..Last + 1 /\ aChar # Last + 1
  BY DEF TypeOK
<1> QED
  BY <1>1

LEMMA SendLetterType == TypeOK /\ SendLetter => TypeOK'
<1> SUFFICES ASSUME TypeOK, SendLetter PROVE TypeOK'
  OBVIOUS
<1>1. aChar \in Letters /\ aChar # Last + 1
  BY NextIsLetter DEF SendLetter
<1>2. a2b' \in Channels(Letters) /\ a2bOp' \in [{A, B} -> Calls(Letters)]
  BY <1>1, A2BSends DEF SendLetter
<1> QED
  BY <1>1, <1>2 DEF TypeOK, SendLetter, bvars

LEMMA ReceiveReplyType == TypeOK /\ ReceiveReply => TypeOK'
<1> SUFFICES ASSUME TypeOK, ReceiveReply PROVE TypeOK'
  OBVIOUS
<1>1. b2a' \in Channels(Chars) /\ b2aOp' \in [{A, B} -> Calls(Chars)]
  BY B2AReceives DEF ReceiveReply
<1>2. aReply' \in Chars
  BY <1>1 DEF ReceiveReply, TypeOK, Calls
<1>3. aChar # Last + 1
  BY NextIsLetter DEF ReceiveReply
<1> QED
  BY <1>1, <1>2, <1>3 DEF TypeOK, ReceiveReply, bvars

LEMMA NextLetterType == TypeOK /\ NextLetter => TypeOK'
<1> SUFFICES ASSUME TypeOK, NextLetter PROVE TypeOK'
  OBVIOUS
<1>1. aChar \in First..Last
  BY NextIsLetter DEF NextLetter
<1>2. aChar' \in First..Last + 1 /\ (aChar' = Last + 1 => aAt' = "ended")
  BY <1>1 DEF NextLetter
<1>3. aAt' \in {"send", "ended"}
  BY DEF NextLetter
<1> QED
  BY <1>2, <1>3 DEF TypeOK, NextLetter, bvars

LEMMA KillType == TypeOK /\ Kill => TypeOK'
  BY NextIsLetter DEF TypeOK, Kill, bvars

LEMMA RestartType == TypeOK /\ Restart => TypeOK'
<1> SUFFICES ASSUME TypeOK, Restart PROVE TypeOK'
  OBVIOUS
<1>1. NoCall \in Calls(Letters) /\ NoCall \in Calls(Chars)
  BY LetterFacts DEF NoCall, Calls, Places
<1>2. a2bOp' \in [{A, B} -> Calls(Letters)] /\ b2aOp' \in [{A, B} -> Calls(Chars)]
  BY <1>1 DEF TypeOK, Restart
<1>3. First \in First..Last + 1 /\ First # Last + 1
  OBVIOUS
<1>4. starts' \in Nat
  <2>1. starts \in Nat /\ starts' = starts + 1
    BY DEF TypeOK, Restart
  <2> QED
    BY <2>1
<1> QED
  BY <1>2, <1>3, <1>4 DEF TypeOK, Restart, bvars

LEMMA StartBType == TypeOK /\ StartB => TypeOK'
  BY DEF TypeOK, StartB, avars

LEMMA ReceiveLetterType == TypeOK /\ ReceiveLetter => TypeOK'
<1> SUFFICES ASSUME TypeOK, ReceiveLetter PROVE TypeOK'
  OBVIOUS
<1>1. a2b' \in Channels(Letters) /\ a2bOp' \in [{A, B} -> Calls(Letters)]
  BY A2BReceives DEF ReceiveLetter
<1>2. bChar' \in Letters /\ bAt' \in {"receive", "send"}
  BY <1>1 DEF ReceiveLetter, TypeOK, Calls, bvars
<1> QED
  BY <1>1, <1>2 DEF TypeOK, ReceiveLetter, avars

LEMMA SendReplyType == TypeOK /\ SendReply => TypeOK'
<1> SUFFICES ASSUME TypeOK, SendReply PROVE TypeOK'
  OBVIOUS
<1>1. b2a' \in Channels(Chars) /\ b2aOp' \in [{A, B} -> Calls(Chars)]
  BY LetterFacts, B2ASends DEF SendReply, TypeOK
<1>2. bAt' \in {"send", "ended", "receive"}
  BY DEF SendReply
<1> QED
  BY <1>1, <1>2 DEF TypeOK, SendReply, avars

LEMMA NextType == TypeOK /\ [Next]_vars => TypeOK'
<1>1. TypeOK /\ UNCHANGED vars => TypeOK'
  BY DEF TypeOK, vars, avars, bvars
<1> QED
  BY <1>1, InitA2BType, InitB2AType, SendLetterType, ReceiveReplyType, NextLetterType, KillType,
     RestartType, StartBType, ReceiveLetterType, SendReplyType
  DEF Next, AStep, BStep, Ended

-----------------------------------------------------------------------------
(* The processes stay in step *)

LEMMA InitSynchrony == Init => Synchrony
<1> SUFFICES ASSUME Init PROVE Synchrony
  OBVIOUS
<1>1. NoCalls(A) /\ NoCalls(B)
  <2>1. a2bOp[A] = NoCall /\ a2bOp[B] = NoCall /\ b2aOp[A] = NoCall /\ b2aOp[B] = NoCall
    BY DEF Init
  <2> QED
    BY <2>1 DEF NoCalls, NoCall
<1> QED
  BY <1>1 DEF Init, Synchrony, Starting

\* Steps of A

LEMMA FreshChannel ==
  ASSUME NEW c, NEW s, NEW t, NEW x, NEW buf, s.at = "idle", t.at = "idle",
         c = [w |-> 0, r |-> 0, buf |-> buf, empty |-> BufSize, full |-> 0, mutex |-> 1]
  PROVE  OneLetter(c, s, t, x) /\ c.full = 0
  BY DEF OneLetter, Stored, InMutex

\* While B has not started, nothing has happened on the channel to A.
LEMMA Untouched ==
  ASSUME ~disturbed, Synchrony, ready, bAt = "not started", NoCalls(A),
         aAt \in {"init a2b", "init b2a"}
  PROVE  /\ \A x : OneLetter(b2a, b2aOp[B], b2aOp[A], x)
         /\ b2a.full = 0 /\ NoCalls(B)
<1>1. PICK at, s, t, y : InStep(at, s, t, y)
  BY DEF Synchrony, Running, Frozen
<1>2. b2a.full = 0 /\ t.at = "idle" /\ NoCalls(B)
  BY <1>1 DEF InStep, ToA, NoCalls
<1>3. OneLetter(b2a, b2aOp[B], t, Upper(y))
  BY <1>1 DEF InStep
<1> QED
  BY <1>2, <1>3, QuietChannel DEF NoCalls

\* Once initialised again, the channels are as for a first letter, if B has not been
\* started; otherwise the history variable says that A has disturbed it.
LEMMA InitA2BSynchrony == IInv /\ InitA2B => Synchrony'
<1> SUFFICES ASSUME IInv, InitA2B, ~disturbed' PROVE Synchrony'
  BY DEF Synchrony
<1>1. /\ ~disturbed /\ bAt = "not started" /\ bAt' = "not started" /\ bChar' = bChar
      /\ aAt = "init a2b" /\ aAt' = "init b2a"
      /\ UNCHANGED <<a2bOp, b2a, b2aOp, aChar, aReply, ready>>
  BY DEF InitA2B, ForgetB
<1>2. NoCalls(A) /\ NoCalls(B) /\ aChar = First
  BY <1>1, Untouched DEF IInv, Synchrony, Starting
<1>3. OneLetter(a2b', a2bOp'[A], a2bOp'[B], First) /\ a2b'.full = 0
  BY <1>1, <1>2, FreshChannel DEF InitA2B, A2B!Fresh, NoCalls
<1>4. CASE ready
  <2>1. OneLetter(b2a, b2aOp[B], b2aOp[A], Upper(First)) /\ b2a.full = 0
    BY <1>1, <1>2, <1>4, Untouched DEF IInv
  <2>2. Moment("send", b2aOp[A])'
    BY <1>1, <1>2, <1>3, <2>1 DEF Moment, ToB, WithB, ToA, NoCalls
  <2>3. InStep("send", a2bOp[A], b2aOp[A], First)'
    BY <1>1, <1>2, <1>3, <2>1, <2>2, LetterFacts DEF InStep, NoCalls, ToA
  <2> QED
    BY <1>1, <1>2, <1>4, <2>3 DEF Synchrony, Running, NoCalls
<1>5. CASE ~ready
  BY <1>1, <1>2, <1>3, <1>5 DEF Synchrony, Starting, NoCalls
<1> QED
  BY <1>4, <1>5

LEMMA InitB2ASynchrony == IInv /\ InitB2A => Synchrony'
<1> SUFFICES ASSUME IInv, InitB2A, ~disturbed' PROVE Synchrony'
  BY DEF Synchrony
<1>1. /\ ~disturbed /\ bAt = "not started" /\ bAt' = "not started" /\ bChar' = bChar
      /\ aAt = "init b2a" /\ aAt' = "send" /\ ready'
      /\ UNCHANGED <<a2b, a2bOp, b2aOp, aChar, aReply>>
  BY DEF InitB2A, ForgetB
<1>2. NoCalls(A) /\ NoCalls(B) /\ aChar = First
  BY <1>1, Untouched DEF IInv, Synchrony, Starting
<1>3. OneLetter(b2a', b2aOp'[B], b2aOp'[A], Upper(First)) /\ b2a'.full = 0
  BY <1>1, <1>2, FreshChannel DEF InitB2A, B2A!Fresh, NoCalls
<1>4. OneLetter(a2b, a2bOp[A], a2bOp[B], First) /\ a2b.full = 0
  <2>1. CASE ready
    BY <1>1, <2>1 DEF IInv, Synchrony, Running, InStep, Moment, ToB
  <2>2. CASE ~ready
    BY <1>1, <2>2 DEF IInv, Synchrony, Starting
  <2> QED
    BY <2>1, <2>2
<1>5. Moment("send", b2aOp[A])'
  BY <1>1, <1>2, <1>3, <1>4 DEF Moment, ToB, WithB, ToA, NoCalls
<1>6. InStep("send", a2bOp[A], b2aOp[A], First)'
  BY <1>1, <1>2, <1>3, <1>4, <1>5, LetterFacts DEF InStep, NoCalls, ToA
<1>7. InStep(aAt, a2bOp[A], b2aOp[A], aChar)'
  BY <1>1, <1>2, <1>6
<1> QED
  BY <1>1, <1>7 DEF Synchrony, Running

\* What runs after both channels have been initialised.
LEMMA Runs ==
  ASSUME ~disturbed, Synchrony, aAt \in {"send", "receive", "sleep"}
  PROVE  ready /\ InStep(aAt, a2bOp[A], b2aOp[A], aChar)
  BY DEF Synchrony, Starting, Running

LEMMA SendLetterSynchrony == IInv /\ SendLetter => Synchrony'
<1> SUFFICES ASSUME IInv, SendLetter, ~disturbed' PROVE Synchrony'
  BY DEF Synchrony
<1>1. /\ ~disturbed /\ ready' = ready /\ aAt = "send" /\ aChar' = aChar
      /\ UNCHANGED <<b2a, b2aOp, bAt, bChar>>
  BY DEF SendLetter, bvars
<1>2. ready /\ InStep("send", a2bOp[A], b2aOp[A], aChar) /\ aChar \in Letters
  BY <1>1, Runs, NextIsLetter DEF IInv
<1>3. Sends(a2b, a2bOp[A], a2b', a2bOp'[A], aChar) /\ a2bOp'[B] = a2bOp[B]
  BY <1>2, A2BSends DEF SendLetter, IInv
<1>4. /\ a2b.full = 0 /\ a2bOp[B].at = "idle" /\ bAt # "send" /\ b2a.full = 0 /\ b2aOp[A].at = "idle"
  BY <1>2 DEF InStep, Moment, ToB, WithB, ToA
<1>5. /\ OneLetter(a2b', a2bOp'[A], a2bOp'[B], aChar)
      /\ a2b'.full = IF a2bOp'[A].at = "idle" THEN 1 ELSE 0
  <2>1. a2b.r \in 0..Width - 1
    BY DEF IInv, TypeOK, Channels
  <2>2. OneLetter(a2b, a2bOp[A], a2bOp[B], aChar)
    BY <1>2 DEF InStep
  <2> QED
    BY <1>3, <1>4, <2>1, <2>2, SendKeeps
<1>6. aAt' = IF a2bOp'[A].at = "idle" THEN "receive" ELSE "send"
  BY DEF SendLetter
<1>7. Moment(aAt, b2aOp[A])'
  BY <1>1, <1>3, <1>4, <1>5, <1>6 DEF Moment, ToB, WithB, ToA
<1>8. InStep(aAt, a2bOp[A], b2aOp[A], aChar)'
  BY <1>1, <1>2, <1>3, <1>4, <1>5, <1>6, <1>7 DEF InStep, ToA
<1> QED
  BY <1>1, <1>2, <1>6, <1>8 DEF Synchrony, Running

LEMMA ReceiveReplySynchrony == IInv /\ ReceiveReply => Synchrony'
<1> SUFFICES ASSUME IInv, ReceiveReply, ~disturbed' PROVE Synchrony'
  BY DEF Synchrony
<1>1. /\ ~disturbed /\ ready' = ready /\ aAt = "receive" /\ aChar' = aChar
      /\ UNCHANGED <<a2b, a2bOp, bAt, bChar>>
  BY DEF ReceiveReply, bvars
<1>2. ready /\ InStep("receive", a2bOp[A], b2aOp[A], aChar)
  BY <1>1, Runs DEF IInv
<1>3. Receives(b2a, b2aOp[A], b2a', b2aOp'[A]) /\ b2aOp'[B] = b2aOp[B]
  BY B2AReceives DEF ReceiveReply, IInv
<1>4. /\ OneLetter(b2a', b2aOp'[B], b2aOp'[A], Upper(aChar)) /\ b2a'.full = 0
      /\ b2a.full = 1 \/ b2aOp[A].at # "idle"
      /\ b2aOp'[A].at = "idle" => b2aOp'[A].c = Upper(aChar)
  <2>1. b2a.r \in 0..Width - 1
    BY DEF IInv, TypeOK, Channels
  <2>2. OneLetter(b2a, b2aOp[B], b2aOp[A], Upper(aChar))
    BY <1>2 DEF InStep
  <2> QED
    BY <1>3, <2>1, <2>2, ReceiveKeeps
<1>5. a2b.full = 0 /\ a2bOp[B].at = "idle" /\ bAt \notin {"send", "not started"} /\ a2bOp[A].at = "idle"
  <2>1. ToA(b2aOp[A])
    BY <1>4 DEF ToA
  <2>2. ~ToB /\ ~WithB /\ bAt # "not started" /\ a2bOp[A].at = "idle"
    BY <1>2, <2>1 DEF InStep, Moment
  <2> QED
    BY <2>2 DEF ToB, WithB
<1>6. \/ b2aOp'[A].at = "idle" /\ aAt' = "sleep" /\ aReply' = Upper(aChar)
      \/ b2aOp'[A].at # "idle" /\ aAt' = "receive"
  BY <1>1, <1>4 DEF ReceiveReply
<1>7. Moment(aAt, b2aOp[A])'
  BY <1>1, <1>4, <1>5, <1>6 DEF Moment, ToB, WithB, ToA
<1>8. InStep(aAt, a2bOp[A], b2aOp[A], aChar)'
  BY <1>1, <1>2, <1>3, <1>4, <1>5, <1>6, <1>7 DEF InStep
<1> QED
  BY <1>1, <1>2, <1>6, <1>8 DEF Synchrony, Running

LEMMA NextLetterSynchrony == IInv /\ NextLetter => Synchrony'
<1> SUFFICES ASSUME IInv, NextLetter, ~disturbed' PROVE Synchrony'
  BY DEF Synchrony
<1>1. /\ ~disturbed /\ ready' = ready /\ aAt = "sleep" /\ aChar' = aChar + 1
      /\ UNCHANGED <<a2b, a2bOp, b2a, b2aOp, bAt, bChar>>
  BY DEF NextLetter, bvars
<1>2. ready /\ InStep("sleep", a2bOp[A], b2aOp[A], aChar) /\ aChar \in First..Last
  BY <1>1, Runs, NextIsLetter DEF IInv
<1>3. /\ a2b.full = 0 /\ a2bOp[A].at = "idle" /\ a2bOp[B].at = "idle"
      /\ b2a.full = 0 /\ b2aOp[A].at = "idle" /\ b2aOp[B].at = "idle" /\ bAt # "send"
  BY <1>2 DEF InStep, Moment, ToB, WithB, ToA
<1>4. CASE aChar' <= Last
  <2>1. aAt' = "send" /\ aChar' \in Letters
    BY <1>1, <1>2, <1>4, LetterFacts DEF NextLetter
  <2>2. OneLetter(a2b, a2bOp[A], a2bOp[B], aChar') /\ OneLetter(b2a, b2aOp[B], b2aOp[A], Upper(aChar'))
    BY <1>2, <1>3, QuietChannel DEF InStep
  <2>3. Moment(aAt, b2aOp[A])'
    BY <1>1, <1>3, <2>1 DEF Moment, ToB, WithB, ToA
  <2>4. InStep(aAt, a2bOp[A], b2aOp[A], aChar)'
    BY <1>1, <1>2, <1>3, <2>1, <2>2, <2>3 DEF InStep, ToA
  <2> QED
    BY <1>1, <1>2, <2>1, <2>4 DEF Synchrony, Running
<1>5. CASE ~(aChar' <= Last)
  <2>1. aAt' = "ended" /\ aChar = Last
    BY <1>1, <1>2, <1>5 DEF NextLetter
  <2>2. InStep("sleep", a2bOp[A], b2aOp[A], Last)'
    BY <1>1, <1>2, <2>1 DEF InStep, Moment, ToB, WithB, ToA
  <2> QED
    BY <1>1, <1>2, <2>1, <2>2 DEF Synchrony, Running
<1> QED
  BY <1>4, <1>5

\* B sees an interrupted A only in what A has left on the channels.
LEMMA OnlyChannels ==
  ASSUME NEW at, NEW s, NEW t, NEW x, InStep(at, s, t, x),
         UNCHANGED <<a2b, b2a, bAt, bChar>>, a2bOp'[B] = a2bOp[B], b2aOp'[B] = b2aOp[B]
  PROVE  InStep(at, s, t, x)'
  BY DEF InStep, Moment, ToB, WithB, ToA

\* Wherever A is interrupted, what it was doing is frozen.
LEMMA KillSynchrony == IInv /\ Kill => Synchrony'
<1> SUFFICES ASSUME IInv, Kill, ~disturbed' PROVE Synchrony'
  BY DEF Synchrony
<1>1. /\ ~disturbed /\ ready' = ready /\ aAt \notin {"ended", "killed"} /\ aAt' = "killed"
      /\ UNCHANGED <<a2b, a2bOp, b2a, b2aOp, bAt, bChar>>
  BY DEF Kill, bvars
<1>2. CASE ready
  <2>1. PICK at \in {"send", "receive", "sleep"}, s \in Calls(Letters), t \in Calls(Chars), x \in Letters :
          InStep(at, s, t, x)
    <3>1. a2bOp[A] \in Calls(Letters) /\ b2aOp[A] \in Calls(Chars) /\ First \in Letters /\ aChar \in Letters
      BY <1>1, LetterFacts, NextIsLetter DEF IInv, TypeOK
    <3>2. CASE aAt = "init a2b"
      BY <1>1, <1>2, <3>2 DEF IInv, Synchrony, Running, Frozen
    <3>3. CASE aAt = "init b2a"
      <4>1. InStep("send", a2bOp[A], b2aOp[A], First)
        BY <1>1, <1>2, <3>3 DEF IInv, Synchrony, Running
      <4> QED
        BY <3>1, <4>1
    <3>4. CASE aAt \in {"send", "receive", "sleep"}
      <4>1. InStep(aAt, a2bOp[A], b2aOp[A], aChar)
        BY <1>1, <3>4, Runs DEF IInv
      <4> QED
        BY <3>1, <3>4, <4>1
    <3> QED
      BY <1>1, <3>2, <3>3, <3>4 DEF IInv, TypeOK
  <2>2. InStep(at, s, t, x)'
    BY <1>1, <2>1, OnlyChannels
  <2>3. Frozen'
    BY <2>2 DEF Frozen
  <2> QED
    BY <1>1, <1>2, <2>3 DEF Synchrony, Running
<1>3. CASE ~ready
  BY <1>1, <1>3 DEF IInv, Synchrony, Starting, NoCalls
<1> QED
  BY <1>2, <1>3

LEMMA RestartSynchrony == IInv /\ Restart => Synchrony'
<1> SUFFICES ASSUME IInv, Restart, ~disturbed' PROVE Synchrony'
  BY DEF Synchrony
<1>1. /\ ~disturbed /\ ready' = ready /\ aAt = "killed" /\ aAt' = "init a2b" /\ aChar' = First
      /\ UNCHANGED <<a2b, b2a, bAt, bChar>>
  BY DEF Restart, bvars
<1>2. /\ a2bOp'[A] = NoCall /\ a2bOp'[B] = a2bOp[B]
      /\ b2aOp'[A] = NoCall /\ b2aOp'[B] = b2aOp[B]
  BY DEF Restart, IInv, TypeOK
<1>3. NoCalls(A)'
  BY <1>2 DEF NoCalls, NoCall
<1>4. CASE ready
  <2>1. PICK at \in {"send", "receive", "sleep"}, s \in Calls(Letters), t \in Calls(Chars), x \in Letters :
          InStep(at, s, t, x)
    BY <1>1, <1>4 DEF IInv, Synchrony, Running, Frozen
  <2>2. InStep(at, s, t, x)'
    BY <1>1, <1>2, <2>1, OnlyChannels
  <2>3. Frozen'
    BY <2>2 DEF Frozen
  <2> QED
    BY <1>1, <1>3, <1>4, <2>3 DEF Synchrony, Running
<1>5. CASE ~ready
  BY <1>1, <1>2, <1>3, <1>5 DEF IInv, Synchrony, Starting, NoCalls
<1> QED
  BY <1>4, <1>5

\* Steps of B

\* What A does next is not touched by a step of B that keeps the letter's moment.
LEMMA RunningKept ==
  ASSUME Running, UNCHANGED <<aAt, aChar, aReply>>, a2bOp'[A] = a2bOp[A], b2aOp'[A] = b2aOp[A],
         \A at, s, t, x : InStep(at, s, t, x) => InStep(at, s, t, x)'
  PROVE  Running'
<1>1. Frozen => Frozen'
  BY DEF Frozen
<1>2. ASSUME NEW at, NEW x, InStep(at, a2bOp[A], b2aOp[A], x)
      PROVE  InStep(at, a2bOp[A], b2aOp[A], x)'
  <2>1. PICK s, t : s = a2bOp[A] /\ t = b2aOp[A]
    OBVIOUS
  <2>2. InStep(at, s, t, x)'
    BY <1>2, <2>1
  <2> QED
    BY <2>1, <2>2 DEF InStep, Moment, ToB, WithB, ToA
<1>3. InStep(aAt, a2bOp[A], b2aOp[A], aChar) => InStep(aAt, a2bOp[A], b2aOp[A], aChar)'
  <2> SUFFICES ASSUME InStep(aAt, a2bOp[A], b2aOp[A], aChar)
               PROVE  InStep(aAt, a2bOp[A], b2aOp[A], aChar)'
    OBVIOUS
  <2>1. PICK at, x : at = aAt /\ x = aChar
    OBVIOUS
  <2>2. InStep(at, a2bOp[A], b2aOp[A], x)'
    BY <1>2, <2>1
  <2> QED
    BY <2>1, <2>2 DEF InStep, Moment, ToB, WithB, ToA
<1> QED
  BY <1>1, <1>2, <1>3 DEF Running

LEMMA StartBSynchrony == IInv /\ StartB => Synchrony'
<1> SUFFICES ASSUME IInv, StartB, ~disturbed' PROVE Synchrony'
  BY DEF Synchrony
<1>1. /\ ~disturbed /\ ready /\ bAt = "not started" /\ bAt' = "receive"
      /\ UNCHANGED <<a2b, a2bOp, b2a, b2aOp, bChar, aAt, aChar, aReply, ready>>
  BY DEF StartB, avars
<1>2. ASSUME NEW at, NEW s, NEW t, NEW x, InStep(at, s, t, x)
      PROVE  InStep(at, s, t, x)'
  <2>1. Moment(at, t)'
    BY <1>1, <1>2 DEF InStep, Moment, ToB, WithB, ToA
  <2> QED
    BY <1>1, <1>2, <2>1 DEF InStep
<1>3. Running'
  BY <1>1, <1>2, RunningKept DEF IInv, Synchrony
<1> QED
  BY <1>1, <1>3 DEF IInv, Synchrony, NoCalls

LEMMA ReceiveLetterSynchrony == IInv /\ ReceiveLetter => Synchrony'
<1> SUFFICES ASSUME IInv, ReceiveLetter, ~disturbed' PROVE Synchrony'
  BY DEF Synchrony
<1>1. /\ ~disturbed /\ ready /\ bAt = "receive"
      /\ UNCHANGED <<b2a, b2aOp, aAt, aChar, aReply, ready>>
  BY DEF ReceiveLetter, avars, IInv, Synchrony, Starting
<1>2. Receives(a2b, a2bOp[B], a2b', a2bOp'[B]) /\ a2bOp'[A] = a2bOp[A]
  BY A2BReceives DEF ReceiveLetter, IInv
<1>3. \/ a2bOp'[B].at = "idle" /\ bAt' = "send" /\ bChar' = a2bOp'[B].c
      \/ a2bOp'[B].at # "idle" /\ bAt' = "receive" /\ bChar' = bChar
  BY <1>1 DEF ReceiveLetter, bvars
<1>4. ASSUME NEW at, NEW s, NEW t, NEW x, InStep(at, s, t, x)
      PROVE  InStep(at, s, t, x)'
  <2>1. /\ OneLetter(a2b', s, a2bOp'[B], x) /\ s.at = "idle" /\ a2b'.full = 0
        /\ a2b.full = 1 \/ a2bOp[B].at # "idle"
        /\ a2bOp'[B].at = "idle" => a2bOp'[B].c = x
    <3>1. a2b.r \in 0..Width - 1
      BY DEF IInv, TypeOK, Channels
    <3>2. OneLetter(a2b, s, a2bOp[B], x)
      BY <1>4 DEF InStep
    <3> QED
      BY <1>2, <3>1, <3>2, ReceiveKeeps
  <2>2. at = "receive" /\ ~ToA(t) /\ b2aOp[B].at = "idle"
    <3>1. ToB
      BY <2>1 DEF ToB
    <3> QED
      BY <1>1, <1>4, <3>1 DEF InStep, Moment
  <2>3. Moment(at, t)'
    BY <1>1, <1>3, <2>1, <2>2 DEF Moment, ToB, WithB, ToA
  <2> QED
    BY <1>1, <1>3, <1>4, <2>1, <2>2, <2>3 DEF InStep, ToA
<1>5. Running'
  BY <1>1, <1>2, <1>4, RunningKept DEF IInv, Synchrony
<1> QED
  BY <1>1, <1>2, <1>5 DEF IInv, Synchrony, NoCalls

LEMMA SendReplySynchrony == IInv /\ SendReply => Synchrony'
<1> SUFFICES ASSUME IInv, SendReply, ~disturbed' PROVE Synchrony'
  BY DEF Synchrony
<1>1. /\ ~disturbed /\ ready /\ bAt = "send" /\ bChar' = bChar
      /\ UNCHANGED <<a2b, a2bOp, aAt, aChar, aReply, ready>>
  BY DEF SendReply, avars, IInv, Synchrony, Starting
<1>2. Sends(b2a, b2aOp[B], b2a', b2aOp'[B], Upper(bChar)) /\ b2aOp'[A] = b2aOp[A]
  BY LetterFacts, B2ASends DEF SendReply, IInv, TypeOK
<1>3. \/ b2aOp'[B].at = "idle" /\ bAt' \in {"receive", "ended"}
      \/ b2aOp'[B].at # "idle" /\ bAt' = "send"
  BY DEF SendReply
<1>4. ASSUME NEW at, NEW s, NEW t, NEW x, InStep(at, s, t, x)
      PROVE  InStep(at, s, t, x)'
  <2>1. bChar = x /\ at = "receive" /\ ~ToB /\ ~ToA(t)
    BY <1>1, <1>4 DEF InStep, Moment, WithB
  <2>2. /\ OneLetter(b2a', b2aOp'[B], t, Upper(x))
        /\ b2a'.full = IF b2aOp'[B].at = "idle" THEN 1 ELSE 0
    <3>1. b2a.r \in 0..Width - 1
      BY DEF IInv, TypeOK, Channels
    <3>2. OneLetter(b2a, b2aOp[B], t, Upper(x)) /\ t.at = "idle" /\ b2a.full = 0
      BY <1>4, <2>1 DEF InStep, ToA
    <3> QED
      BY <1>2, <2>1, <3>1, <3>2, SendKeeps
  <2>3. Moment(at, t)'
    BY <1>1, <1>3, <2>1, <2>2 DEF Moment, ToB, WithB, ToA
  <2> QED
    BY <1>1, <1>3, <1>4, <2>1, <2>2, <2>3 DEF InStep, ToB
<1>5. Running'
  BY <1>1, <1>2, <1>4, RunningKept DEF IInv, Synchrony
<1> QED
  BY <1>1, <1>2, <1>5 DEF IInv, Synchrony, NoCalls

-----------------------------------------------------------------------------
(* Theorems *)

LEMMA NextIInv == IInv /\ [Next]_vars => IInv'
<1>1. IInv /\ UNCHANGED vars => Synchrony'
  <2> SUFFICES ASSUME IInv, UNCHANGED vars, ~disturbed' PROVE Synchrony'
    BY DEF Synchrony
  <2>1. \A at, s, t, x : InStep(at, s, t, x) => InStep(at, s, t, x)'
    BY OnlyChannels DEF vars, bvars
  <2>2. ready => Running'
    BY <2>1, RunningKept DEF IInv, Synchrony, vars, avars
  <2>3. ~ready => Starting'
    BY DEF IInv, Synchrony, Starting, NoCalls, vars, avars, bvars
  <2> QED
    BY <2>2, <2>3 DEF IInv, Synchrony, NoCalls, vars, avars, bvars
<1>2. IInv /\ [Next]_vars => Synchrony'
  BY <1>1, InitA2BSynchrony, InitB2ASynchrony, SendLetterSynchrony, ReceiveReplySynchrony,
     NextLetterSynchrony, KillSynchrony, RestartSynchrony, StartBSynchrony,
     ReceiveLetterSynchrony, SendReplySynchrony
  DEF Next, AStep, BStep, Ended
<1>3. IInv /\ [Next]_vars => TypeOK'
  BY NextType DEF IInv
<1> QED
  BY <1>2, <1>3 DEF IInv

\* In every state, unless A was started again under a running B, one letter is under
\* way and channels, calls and places of both processes agree on where it is.
THEOREM Invariance == Spec => []IInv
<1>1. Init => IInv
  BY InitType, InitSynchrony DEF IInv
<1> QED
  BY <1>1, NextIInv, PTL DEF Spec

\* The shared memory and the two processes keep their types: the channel to B
\* carries letters, or zero bytes that nobody has written.
THEOREM TypeCorrect == Spec => []TypeOK
<1>1. IInv => TypeOK
  BY DEF IInv
<1> QED
  BY <1>1, Invariance, PTL

\* The reply that process_a.c prints under a letter answers that letter, however
\* long the alphabet and however often A was started again before B was.
THEOREM RepliesAlwaysMatch == Spec => []RepliesMatch
<1>1. IInv => RepliesMatch
  BY DEF IInv, Synchrony, Starting, Running, RepliesMatch
<1> QED
  BY <1>1, Invariance, PTL

\* sem_wait(&ch->empty) never blocks, since there is one letter at a time.
THEOREM SpaceForEachLetter == Spec => []NeverWaitsForSpace
<1>1. IInv => NeverWaitsForSpace
  <2> SUFFICES ASSUME IInv, ~disturbed PROVE NeverWaitsForSpace
    BY DEF NeverWaitsForSpace
  <2>1. aAt = "send" /\ a2bOp[A].at = "idle" => a2b.empty > 0
    <3> SUFFICES ASSUME aAt = "send", a2bOp[A].at = "idle" PROVE a2b.empty > 0
      OBVIOUS
    <3>1. InStep("send", a2bOp[A], b2aOp[A], aChar)
      BY Runs DEF IInv
    <3>2. a2b.full = 0 /\ a2bOp[B].at = "idle" /\ OneLetter(a2b, a2bOp[A], a2bOp[B], aChar)
      BY <3>1 DEF InStep, Moment, ToB
    <3>3. a2b.empty = BufSize
      BY <3>2 DEF OneLetter
    <3> QED
      BY <3>3
  <2>2. bAt = "send" /\ b2aOp[B].at = "idle" => b2a.empty > 0
    <3> SUFFICES ASSUME bAt = "send", b2aOp[B].at = "idle" PROVE b2a.empty > 0
      OBVIOUS
    <3>1. PICK at, s, t, x : InStep(at, s, t, x)
      BY DEF IInv, TypeOK, Synchrony, Starting, Running, Frozen
    <3>2. b2a.full = 0 /\ t.at = "idle" /\ OneLetter(b2a, b2aOp[B], t, Upper(x))
      BY <3>1 DEF InStep, Moment, WithB, ToA
    <3>3. b2a.empty = BufSize
      BY <3>2 DEF OneLetter
    <3> QED
      BY <3>3
  <2> QED
    BY <2>1, <2>2 DEF NeverWaitsForSpace
<1> QED
  BY <1>1, Invariance, PTL
=============================================================================
