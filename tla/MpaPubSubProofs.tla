--------------------------- MODULE MpaPubSubProofs ---------------------------
(***************************************************************************)
(* The safety properties of MpaPubSub, for any set of subscribers, any     *)
(* length of the table and any number of retries and updates.              *)
(***************************************************************************)
EXTENDS MpaPubSub, SequenceTheorems, WellFoundedInduction, TLAPS

USE BoundsAssumption

-----------------------------------------------------------------------------
(* Sequences *)

\* A set of natural numbers that is not empty has a least element.
LEMMA LeastElement ==
  ASSUME NEW T \in SUBSET Nat, T # {}
  PROVE  \E x \in T : \A y \in T : x <= y
<1> DEFINE R == OpToRel(<, Nat)
<1>1. \A x, y \in Nat : y < x => <<y, x>> \in R
  BY DEF OpToRel
<1>2. IsWellFoundedOn(R, Nat)
  BY NatLessThanWellFounded
<1> HIDE DEF R
<1>3. PICK x \in T : \A y \in T : ~(<<y, x>> \in R)
  BY <1>2, WFMin
<1>4. \A y \in T : ~(y < x)
  BY <1>1, <1>3
<1> QED
  BY <1>4

LEMMA RangeOfAppend ==
  ASSUME NEW S, NEW seq \in Seq(S), NEW e \in S
  PROVE  /\ Append(seq, e) \in Seq(S)
         /\ Range(Append(seq, e)) = Range(seq) \cup {e}
<1>1. /\ Append(seq, e) \in Seq(S)
      /\ Len(Append(seq, e)) = Len(seq) + 1
      /\ \A i \in 1..Len(seq) : Append(seq, e)[i] = seq[i]
      /\ Append(seq, e)[Len(seq) + 1] = e
  BY AppendProperties
<1>2. /\ Len(seq) \in Nat
      /\ DOMAIN seq = 1..Len(seq)
      /\ DOMAIN Append(seq, e) = 1..Len(seq) + 1
  BY <1>1, LenProperties
<1> DEFINE t == Append(seq, e)
<1> HIDE DEF t
<1>3. Range(t) = Range(seq) \cup {e}
  <2>1. Range(t) = {t[i] : i \in 1..Len(seq) + 1} /\ Range(seq) = {seq[i] : i \in 1..Len(seq)}
    BY <1>2 DEF Range, t
  <2>2. \A i \in 1..Len(seq) + 1 : i \in 1..Len(seq) \/ i = Len(seq) + 1
    BY <1>2
  <2>3. \A i \in 1..Len(seq) : i \in 1..Len(seq) + 1 /\ t[i] = seq[i]
    BY <1>1, <1>2 DEF t
  <2>4. Len(seq) + 1 \in 1..Len(seq) + 1 /\ t[Len(seq) + 1] = e
    BY <1>1, <1>2 DEF t
  <2> QED
    BY <2>1, <2>2, <2>3, <2>4
<1> QED
  BY <1>1, <1>3 DEF t

LEMMA HeadInRange ==
  ASSUME NEW S, NEW seq \in Seq(S), seq # <<>>
  PROVE  Head(seq) \in S /\ Head(seq) \in Range(seq)
<1>1. Head(seq) = seq[1] /\ 1 \in DOMAIN seq /\ Head(seq) \in S
  BY HeadTailProperties, LenProperties, EmptySeq
<1> QED
  BY <1>1 DEF Range

LEMMA RangeOfEmpty == Range(<<>>) = {}
BY DEF Range

LEMMA InRange ==
  ASSUME NEW S, NEW seq \in Seq(S), NEW i \in 1..Len(seq)
  PROVE  seq[i] \in Range(seq) /\ seq[i] \in S
BY LenProperties, ElementOfSeq DEF Range

\* What removing one element does.
LEMMA RemoveAtProperties ==
  ASSUME NEW S, NEW seq \in Seq(S), NEW i \in 1..Len(seq)
  PROVE  /\ RemoveAt(seq, i) \in Seq(S)
         /\ Len(RemoveAt(seq, i)) = Len(seq) - 1
         /\ \A k \in 1..Len(seq) - 1 :
              RemoveAt(seq, i)[k] = IF k < i THEN seq[k] ELSE seq[k + 1]
<1> DEFINE a == SubSeq(seq, 1, i - 1)
           b == SubSeq(seq, i + 1, Len(seq))
<1>l. Len(seq) \in Nat /\ i \in Int /\ 1 <= i /\ i <= Len(seq)
  BY LenProperties
<1>1. /\ a \in Seq(S)
      /\ Len(a) = i - 1
      /\ \A k \in 1..i - 1 : a[k] = seq[k]
  <2>1. \A k \in 1..i - 1 : seq[k] \in S
    BY <1>l, ElementOfSeq
  <2>2. /\ a \in Seq(S)
        /\ Len(a) = IF 1 <= i - 1 THEN (i - 1) - 1 + 1 ELSE 0
        /\ \A k \in 1..(i - 1) - 1 + 1 : a[k] = seq[1 + k - 1]
    BY <1>l, <2>1, SubSeqProperties
  <2> QED
    BY <1>l, <2>2
<1>2. /\ b \in Seq(S)
      /\ Len(b) = Len(seq) - i
      /\ \A k \in 1..Len(seq) - i : b[k] = seq[i + k]
  <2>1. \A k \in i + 1..Len(seq) : seq[k] \in S
    BY <1>l, ElementOfSeq
  <2>2. /\ b \in Seq(S)
        /\ Len(b) = IF i + 1 <= Len(seq) THEN Len(seq) - (i + 1) + 1 ELSE 0
        /\ \A k \in 1..Len(seq) - (i + 1) + 1 : b[k] = seq[(i + 1) + k - 1]
    BY <1>l, <2>1, SubSeqProperties
  <2> QED
    BY <1>l, <2>2
<1>3. RemoveAt(seq, i) = a \o b
  BY DEF RemoveAt
<1> HIDE DEF a, b
<1>4. /\ a \o b \in Seq(S)
      /\ Len(a \o b) = Len(a) + Len(b)
      /\ \A k \in 1..Len(a) + Len(b) : (a \o b)[k] = IF k <= Len(a) THEN a[k] ELSE b[k - Len(a)]
  BY <1>1, <1>2, ConcatProperties
<1>5. ASSUME NEW k \in 1..Len(seq) - 1
      PROVE  (a \o b)[k] = IF k < i THEN seq[k] ELSE seq[k + 1]
  <2>1. ASSUME k < i PROVE (a \o b)[k] = seq[k]
    BY <1>l, <1>1, <1>2, <1>4, <2>1
  <2>2. ASSUME ~(k < i) PROVE (a \o b)[k] = seq[k + 1]
    <3>1. (a \o b)[k] = b[k - (i - 1)]
      BY <1>l, <1>1, <1>2, <1>4, <2>2
    <3>2. b[k - (i - 1)] = seq[i + (k - (i - 1))]
      BY <1>l, <1>2, <2>2
    <3>3. i + (k - (i - 1)) = k + 1
      BY <1>l
    <3> QED
      BY <3>1, <3>2, <3>3
  <2> QED
    BY <2>1, <2>2, Zenon
<1> QED
  BY <1>l, <1>1, <1>2, <1>3, <1>4, <1>5

\* Removing a process from the table leaves the others there, and is done to
\* its first entry.
LEMMA WithoutProperties ==
  ASSUME subs \in Seq(Subs), NEW s \in Subs
  PROVE  /\ Without(s) \in Seq(Subs)
         /\ Len(Without(s)) <= Len(subs)
         /\ Range(Without(s)) \subseteq Range(subs)
         /\ Range(subs) \ {s} \subseteq Range(Without(s))
         /\ IsInjective(subs) => IsInjective(Without(s))
<1>l. /\ Len(subs) \in Nat /\ DOMAIN subs = 1..Len(subs)
  BY LenProperties
<1>1. CASE s \notin Range(subs)
  BY <1>1, <1>l DEF Without
<1>2. CASE s \in Range(subs)
  <2> DEFINE First(k) == subs[k] = s /\ \A j \in 1..k - 1 : subs[j] # s
             i == CHOOSE k \in DOMAIN subs : First(k)
  <2>1. \E k \in DOMAIN subs : First(k)
    <3> DEFINE places == {k \in DOMAIN subs : subs[k] = s}
    <3>1. places # {} /\ places \subseteq Nat
      BY <1>2, <1>l DEF Range
    <3>2. PICK k \in places : \A j \in places : k <= j
      BY <3>1, LeastElement
    <3>3. First(k)
      BY <1>l, <3>2
    <3> QED
      BY <3>2, <3>3
  <2>2. i \in DOMAIN subs /\ First(i)
    BY <2>1
  <2>3. Without(s) = RemoveAt(subs, i)
    BY <1>2 DEF Without
  <2> HIDE DEF i
  <2> DEFINE w == RemoveAt(subs, i)
  <2>4. /\ w \in Seq(Subs)
        /\ Len(w) = Len(subs) - 1
        /\ \A k \in 1..Len(subs) - 1 : w[k] = IF k < i THEN subs[k] ELSE subs[k + 1]
    BY <1>l, <2>2, RemoveAtProperties
  <2>5. DOMAIN w = 1..Len(subs) - 1
    BY <2>4, LenProperties
  <2> HIDE DEF w
  <2>6. ASSUME NEW t \in Range(w) PROVE t \in Range(subs)
    <3>1. PICK k \in 1..Len(subs) - 1 : w[k] = t
      BY <2>5 DEF Range
    <3>2. /\ k \in DOMAIN subs /\ k + 1 \in DOMAIN subs
          /\ t = subs[k] \/ t = subs[k + 1]
      BY <1>l, <2>4, <3>1
    <3> QED
      BY <3>2 DEF Range
  <2>7. ASSUME NEW t \in Range(subs) \ {s} PROVE t \in Range(w)
    <3>1. PICK k \in 1..Len(subs) : subs[k] = t
      BY <1>l DEF Range
    <3>2. k # i
      BY <2>2, <2>7, <3>1
    <3>3. CASE k < i
      <4>1. k \in 1..Len(subs) - 1 /\ w[k] = t
        BY <1>l, <2>2, <2>4, <3>1, <3>3
      <4> QED
        BY <4>1, <2>5 DEF Range
    <3>4. CASE k > i
      <4>1. k - 1 \in 1..Len(subs) - 1 /\ w[k - 1] = t
        BY <1>l, <2>2, <2>4, <3>1, <3>4
      <4> QED
        BY <4>1, <2>5 DEF Range
    <3> QED
      BY <1>l, <2>2, <3>2, <3>3, <3>4
  <2>8. ASSUME IsInjective(subs) PROVE IsInjective(w)
    <3> SUFFICES ASSUME NEW a \in 1..Len(subs) - 1, NEW b \in 1..Len(subs) - 1, w[a] = w[b]
                 PROVE  a = b
      BY <2>5 DEF IsInjective
    <3> DEFINE from(k) == IF k < i THEN k ELSE k + 1
    <3>1. from(a) \in DOMAIN subs /\ from(b) \in DOMAIN subs /\ subs[from(a)] = subs[from(b)]
      BY <1>l, <2>2, <2>4
    <3>2. from(a) = from(b)
      BY <2>8, <3>1 DEF IsInjective
    <3> QED
      BY <1>l, <2>2, <3>2
  <2> QED
    BY <1>l, <2>3, <2>4, <2>6, <2>7, <2>8 DEF w
<1> QED
  BY <1>1, <1>2

-----------------------------------------------------------------------------
(* The invariant *)

Asking == {"new", "req", "send", "sent", "ack"}

\* The loops of a subscriber have not come to their ends.
Counts == \A s \in Subs :
  /\ sub[s].pc \in Asking => sub[s].tries < MaxRetries
  /\ sub[s].pc \in Asking \cup {"acked", "poll", "got"} => sub[s].updates < MaxUpdates

\* Only a subscriber that leaves asks to be removed, and whoever has an OK
\* waiting, or has read it, is listed until then.
Listed == \A s \in Subs :
  /\ Unreg(s) \in Range(req) => sub[s].pc \in {"leave", "done"}
  /\ ctl[s] = "ok" => s \in Range(subs) \/ sub[s].pc \in {"leave", "done"}
  /\ sub[s].pc \in {"acked", "poll", "got", "bye", "byeSend"} => s \in Range(subs)

\* With kind clocks a subscriber asks when it is not listed, waits for the
\* answer, and the publisher answers only one that waits.
AsksOnce == calm =>
  /\ IsInjective(subs)
  /\ \A s \in Subs :
       /\ Reg(s) \in Range(req) => sub[s].pc \in {"sent", "ack"} /\ s \notin Range(subs)
       /\ sub[s].pc \in {"new", "req", "send"} => s \notin Range(subs)
       /\ s \notin Range(subs) /\ sub[s].pc \in Asking => ctl[s] = "empty"
  /\ pub.pc \in {"open", "write"} /\ pub.msg = "ok"
       => sub[Target].pc \in {"sent", "ack"} /\ ctl[Target] = "empty"

\* From one sleep of the publisher to its next round of notifications.
Quiet == \/ pub.pc \in {"start", "init", "read", "test", "truncate", "flush"}
         \/ pub.pc \in {"open", "write", "close"} /\ pub.msg = "ok"

\* Then nobody is on its way to the data file.
Lines ==
  /\ file = "empty" => pub.pc = "flush"
  /\ \A s \in Subs : sub[s].pc = "acked" => ctl[s] = "empty"
  /\ calm /\ Quiet => \A s \in Subs : /\ sub[s].pc # "got"
                                      /\ sub[s].pc = "poll" => ctl[s] = "empty"

IInv == TypeOK /\ Counts /\ Listed /\ AsksOnce /\ Lines

-----------------------------------------------------------------------------
(* What the steps of a process do to its program counter *)

PubState == [pc : {"start", "init", "read", "test", "truncate", "flush", "open", "write",
                   "close", "sleep", "exiting", "unlinked", "done", "dead"},
             round : 0..2, msg : {"ok", "x"}, i : 0..MaxSub + 1]

SubPc == {"new", "req", "send", "sent", "ack", "acked", "poll", "got", "bye",
          "byeSend", "leave", "done", "failed", "killed"}
SubState == [pc : SubPc, tries : 0..MaxRetries, updates : 0..MaxUpdates]

Request == [kind : {"reg", "unreg"}, s : Subs]

LEMMA PubGoes ==
  ASSUME pub \in PubState, NEW pc, PubGoto(pc),
         pc \in {"init", "read", "test", "truncate", "flush", "open", "write", "close",
                "sleep", "exiting", "unlinked", "done", "dead"}
  PROVE  pub' \in PubState /\ pub'.pc = pc /\ pub'.msg = pub.msg /\ pub'.i = pub.i
BY DEF PubState, PubGoto

LEMMA RequestsAreRead ==
  ASSUME pub \in PubState, RequestsRead
  PROVE  /\ pub' \in PubState
         /\ pub'.pc \in {"read", "test"} /\ pub'.msg = pub.msg /\ pub'.i = pub.i
<1>1. CASE pub.round = 0
  <2>1. pub' = [pub EXCEPT !.pc = "read", !.round = 1]
    BY <1>1 DEF RequestsRead
  <2>a. pub' = [pc |-> "read", round |-> 1, msg |-> pub.msg, i |-> pub.i]
    BY <2>1 DEF PubState
  <2>b. pub.msg \in {"ok", "x"} /\ pub.i \in 0..MaxSub + 1 /\ 1 \in 0..2
    BY DEF PubState
  <2>2. /\ pub'.pc = "read" /\ pub'.msg = pub.msg /\ pub'.i = pub.i
        /\ pub'.round = 1 /\ pub' \in PubState
    BY <2>a, <2>b DEF PubState
  <2> QED
    BY <2>2
<1>2. CASE pub.round # 0
  BY <1>2, PubGoes DEF RequestsRead
<1> QED
  BY <1>1, <1>2

LEMMA Notifies ==
  ASSUME TypeOK, pub \in PubState, NEW i \in 1..MaxSub + 1, NotifyFrom(i)
  PROVE  /\ pub' \in PubState
         /\ \/ pub'.pc = "open" /\ pub'.msg = "x" /\ pub'.i = i /\ i \in 1..Len(subs)
            \/ pub'.pc = "sleep"
<1>1. Len(subs) \in Nat /\ Len(subs) <= MaxSub
  BY LenProperties DEF TypeOK
<1>2. CASE i <= Len(subs)
  <2>1. pub' = [pub EXCEPT !.pc = "open", !.msg = "x", !.i = i]
    BY <1>2 DEF NotifyFrom
  <2>2. i \in 0..MaxSub + 1 /\ i \in 1..Len(subs)
    BY <1>1, <1>2
  <2> QED
    BY <2>1, <2>2 DEF PubState
<1>3. CASE ~(i <= Len(subs))
  <2>1. pub' = [pub EXCEPT !.pc = "sleep", !.round = 2]
    BY <1>3 DEF NotifyFrom
  <2>a. pub' = [pc |-> "sleep", round |-> 2, msg |-> pub.msg, i |-> pub.i]
    BY <2>1 DEF PubState
  <2>b. pub.msg \in {"ok", "x"} /\ pub.i \in 0..MaxSub + 1 /\ 2 \in 0..2
    BY DEF PubState
  <2>2. pub'.pc = "sleep" /\ pub' \in PubState
    BY <2>a, <2>b DEF PubState
  <2> QED
    BY <2>2
<1> QED
  BY <1>2, <1>3

\* After an entry has been served.
LEMMA Answers ==
  ASSUME TypeOK, pub \in PubState, pub.pc \in {"open", "close"}, Answered
  PROVE  /\ pub' \in PubState
         /\ \/ pub.msg = "ok" /\ pub'.pc \in {"read", "test"}
            \/ pub.msg = "x" /\ pub'.pc = "open" /\ pub'.msg = "x" /\ pub'.i \in 1..Len(subs)
            \/ pub.msg = "x" /\ pub'.pc = "sleep"
<1>1. Len(subs) \in Nat /\ Len(subs) <= MaxSub /\ pub.i \in 1..Len(subs)
  BY LenProperties DEF TypeOK
<1>2. CASE pub.msg = "ok"
  BY <1>2, RequestsAreRead DEF Answered
<1>3. CASE pub.msg = "x"
  <2>1. pub.i + 1 \in 1..MaxSub + 1 /\ NotifyFrom(pub.i + 1)
    BY <1>1, <1>3 DEF Answered
  <2> QED
    BY <1>3, <2>1, Notifies
<1> QED
  BY <1>2, <1>3 DEF PubState

LEMMA SubGoes ==
  ASSUME sub \in [Subs -> SubState], NEW s \in Subs, NEW pc \in SubPc, Goto(s, pc)
  PROVE  /\ sub' \in [Subs -> SubState]
         /\ sub'[s].pc = pc /\ sub'[s].tries = sub[s].tries /\ sub'[s].updates = sub[s].updates
         /\ \A t \in Subs \ {s} : sub'[t] = sub[t]
<1>1. sub' = [sub EXCEPT ![s] = [sub[s] EXCEPT !.pc = pc]]
  BY DEF Goto
<1>2. [sub[s] EXCEPT !.pc = pc] \in SubState
  BY DEF SubState
<1> QED
  BY <1>1, <1>2 DEF SubState

LEMMA SubRetries ==
  ASSUME sub \in [Subs -> SubState], NEW s \in Subs, Retry(s), sub[s].tries < MaxRetries
  PROVE  /\ sub' \in [Subs -> SubState]
         /\ \/ sub'[s].pc = "req" /\ sub'[s].tries < MaxRetries
            \/ sub'[s].pc = "failed"
         /\ sub'[s].updates = sub[s].updates
         /\ \A t \in Subs \ {s} : sub'[t] = sub[t]
<1> DEFINE n == sub[s].tries + 1
           e == [sub[s] EXCEPT !.tries = n, !.pc = IF n < MaxRetries THEN "req" ELSE "failed"]
<1>1. sub[s] \in SubState /\ n \in 0..MaxRetries
  BY DEF SubState
<1>2. sub' = [sub EXCEPT ![s] = e]
  BY DEF Retry
<1>3. /\ e \in SubState /\ e.updates = sub[s].updates
      /\ (e.pc = "req" /\ e.tries < MaxRetries) \/ e.pc = "failed"
  BY <1>1 DEF SubState, SubPc
<1> HIDE DEF e
<1> QED
  BY <1>2, <1>3

LEMMA SubReadsFile ==
  ASSUME sub \in [Subs -> SubState], NEW s \in Subs, ReadFile(s), sub[s].updates < MaxUpdates
  PROVE  /\ sub' \in [Subs -> SubState]
         /\ \/ sub'[s].pc = "poll" /\ sub'[s].updates < MaxUpdates
            \/ sub'[s].pc = "bye"
         /\ \A t \in Subs \ {s} : sub'[t] = sub[t]
<1> DEFINE n == sub[s].updates + 1
           e == [sub[s] EXCEPT !.updates = n, !.pc = IF n < MaxUpdates THEN "poll" ELSE "bye"]
<1>1. sub[s] \in SubState /\ n \in 0..MaxUpdates
  BY DEF SubState
<1>2. sub' = [sub EXCEPT ![s] = e]
  BY DEF ReadFile
<1>3. /\ e \in SubState
      /\ (e.pc = "poll" /\ e.updates < MaxUpdates) \/ e.pc = "bye"
  BY <1>1 DEF SubState, SubPc
<1> HIDE DEF e
<1> QED
  BY <1>2, <1>3

LEMMA TypeParts ==
  /\ TypeOK => /\ pub \in PubState /\ sub \in [Subs -> SubState]
               /\ subs \in Seq(Subs) /\ req \in Seq(Request)
               /\ Len(subs) \in Nat /\ Len(subs) <= MaxSub
  /\ /\ calm' \in BOOLEAN /\ pub' \in PubState
     /\ pub'.pc \in {"open", "write", "close"} => pub'.i \in 1..Len(subs')
     /\ subs' \in Seq(Subs) /\ Len(subs') <= MaxSub /\ req' \in Seq(Request)
     /\ file' \in {"none", "empty", "whole"} /\ sub' \in [Subs -> SubState]
     /\ ctl' \in [Subs -> {"empty", "ok", "x"}] /\ torn' \subseteq Subs
     => TypeOK'
BY LenProperties DEF TypeOK, PubState, SubPc, SubState, Request

LEMMA Requests == \A s \in Subs : Reg(s) \in Request /\ Unreg(s) \in Request /\ Reg(s) # Unreg(s)
BY DEF Reg, Unreg, Request

LEMMA HeadRequest ==
  ASSUME req \in Seq(Request), req # <<>>
  PROVE  /\ Head(req).s \in Subs /\ Head(req) \in Range(req)
         /\ Head(req).kind = "reg" => Head(req) = Reg(Head(req).s)
         /\ Head(req).kind = "unreg" => Head(req) = Unreg(Head(req).s)
<1>1. Head(req) \in Request /\ Head(req) \in Range(req)
  BY HeadInRange
<1> QED
  BY <1>1 DEF Request, Reg, Unreg

LEMMA RequestSent ==
  ASSUME req \in Seq(Request), NEW r \in Request, req' = Append(req, r)
  PROVE  req' \in Seq(Request) /\ Range(req') = Range(req) \cup {r}
<1>1. Append(req, r) \in Seq(Request) /\ Range(Append(req, r)) = Range(req) \cup {r}
  BY RangeOfAppend
<1> QED
  BY <1>1

LEMMA ControlCloses ==
  ASSUME ctl \in [Subs -> {"empty", "ok", "x"}], NEW s \in Subs,
         NEW rest \in {ctl[s], "empty"}, CtlClosed(s, rest)
  PROVE  /\ ctl' \in [Subs -> {"empty", "ok", "x"}]
         /\ ctl'[s] \in {rest, "empty"}
         /\ \A t \in Subs \ {s} : ctl'[t] = ctl[t]
<1>1. CASE HeldByPub(s)
  BY <1>1 DEF CtlClosed
<1>2. CASE ~HeldByPub(s)
  BY <1>2 DEF CtlClosed
<1> QED
  BY <1>1, <1>2

-----------------------------------------------------------------------------
(* Each conjunct of the invariant is preserved *)

LEMMA InitInvariant == Init => IInv
<1> SUFFICES ASSUME Init PROVE IInv
  OBVIOUS
<1>1. TypeOK
  BY EmptySeq DEF Init, TypeOK
<1>2. Range(subs) = {} /\ Range(req) = {} /\ IsInjective(subs)
  BY RangeOfEmpty DEF Init, IsInjective
<1> QED
  BY <1>1, <1>2 DEF Init, IInv, Counts, Listed, AsksOnce, Lines, Quiet, Asking

LEMMA TypePreserved == TypeOK /\ Counts /\ [Next]_vars => TypeOK'
<1> SUFFICES ASSUME TypeOK, Counts, [Next]_vars PROVE TypeOK'
  OBVIOUS
<1>t. /\ pub \in PubState /\ sub \in [Subs -> SubState]
      /\ subs \in Seq(Subs) /\ req \in Seq(Request)
      /\ Len(subs) \in Nat /\ Len(subs) <= MaxSub
  BY TypeParts
<1>e. <<>> \in Seq(Request)
  OBVIOUS
<1>1. CASE Mkfifo
  BY <1>1, <1>t, TypeParts, PubGoes DEF Mkfifo, TypeOK
<1>2. CASE OpenRequestFifo
  BY <1>2, <1>t, TypeParts, PubGoes DEF OpenRequestFifo, TypeOK
<1>3. CASE ReadNothing
  BY <1>3, <1>t, TypeParts, RequestsAreRead DEF ReadNothing, TypeOK
<1>4. CASE ReadUnregister
  <2>1. Head(req).s \in Subs
    BY <1>4, <1>t, HeadRequest DEF ReadUnregister
  <2>2. subs' \in Seq(Subs) /\ Len(subs') <= MaxSub
    BY <1>4, <1>t, <2>1, WithoutProperties, LenProperties DEF ReadUnregister
  <2> QED
    BY <1>4, <1>t, <1>e, <2>2, RequestsAreRead, TypeParts DEF ReadUnregister, TypeOK
<1>5. CASE ReadRegister
  <2>1. Head(req).s \in Subs
    BY <1>5, <1>t, HeadRequest DEF ReadRegister
  <2>2. CASE Len(subs) < MaxSub
    <3>1. subs' \in Seq(Subs) /\ Len(subs') = Len(subs) + 1
      <4>1. subs' = Append(subs, Head(req).s)
        BY <1>5, <2>2 DEF ReadRegister
      <4> QED
        BY <1>t, <2>1, <4>1, AppendProperties
    <3>2. pub' \in PubState /\ pub'.i = Len(subs) + 1
      <4>1. pub' = [pub EXCEPT !.pc = "open", !.msg = "ok", !.i = Len(subs) + 1]
        BY <1>5, <2>2 DEF ReadRegister
      <4>2. Len(subs) + 1 \in 0..MaxSub + 1
        BY <1>t, <2>2
      <4> QED
        BY <1>t, <4>1, <4>2 DEF PubState
    <3>3. pub'.i \in 1..Len(subs') /\ Len(subs') <= MaxSub
      BY <1>t, <2>2, <3>1, <3>2
    <3> QED
      BY <1>5, <1>t, <1>e, <3>1, <3>2, <3>3, TypeParts DEF ReadRegister, TypeOK
  <2>3. CASE ~(Len(subs) < MaxSub)
    BY <1>5, <1>t, <1>e, <2>3, RequestsAreRead, TypeParts DEF ReadRegister, TypeOK
  <2> QED
    BY <2>2, <2>3
<1>6. CASE TestEmpty
  BY <1>6, <1>t, TypeParts, PubGoes DEF TestEmpty, TypeOK
<1>7. CASE TruncateFile
  BY <1>7, <1>t, TypeParts, PubGoes DEF TruncateFile, TypeOK
<1>8. CASE FlushFile
  <2>1. 1 \in 1..MaxSub + 1
    OBVIOUS
  <2> QED
    BY <1>8, <2>1, <1>t, TypeParts, Notifies DEF FlushFile, TypeOK
<1>9. CASE OpenControl
  <2>1. CASE PubGoto("write")
    BY <1>9, <2>1, <1>t, TypeParts, PubGoes DEF OpenControl, TypeOK
  <2>2. CASE Answered
    BY <1>9, <2>2, <1>t, TypeParts, Answers DEF OpenControl, TypeOK
  <2> QED
    BY <1>9, <2>1, <2>2 DEF OpenControl
<1>10. CASE WriteControl
  BY <1>10, <1>t, TypeParts, PubGoes DEF WriteControl, TypeOK
<1>11. CASE WriteBroken
  BY <1>11, <1>t, <1>e, TypeParts, PubGoes DEF WriteBroken, TypeOK
<1>12. CASE CloseControl
  BY <1>12, <1>t, TypeParts, Answers DEF CloseControl, TypeOK
<1>13. CASE Sleep
  BY <1>13, <1>t, TypeParts, PubGoes DEF Sleep, TypeOK
<1>14. CASE UnlinkRequestFifo
  BY <1>14, <1>t, TypeParts, PubGoes DEF UnlinkRequestFifo, TypeOK
<1>15. CASE PubExit
  BY SMTT(60), <1>15, <1>t, <1>e, TypeParts, PubGoes DEF PubExit, TypeOK
<1>16. ASSUME NEW s \in Subs, Start(s) PROVE TypeOK'
  BY <1>16, <1>t, TypeParts, SubGoes DEF Start, TypeOK, SubPc
<1>17. ASSUME NEW s \in Subs, OpenRequest(s) PROVE TypeOK'
  <2>1. CASE Goto(s, "send")
    BY <1>17, <2>1, <1>t, TypeParts, SubGoes DEF OpenRequest, TypeOK, SubPc
  <2>2. CASE Retry(s)
    BY <1>17, <2>2, <1>t, TypeParts, SubRetries DEF OpenRequest, TypeOK, Counts, Asking
  <2> QED
    BY <1>17, <2>1, <2>2 DEF OpenRequest
<1>18. ASSUME NEW s \in Subs, SendRequest(s) PROVE TypeOK'
  <2>1. CASE PubReads
    <3>1. req' \in Seq(Request)
      BY <1>18, <2>1, <1>t, Requests, RequestSent DEF SendRequest
    <3> QED
      BY <1>18, <2>1, <3>1, <1>t, TypeParts, SubGoes DEF SendRequest, TypeOK, SubPc
  <2>2. CASE ~PubReads
    BY <1>18, <2>2, <1>t, TypeParts, SubGoes DEF SendRequest, TypeOK, SubPc
  <2> QED
    BY <2>1, <2>2
<1>19. ASSUME NEW s \in Subs, OpenOwn(s) PROVE TypeOK'
  <2> DEFINE pc == IF sub[s].pc = "sent" THEN "ack" ELSE "poll"
  <2>1. pc \in SubPc /\ Goto(s, pc)
    BY <1>19 DEF OpenOwn, SubPc
  <2> HIDE DEF pc
  <2> QED
    BY <1>19, <2>1, <1>t, TypeParts, SubGoes DEF OpenOwn, TypeOK
<1>20. ASSUME NEW s \in Subs, ReadAck(s) PROVE TypeOK'
  BY <1>20, <1>t, TypeParts, SubGoes DEF ReadAck, CtlClosed, TypeOK, SubPc
<1>21. ASSUME NEW s \in Subs, ReadNoAck(s) PROVE TypeOK'
  BY <1>21, <1>t, TypeParts DEF ReadNoAck, TypeOK
<1>22. ASSUME NEW s \in Subs, Timeout(s) PROVE TypeOK'
  BY <1>22, <1>t, TypeParts, SubRetries DEF Timeout, CtlClosed, TypeOK, Counts, Asking
<1>23. ASSUME NEW s \in Subs, Poll(s) PROVE TypeOK'
  BY <1>23, <1>t, TypeParts, SubGoes DEF Poll, TypeOK, SubPc
<1>24. ASSUME NEW s \in Subs, ReadFile(s) PROVE TypeOK'
  BY <1>24, <1>t, TypeParts, SubReadsFile DEF ReadFile, TypeOK, Counts
<1>25. ASSUME NEW s \in Subs, OpenUnregister(s) PROVE TypeOK'
  BY <1>25, <1>t, TypeParts, SubGoes DEF OpenUnregister, TypeOK, SubPc
<1>26. ASSUME NEW s \in Subs, SendUnregister(s) PROVE TypeOK'
  <2>1. CASE PubReads
    <3>1. req' \in Seq(Request)
      BY <1>26, <2>1, <1>t, Requests, RequestSent DEF SendUnregister
    <3> QED
      BY <1>26, <2>1, <3>1, <1>t, TypeParts, SubGoes DEF SendUnregister, TypeOK, SubPc
  <2>2. CASE ~PubReads
    <3>1. ctl' \in [Subs -> {"empty", "ok", "x"}]
      BY <1>26, <2>2, ControlCloses DEF SendUnregister, TypeOK
    <3> QED
      BY <1>26, <2>2, <3>1, <1>t, TypeParts, SubGoes DEF SendUnregister, TypeOK, SubPc
  <2> QED
    BY <2>1, <2>2
<1>27. ASSUME NEW s \in Subs, Leave(s) PROVE TypeOK'
  BY <1>27, <1>t, TypeParts, SubGoes DEF Leave, CtlClosed, TypeOK, SubPc
<1>28. CASE UNCHANGED vars
  BY <1>28 DEF vars, TypeOK
<1> QED
  BY <1>1, <1>2, <1>3, <1>4, <1>5, <1>6, <1>7, <1>8, <1>9, <1>10, <1>11, <1>12, <1>13,
     <1>14, <1>15, <1>16, <1>17, <1>18, <1>19, <1>20, <1>21, <1>22, <1>23, <1>24,
     <1>25, <1>26, <1>27, <1>28 DEF Next, Publisher, Subscriber

LEMMA CountsPreserved == TypeOK /\ Counts /\ [Next]_vars => Counts'
<1> SUFFICES ASSUME TypeOK, Counts, [Next]_vars PROVE Counts'
  OBVIOUS
<1>t. sub \in [Subs -> SubState]
  BY TypeParts
<1>1. CASE Publisher \/ UNCHANGED vars
  <2>1. UNCHANGED sub
    BY <1>1 DEF Publisher, vars, Mkfifo, OpenRequestFifo, ReadNothing, ReadUnregister, ReadRegister, TestEmpty, TruncateFile, FlushFile,
                OpenControl, WriteControl, WriteBroken, CloseControl, Sleep, UnlinkRequestFifo, PubExit
  <2> QED
    BY <2>1 DEF Counts
<1>2. ASSUME NEW s \in Subs, Start(s) PROVE Counts'
  BY <1>2, <1>t, SubGoes DEF Start, Counts, Asking, SubPc
<1>3. ASSUME NEW s \in Subs, OpenRequest(s) PROVE Counts'
  <2>1. CASE Goto(s, "send")
    BY <1>3, <2>1, <1>t, SubGoes DEF OpenRequest, Counts, Asking, SubPc
  <2>2. CASE Retry(s)
    BY <1>3, <2>2, <1>t, SubRetries DEF OpenRequest, Counts, Asking
  <2> QED
    BY <1>3, <2>1, <2>2 DEF OpenRequest
<1>4. ASSUME NEW s \in Subs, SendRequest(s) PROVE Counts'
  BY <1>4, <1>t, SubGoes DEF SendRequest, Counts, Asking, SubPc
<1>5. ASSUME NEW s \in Subs, OpenOwn(s) PROVE Counts'
  <2> DEFINE pc == IF sub[s].pc = "sent" THEN "ack" ELSE "poll"
  <2>1. pc \in SubPc /\ Goto(s, pc) /\ (pc = "ack" <=> sub[s].pc = "sent")
    BY <1>5 DEF OpenOwn, SubPc
  <2>2. pc = "ack" \/ pc = "poll"
    OBVIOUS
  <2> HIDE DEF pc
  <2> QED
    BY <1>5, <2>1, <2>2, <1>t, SubGoes DEF OpenOwn, Counts, Asking
<1>6. ASSUME NEW s \in Subs, ReadAck(s) PROVE Counts'
  BY <1>6, <1>t, SubGoes DEF ReadAck, Counts, Asking, SubPc
<1>7. ASSUME NEW s \in Subs, ReadNoAck(s) PROVE Counts'
  BY <1>7 DEF ReadNoAck, Counts
<1>8. ASSUME NEW s \in Subs, Timeout(s) PROVE Counts'
  BY <1>8, <1>t, SubRetries DEF Timeout, Counts, Asking
<1>9. ASSUME NEW s \in Subs, Poll(s) PROVE Counts'
  BY <1>9, <1>t, SubGoes DEF Poll, Counts, Asking, SubPc
<1>10. ASSUME NEW s \in Subs, ReadFile(s) PROVE Counts'
  BY <1>10, <1>t, SubReadsFile DEF ReadFile, Counts, Asking
<1>11. ASSUME NEW s \in Subs, OpenUnregister(s) PROVE Counts'
  BY <1>11, <1>t, SubGoes DEF OpenUnregister, Counts, Asking, SubPc
<1>12. ASSUME NEW s \in Subs, SendUnregister(s) PROVE Counts'
  BY <1>12, <1>t, SubGoes DEF SendUnregister, Counts, Asking, SubPc
<1>13. ASSUME NEW s \in Subs, Leave(s) PROVE Counts'
  BY <1>13, <1>t, SubGoes DEF Leave, Counts, Asking, SubPc
<1> QED
  BY <1>1, <1>2, <1>3, <1>4, <1>5, <1>6, <1>7, <1>8, <1>9, <1>10, <1>11, <1>12, <1>13
      DEF Next, Subscriber

-----------------------------------------------------------------------------
(* What the steps do, as far as the rest of the invariant can see it *)

LEMMA RegAndUnreg ==
  \A s, t \in Subs : /\ Reg(s) # Unreg(t)
                     /\ s # t => Reg(s) # Reg(t) /\ Unreg(s) # Unreg(t)
BY DEF Reg, Unreg

LEMMA TargetIsListed ==
  ASSUME TypeOK, pub.pc \in {"open", "write", "close"}
  PROVE  Target \in Subs /\ Target \in Range(subs)
<1>1. subs \in Seq(Subs) /\ pub.i \in 1..Len(subs)
  BY DEF TypeOK
<1> QED
  BY <1>1, InRange DEF Target

LEMMA Unregisters ==
  ASSUME TypeOK, ReadUnregister
  PROVE  /\ UNCHANGED <<calm, file, sub, ctl, torn>>
         /\ pub'.pc \in {"read", "test"} /\ Range(req') = {}
         /\ \E s \in Subs :
              /\ Unreg(s) \in Range(req)
              /\ Range(subs') \subseteq Range(subs) /\ Range(subs) \ {s} \subseteq Range(subs')
              /\ IsInjective(subs) => IsInjective(subs')
<1> DEFINE s == Head(req).s
<1>1. subs \in Seq(Subs) /\ s \in Subs /\ Unreg(s) \in Range(req)
  BY TypeParts, HeadRequest DEF ReadUnregister
<1>2. subs' = Without(s)
  BY DEF ReadUnregister
<1> HIDE DEF s
<1>3. /\ Range(subs') \subseteq Range(subs) /\ Range(subs) \ {s} \subseteq Range(subs')
      /\ IsInjective(subs) => IsInjective(subs')
  BY <1>1, <1>2, WithoutProperties
<1>4. UNCHANGED <<calm, file, sub, ctl, torn>> /\ req' = <<>> /\ RequestsRead
  BY DEF ReadUnregister
<1> QED
  BY <1>1, <1>3, <1>4, TypeParts, RequestsAreRead, RangeOfEmpty

LEMMA InjectiveAppend ==
  ASSUME NEW seq \in Seq(Subs), NEW s \in Subs, IsInjective(seq), s \notin Range(seq)
  PROVE  IsInjective(Append(seq, s))
<1> DEFINE t == Append(seq, s)
<1>1. /\ Len(seq) \in Nat /\ DOMAIN seq = 1..Len(seq) /\ DOMAIN t = 1..Len(seq) + 1
      /\ \A k \in 1..Len(seq) : t[k] = seq[k]
      /\ t[Len(seq) + 1] = s
  BY AppendProperties, LenProperties
<1> HIDE DEF t
<1>2. \A k \in 1..Len(seq) : t[k] # s
  BY <1>1 DEF Range
<1> SUFFICES ASSUME NEW a \in 1..Len(seq) + 1, NEW b \in 1..Len(seq) + 1, t[a] = t[b]
             PROVE  a = b
  BY <1>1 DEF IsInjective, t
<1>3. CASE a \in 1..Len(seq) /\ b \in 1..Len(seq)
  BY <1>1, <1>3 DEF IsInjective
<1>4. CASE a = Len(seq) + 1 \/ b = Len(seq) + 1
  BY <1>1, <1>2, <1>4
<1> QED
  BY <1>1, <1>3, <1>4

LEMMA Registers ==
  ASSUME TypeOK, ReadRegister
  PROVE  /\ UNCHANGED <<calm, file, sub, ctl, torn>>
         /\ Range(req') = {}
         /\ \/ subs' = subs /\ pub'.pc \in {"read", "test"}
            \/ /\ pub'.pc = "open" /\ pub'.msg = "ok" /\ Target' \in Subs
               /\ Reg(Target') \in Range(req)
               /\ Range(subs') = Range(subs) \cup {Target'}
               /\ IsInjective(subs) /\ Target' \notin Range(subs) => IsInjective(subs')
<1>1. UNCHANGED <<calm, file, sub, ctl, torn>> /\ Range(req') = {}
  BY RangeOfEmpty DEF ReadRegister
<1>2. CASE Len(subs) < MaxSub
  <2> DEFINE s == Head(req).s
  <2>1. subs \in Seq(Subs) /\ s \in Subs /\ Reg(s) \in Range(req)
    BY TypeParts, HeadRequest DEF ReadRegister
  <2>2. /\ subs' = Append(subs, s)
        /\ pub' = [pub EXCEPT !.pc = "open", !.msg = "ok", !.i = Len(subs) + 1]
    BY <1>2 DEF ReadRegister
  <2> HIDE DEF s
  <2>3. Range(subs') = Range(subs) \cup {s} /\ subs'[Len(subs) + 1] = s
    BY <2>1, <2>2, RangeOfAppend, AppendProperties
  <2>4. pub'.pc = "open" /\ pub'.msg = "ok" /\ pub'.i = Len(subs) + 1
    BY <2>2, TypeParts DEF PubState
  <2>5. Target' = s
    BY <2>3, <2>4 DEF Target
  <2>6. IsInjective(subs) /\ s \notin Range(subs) => IsInjective(subs')
    BY <2>1, <2>2, InjectiveAppend
  <2> QED
    BY <1>1, <2>1, <2>3, <2>4, <2>5, <2>6
<1>3. CASE ~(Len(subs) < MaxSub)
  BY <1>1, <1>3, TypeParts, RequestsAreRead DEF ReadRegister
<1> QED
  BY <1>2, <1>3

LEMMA Writes ==
  ASSUME TypeOK, WriteControl
  PROVE  /\ UNCHANGED <<calm, subs, req, file, sub, torn>>
         /\ pub.pc = "write" /\ Target \in Subs /\ Target \in Range(subs) /\ Reading(Target)
         /\ pub'.pc = "close" /\ pub'.msg = pub.msg
         /\ ctl'[Target] \in {ctl[Target], pub.msg}
         /\ \A t \in Subs \ {Target} : ctl'[t] = ctl[t]
<1>1. /\ UNCHANGED <<calm, subs, req, file, sub, torn>> /\ PubGoto("close")
      /\ pub.pc = "write" /\ Reading(Target)
      /\ ctl' = [ctl EXCEPT ![Target] = IF @ = "empty" THEN pub.msg ELSE @]
  BY DEF WriteControl
<1>2. Target \in Subs /\ Target \in Range(subs)
  BY <1>1, TargetIsListed
<1>3. pub'.pc = "close" /\ pub'.msg = pub.msg
  BY <1>1, TypeParts, PubGoes
<1>4. ctl'[Target] \in {ctl[Target], pub.msg} /\ \A t \in Subs \ {Target} : ctl'[t] = ctl[t]
  BY <1>1, <1>2 DEF TypeOK
<1> QED
  BY <1>1, <1>2, <1>3, <1>4

\* WriteBroken and CloseControl.
LEMMA Closes ==
  ASSUME TypeOK, WriteBroken \/ CloseControl
  PROVE  /\ UNCHANGED <<calm, subs, file, sub, torn>>
         /\ Range(req') \subseteq Range(req)
         /\ \A t \in Subs : ctl'[t] \in {ctl[t], "empty"}
<1>1. Target \in Subs
  BY TargetIsListed DEF WriteBroken, CloseControl
<1>2. CASE WriteBroken
  BY <1>1, <1>2, RangeOfEmpty DEF WriteBroken, TypeOK
<1>3. CASE CloseControl
  BY <1>1, <1>3 DEF CloseControl, TypeOK
<1> QED
  BY <1>2, <1>3

\* The publisher's other steps, apart from the data file.
LEMMA OtherSteps ==
  ASSUME \/ Mkfifo \/ OpenRequestFifo \/ ReadNothing \/ TestEmpty \/ TruncateFile \/ FlushFile
         \/ OpenControl \/ Sleep \/ UnlinkRequestFifo \/ PubExit \/ UNCHANGED vars
  PROVE  /\ UNCHANGED <<calm, subs, sub, ctl, torn>>
         /\ Range(req') \subseteq Range(req)
BY RangeOfEmpty DEF Mkfifo, OpenRequestFifo, ReadNothing, TestEmpty, TruncateFile, FlushFile,
                    OpenControl, Sleep, UnlinkRequestFifo, PubExit, vars

\* A subscriber's step leaves the publisher and the other subscribers alone.
Moves(s, from, to) ==
  /\ UNCHANGED <<calm, pub, subs, file>>
  /\ sub[s].pc \in from /\ sub'[s].pc \in to
  /\ \A t \in Subs \ {s} : sub'[t] = sub[t] /\ ctl'[t] = ctl[t]

KeepsCtl(s) == ctl'[s] = ctl[s]
LosesCtl(s) == ctl'[s] \in {ctl[s], "empty"}
Quietly == UNCHANGED <<req, torn>>

LEMMA SubscriberSteps ==
  ASSUME TypeOK, Counts, NEW s \in Subs
  PROVE  /\ Start(s) => Moves(s, {"new"}, {"req"}) /\ KeepsCtl(s) /\ Quietly
         /\ OpenRequest(s) => Moves(s, {"req"}, {"send", "req", "failed"}) /\ KeepsCtl(s) /\ Quietly
         /\ SendRequest(s) =>
              /\ KeepsCtl(s) /\ torn' = torn
              /\ \/ Moves(s, {"send"}, {"sent"}) /\ Range(req') = Range(req) \cup {Reg(s)}
                 \/ Moves(s, {"send"}, {"killed"}) /\ req' = req
         /\ OpenOwn(s) => /\ Moves(s, {"sent"}, {"ack"}) \/ Moves(s, {"acked"}, {"poll"})
                          /\ KeepsCtl(s) /\ Quietly
         /\ ReadAck(s) => /\ Moves(s, {"ack"}, {"acked"}) /\ Quietly
                          /\ ctl[s] = "ok" /\ ctl'[s] = "empty"
         /\ ReadNoAck(s) => /\ Moves(s, {"ack"}, {"ack"}) /\ Quietly
                            /\ ctl'[s] = "empty"
         /\ Timeout(s) => /\ Moves(s, {"ack"}, {"req", "failed"}) /\ LosesCtl(s) /\ Quietly
                          /\ calm => Ignored(s)
         /\ Poll(s) => /\ Moves(s, {"poll"}, {"got"}) /\ Quietly
                       /\ ctl[s] # "empty" /\ ctl'[s] = "empty"
         /\ ReadFile(s) => /\ Moves(s, {"got"}, {"poll", "bye"}) /\ KeepsCtl(s) /\ req' = req
                           /\ torn' = torn \/ file = "empty"
         /\ OpenUnregister(s) => Moves(s, {"bye"}, {"byeSend"}) /\ KeepsCtl(s) /\ Quietly
         /\ SendUnregister(s) =>
              /\ LosesCtl(s) /\ torn' = torn
              /\ \/ Moves(s, {"byeSend"}, {"leave"}) /\ Range(req') = Range(req) \cup {Unreg(s)}
                 \/ Moves(s, {"byeSend"}, {"killed"}) /\ req' = req
         /\ Leave(s) => Moves(s, {"leave"}, {"done"}) /\ LosesCtl(s) /\ Quietly
<1>t. sub \in [Subs -> SubState] /\ req \in Seq(Request) /\ ctl \in [Subs -> {"empty", "ok", "x"}]
  BY TypeParts DEF TypeOK
<1>1. ASSUME Start(s) PROVE Moves(s, {"new"}, {"req"}) /\ KeepsCtl(s) /\ Quietly
  BY <1>1, <1>t, SubGoes DEF Start, SubPc, Moves, KeepsCtl, Quietly
<1>2. ASSUME OpenRequest(s)
      PROVE  Moves(s, {"req"}, {"send", "req", "failed"}) /\ KeepsCtl(s) /\ Quietly
  <2>1. CASE Goto(s, "send")
    BY <1>2, <2>1, <1>t, SubGoes DEF OpenRequest, SubPc, Moves, KeepsCtl, Quietly
  <2>2. CASE Retry(s)
    BY <1>2, <2>2, <1>t, SubRetries DEF OpenRequest, Counts, Asking, Moves, KeepsCtl, Quietly
  <2> QED
    BY <1>2, <2>1, <2>2 DEF OpenRequest
<1>3. ASSUME SendRequest(s)
      PROVE  /\ KeepsCtl(s) /\ torn' = torn
             /\ \/ Moves(s, {"send"}, {"sent"}) /\ Range(req') = Range(req) \cup {Reg(s)}
                \/ Moves(s, {"send"}, {"killed"}) /\ req' = req
  <2>1. CASE PubReads
    <3>1. Range(req') = Range(req) \cup {Reg(s)}
      BY <1>3, <2>1, <1>t, Requests, RequestSent DEF SendRequest
    <3> QED
      BY <1>3, <2>1, <3>1, <1>t, SubGoes DEF SendRequest, SubPc, Moves, KeepsCtl
  <2>2. CASE ~PubReads
    BY <1>3, <2>2, <1>t, SubGoes DEF SendRequest, SubPc, Moves, KeepsCtl
  <2> QED
    BY <2>1, <2>2
<1>4. ASSUME OpenOwn(s)
      PROVE  /\ Moves(s, {"sent"}, {"ack"}) \/ Moves(s, {"acked"}, {"poll"})
             /\ KeepsCtl(s) /\ Quietly
  <2>1. CASE sub[s].pc = "sent"
    BY <1>4, <2>1, <1>t, SubGoes DEF OpenOwn, SubPc, Moves, KeepsCtl, Quietly
  <2>2. CASE sub[s].pc = "acked"
    BY <1>4, <2>2, <1>t, SubGoes DEF OpenOwn, SubPc, Moves, KeepsCtl, Quietly
  <2> QED
    BY <1>4, <2>1, <2>2 DEF OpenOwn
<1>5. ASSUME ReadAck(s)
      PROVE  /\ Moves(s, {"ack"}, {"acked"}) /\ Quietly
             /\ ctl[s] = "ok" /\ ctl'[s] = "empty"
  BY <1>5, <1>t, SubGoes, ControlCloses DEF ReadAck, SubPc, Moves, Quietly
<1>6. ASSUME ReadNoAck(s)
      PROVE  Moves(s, {"ack"}, {"ack"}) /\ Quietly /\ ctl'[s] = "empty"
  BY <1>6, <1>t DEF ReadNoAck, Moves, Quietly
<1>7. ASSUME Timeout(s)
      PROVE  /\ Moves(s, {"ack"}, {"req", "failed"}) /\ LosesCtl(s) /\ Quietly
             /\ calm => Ignored(s)
  BY <1>7, <1>t, SubRetries, ControlCloses DEF Timeout, Counts, Asking, Moves, LosesCtl, Quietly
<1>8. ASSUME Poll(s)
      PROVE  Moves(s, {"poll"}, {"got"}) /\ Quietly /\ ctl[s] # "empty" /\ ctl'[s] = "empty"
  BY <1>8, <1>t, SubGoes DEF Poll, SubPc, Moves, Quietly
<1>9. ASSUME ReadFile(s)
      PROVE  /\ Moves(s, {"got"}, {"poll", "bye"}) /\ KeepsCtl(s) /\ req' = req
             /\ torn' = torn \/ file = "empty"
  <2>1. sub[s].updates < MaxUpdates
    BY <1>9 DEF ReadFile, Counts
  <2>2. torn' = torn \/ file = "empty"
    BY <1>9 DEF ReadFile
  <2>3. UNCHANGED <<calm, pub, subs, req, file, ctl>> /\ sub[s].pc = "got"
    BY <1>9 DEF ReadFile
  <2> QED
    BY <1>9, <1>t, <2>1, <2>2, <2>3, SubReadsFile DEF Moves, KeepsCtl
<1>10. ASSUME OpenUnregister(s) PROVE Moves(s, {"bye"}, {"byeSend"}) /\ KeepsCtl(s) /\ Quietly
  BY <1>10, <1>t, SubGoes DEF OpenUnregister, SubPc, Moves, KeepsCtl, Quietly
<1>11. ASSUME SendUnregister(s)
       PROVE  /\ LosesCtl(s) /\ torn' = torn
              /\ \/ Moves(s, {"byeSend"}, {"leave"}) /\ Range(req') = Range(req) \cup {Unreg(s)}
                 \/ Moves(s, {"byeSend"}, {"killed"}) /\ req' = req
  <2>1. CASE PubReads
    <3>1. Range(req') = Range(req) \cup {Unreg(s)}
      BY <1>11, <2>1, <1>t, Requests, RequestSent DEF SendUnregister
    <3> QED
      BY <1>11, <2>1, <3>1, <1>t, SubGoes DEF SendUnregister, SubPc, Moves, LosesCtl
  <2>2. CASE ~PubReads
    BY <1>11, <2>2, <1>t, SubGoes, ControlCloses DEF SendUnregister, SubPc, Moves, LosesCtl
  <2> QED
    BY <2>1, <2>2
<1>12. ASSUME Leave(s) PROVE Moves(s, {"leave"}, {"done"}) /\ LosesCtl(s) /\ Quietly
  BY <1>12, <1>t, SubGoes, ControlCloses DEF Leave, SubPc, Moves, LosesCtl, Quietly
<1> QED
  BY <1>1, <1>2, <1>3, <1>4, <1>5, <1>6, <1>7, <1>8, <1>9, <1>10, <1>11, <1>12

-----------------------------------------------------------------------------
(* Who is listed *)

LEMMA ListedPreserved == TypeOK /\ Counts /\ Listed /\ [Next]_vars => Listed'
<1> SUFFICES ASSUME TypeOK, Counts, Listed, [Next]_vars PROVE Listed'
  OBVIOUS
<1>1. CASE ReadUnregister
  BY <1>1, Unregisters, RegAndUnreg DEF Listed
<1>2. CASE ReadRegister
  BY <1>2, Registers DEF Listed
<1>3. CASE WriteControl
  BY <1>3, Writes DEF Listed
<1>4. CASE WriteBroken \/ CloseControl
  BY <1>4, Closes DEF Listed
<1>5. CASE \/ Mkfifo \/ OpenRequestFifo \/ ReadNothing \/ TestEmpty \/ TruncateFile \/ FlushFile
           \/ OpenControl \/ Sleep \/ UnlinkRequestFifo \/ PubExit \/ UNCHANGED vars
  BY <1>5, OtherSteps DEF Listed
<1>6. ASSUME NEW s \in Subs, Start(s) \/ Subscriber(s) PROVE Listed'
  <2> USE SubscriberSteps, RegAndUnreg
  <2> USE DEF Listed, Moves, KeepsCtl, LosesCtl, Quietly
  <2>1. CASE Start(s)
    BY <2>1
  <2>2. CASE OpenRequest(s)
    BY <2>2
  <2>3. CASE SendRequest(s)
    BY <2>3
  <2>4. CASE OpenOwn(s)
    BY <2>4
  <2>5. CASE ReadAck(s)
    BY <2>5
  <2>6. CASE ReadNoAck(s)
    BY <2>6
  <2>7. CASE Timeout(s)
    BY <2>7
  <2>8. CASE Poll(s)
    BY <2>8
  <2>9. CASE ReadFile(s)
    BY <2>9
  <2>10. CASE OpenUnregister(s)
    BY <2>10
  <2>11. CASE SendUnregister(s)
    BY <2>11
  <2>12. CASE Leave(s)
    BY <2>12
  <2> QED
    BY <1>6, <2>1, <2>2, <2>3, <2>4, <2>5, <2>6, <2>7, <2>8, <2>9, <2>10, <2>11, <2>12
       DEF Subscriber
<1> QED
  BY <1>1, <1>2, <1>3, <1>4, <1>5, <1>6 DEF Next, Publisher

-----------------------------------------------------------------------------
(* Whom the publisher answers, and when it is quiet *)

PubControl ==
  /\ pub'.pc \in {"open", "write"} /\ pub'.msg = "ok"
       => ReadRegister \/ (pub.pc = "open" /\ pub.msg = "ok" /\ Target' = Target)
  /\ Quiet' => Quiet \/ Sleep
  /\ pub.pc = "flush" => file' = "whole"
  /\ file' = "empty" => file = "empty" \/ pub'.pc = "flush"

LEMMA PublisherControl == TypeOK /\ Publisher => PubControl
<1> SUFFICES ASSUME TypeOK, Publisher PROVE PubControl
  OBVIOUS
<1>t. pub \in PubState
  BY TypeParts
<1> USE DEF PubControl, Quiet
<1>1. CASE Mkfifo
  BY <1>1, <1>t, PubGoes DEF Mkfifo
<1>2. CASE OpenRequestFifo
  BY <1>2, <1>t, PubGoes DEF OpenRequestFifo
<1>3. CASE ReadNothing
  BY <1>3, <1>t, RequestsAreRead DEF ReadNothing
<1>4. CASE ReadUnregister
  BY <1>4, <1>t, RequestsAreRead DEF ReadUnregister
<1>5. CASE ReadRegister
  <2>1. pub.pc = "read" /\ file' = file
    BY <1>5 DEF ReadRegister
  <2> QED
    BY <1>5, <2>1
<1>6. CASE TestEmpty
  <2>1. PubGoto("exiting") \/ PubGoto("truncate")
    BY <1>6 DEF TestEmpty
  <2> QED
    BY <1>6, <2>1, <1>t, PubGoes DEF TestEmpty
<1>7. CASE TruncateFile
  BY <1>7, <1>t, PubGoes DEF TruncateFile
<1>8. CASE FlushFile
  <2>1. 1 \in 1..MaxSub + 1
    OBVIOUS
  <2> QED
    BY <1>8, <1>t, <2>1, Notifies DEF FlushFile
<1>9. CASE OpenControl
  <2>1. CASE PubGoto("write")
    BY <1>9, <2>1, <1>t, PubGoes DEF OpenControl, Target
  <2>2. CASE Answered
    BY <1>9, <2>2, <1>t, Answers DEF OpenControl
  <2> QED
    BY <1>9, <2>1, <2>2 DEF OpenControl
<1>10. CASE WriteControl
  BY <1>10, <1>t, PubGoes DEF WriteControl
<1>11. CASE WriteBroken
  BY <1>11, <1>t, PubGoes DEF WriteBroken
<1>12. CASE CloseControl
  BY <1>12, <1>t, Answers DEF CloseControl
<1>13. CASE Sleep
  BY <1>13, <1>t, PubGoes DEF Sleep
<1>14. CASE UnlinkRequestFifo
  BY <1>14, <1>t, PubGoes DEF UnlinkRequestFifo
<1>15. CASE PubExit
  BY <1>15, <1>t, PubGoes DEF PubExit
<1> QED
  BY <1>1, <1>2, <1>3, <1>4, <1>5, <1>6, <1>7, <1>8, <1>9, <1>10, <1>11, <1>12, <1>13,
     <1>14, <1>15 DEF Publisher

-----------------------------------------------------------------------------
(* Who asks *)

LEMMA AsksOncePreserved == TypeOK /\ Counts /\ Listed /\ AsksOnce /\ [Next]_vars => AsksOnce'
<1> SUFFICES ASSUME TypeOK, Counts, Listed, AsksOnce, [Next]_vars, calm' PROVE AsksOnce'
  BY DEF AsksOnce
<1> USE DEF AsksOnce, Asking
<1>1. CASE ReadUnregister
  BY <1>1, Unregisters, RegAndUnreg DEF Listed
<1>2. CASE ReadRegister
  BY <1>2, Registers, RegAndUnreg
<1>3. CASE WriteControl
  BY <1>3, Writes
<1>4. CASE WriteBroken \/ CloseControl
  <2>1. ~(pub'.pc \in {"open", "write"} /\ pub'.msg = "ok")
    BY <1>4, PublisherControl DEF Publisher, PubControl, WriteBroken, CloseControl, ReadRegister
  <2> QED
    BY <1>4, <2>1, Closes
<1>5. CASE \/ Mkfifo \/ OpenRequestFifo \/ ReadNothing \/ TestEmpty \/ TruncateFile \/ FlushFile
           \/ OpenControl \/ Sleep \/ UnlinkRequestFifo \/ PubExit
  <2>1. /\ UNCHANGED <<calm, subs, sub, ctl, torn>>
        /\ Range(req') \subseteq Range(req)
    BY <1>5, OtherSteps
  <2>2. ~ReadRegister
    BY <1>5 DEF ReadRegister, Mkfifo, OpenRequestFifo, ReadNothing, TestEmpty, TruncateFile,
                FlushFile, OpenControl, Sleep, UnlinkRequestFifo, PubExit
  <2>3. pub'.pc \in {"open", "write"} /\ pub'.msg = "ok"
          => pub.pc = "open" /\ pub.msg = "ok" /\ Target' = Target
    BY <1>5, <2>2, PublisherControl DEF Publisher, PubControl
  <2> QED
    BY <2>1, <2>3
<1>6. CASE UNCHANGED vars
  BY <1>6 DEF vars, Target
<1>7. ASSUME NEW s \in Subs, Start(s) \/ Subscriber(s) PROVE AsksOnce'
  <2>1. pub.pc \in {"open", "write"} => Target \in Subs /\ Target \in Range(subs)
    BY TargetIsListed
  <2>2. UNCHANGED <<pub, subs>> => Target' = Target
    BY DEF Target
  <2>u. /\ UNCHANGED <<calm, pub, subs>>
        /\ \A t \in Subs \ {s} : sub'[t] = sub[t] /\ ctl'[t] = ctl[t]
    BY <1>7, SubscriberSteps DEF Subscriber, Moves
  <2> DEFINE Others == \A t \in Subs \ {s} :
                /\ Reg(t) \in Range(req') => sub'[t].pc \in {"sent", "ack"} /\ t \notin Range(subs')
                /\ sub'[t].pc \in {"new", "req", "send"} => t \notin Range(subs')
                /\ t \notin Range(subs') /\ sub'[t].pc \in Asking => ctl'[t] = "empty"
             Own == /\ Reg(s) \in Range(req') => sub'[s].pc \in {"sent", "ack"} /\ s \notin Range(subs')
                    /\ sub'[s].pc \in {"new", "req", "send"} => s \notin Range(subs')
                    /\ s \notin Range(subs') /\ sub'[s].pc \in Asking => ctl'[s] = "empty"
             Answer == pub'.pc \in {"open", "write"} /\ pub'.msg = "ok" /\ Target' = s
                         => sub'[s].pc \in {"sent", "ack"} /\ ctl'[s] = "empty"
  <2>r. \A t \in Subs \ {s} : Reg(t) \in Range(req') => Reg(t) \in Range(req)
    BY <1>7, SubscriberSteps, RegAndUnreg DEF Subscriber, Quietly
  <2>o. Others
    BY <2>u, <2>r
  <2>a. pub'.pc \in {"open", "write"} /\ pub'.msg = "ok" /\ Target' = s
          => sub[s].pc \in {"sent", "ack"} /\ ctl[s] = "empty" /\ s \in Range(subs)
    BY <2>1, <2>2, <2>u
  <2>3. Own /\ Answer
    <3>1. CASE Start(s)
      <4>1. Own
        BY <3>1, SubscriberSteps, RegAndUnreg DEF Moves, KeepsCtl, LosesCtl, Quietly
      <4>2. Answer
        BY <3>1, <2>a, <2>u, SubscriberSteps DEF Moves, KeepsCtl, LosesCtl
      <4> QED
        BY <4>1, <4>2
    <3>2. CASE OpenRequest(s)
      <4>1. Own
        BY <3>2, SubscriberSteps, RegAndUnreg DEF Moves, KeepsCtl, LosesCtl, Quietly
      <4>2. Answer
        BY <3>2, <2>a, <2>u, SubscriberSteps DEF Moves, KeepsCtl, LosesCtl
      <4> QED
        BY <4>1, <4>2
    <3>3. CASE SendRequest(s)
      <4>1. Own
        BY <3>3, SubscriberSteps, RegAndUnreg DEF Moves, KeepsCtl, LosesCtl, Quietly
      <4>2. Answer
        BY <3>3, <2>a, <2>u, SubscriberSteps DEF Moves, KeepsCtl, LosesCtl
      <4> QED
        BY <4>1, <4>2
    <3>4. CASE OpenOwn(s)
      <4>1. Own
        BY <3>4, SubscriberSteps, RegAndUnreg DEF Moves, KeepsCtl, LosesCtl, Quietly
      <4>2. Answer
        BY <3>4, <2>a, <2>u, SubscriberSteps DEF Moves, KeepsCtl, LosesCtl
      <4> QED
        BY <4>1, <4>2
    <3>5. CASE ReadAck(s)
      <4>1. Own
        BY <3>5, SubscriberSteps, RegAndUnreg DEF Moves, KeepsCtl, LosesCtl, Quietly
      <4>2. Answer
        BY <3>5, <2>a, <2>u, SubscriberSteps DEF Moves, KeepsCtl, LosesCtl
      <4> QED
        BY <4>1, <4>2
    <3>6. CASE ReadNoAck(s)
      <4>1. Own
        BY <3>6, SubscriberSteps, RegAndUnreg DEF Moves, KeepsCtl, LosesCtl, Quietly
      <4>2. Answer
        BY <3>6, <2>a, <2>u, SubscriberSteps DEF Moves, KeepsCtl, LosesCtl
      <4> QED
        BY <4>1, <4>2
    <3>7. CASE Timeout(s)
      <4>1. Own
        BY <3>7, SubscriberSteps, RegAndUnreg DEF Moves, KeepsCtl, LosesCtl, Quietly, Ignored
      <4>2. Answer
        BY <3>7, <2>a, <2>u, SubscriberSteps DEF Moves, KeepsCtl, LosesCtl, Ignored
      <4> QED
        BY <4>1, <4>2
    <3>8. CASE Poll(s)
      <4>1. Own
        BY <3>8, SubscriberSteps, RegAndUnreg DEF Moves, KeepsCtl, LosesCtl, Quietly
      <4>2. Answer
        BY <3>8, <2>a, <2>u, SubscriberSteps DEF Moves, KeepsCtl, LosesCtl
      <4> QED
        BY <4>1, <4>2
    <3>9. CASE ReadFile(s)
      <4>1. Own
        BY <3>9, SubscriberSteps, RegAndUnreg DEF Moves, KeepsCtl, LosesCtl, Quietly
      <4>2. Answer
        BY <3>9, <2>a, <2>u, SubscriberSteps DEF Moves, KeepsCtl, LosesCtl
      <4> QED
        BY <4>1, <4>2
    <3>10. CASE OpenUnregister(s)
      <4>1. Own
        BY <3>10, SubscriberSteps, RegAndUnreg DEF Moves, KeepsCtl, LosesCtl, Quietly
      <4>2. Answer
        BY <3>10, <2>a, <2>u, SubscriberSteps DEF Moves, KeepsCtl, LosesCtl
      <4> QED
        BY <4>1, <4>2
    <3>11. CASE SendUnregister(s)
      <4>1. Own
        BY ZenonT(60), <3>11, SubscriberSteps, RegAndUnreg DEF Moves, KeepsCtl, LosesCtl, Quietly
      <4>2. Answer
        BY <3>11, <2>a, <2>u, SubscriberSteps DEF Moves, KeepsCtl, LosesCtl
      <4> QED
        BY <4>1, <4>2
    <3>12. CASE Leave(s)
      <4>1. Own
        BY <3>12, SubscriberSteps, RegAndUnreg DEF Moves, KeepsCtl, LosesCtl, Quietly
      <4>2. Answer
        BY <3>12, <2>a, <2>u, SubscriberSteps DEF Moves, KeepsCtl, LosesCtl
      <4> QED
        BY <4>1, <4>2
    <3> QED
      BY <1>7, <3>1, <3>2, <3>3, <3>4, <3>5, <3>6, <3>7, <3>8, <3>9, <3>10, <3>11, <3>12
         DEF Subscriber
  <2> QED
    BY <2>1, <2>2, <2>u, <2>o, <2>3
<1> QED
  BY <1>1, <1>2, <1>3, <1>4, <1>5, <1>6, <1>7 DEF Next, Publisher

-----------------------------------------------------------------------------
(* Who goes to the data file *)

LEMMA LinesPreserved ==
  TypeOK /\ Counts /\ Listed /\ AsksOnce /\ Lines /\ [Next]_vars => Lines'
<1> SUFFICES ASSUME TypeOK, Counts, Listed, AsksOnce, Lines, [Next]_vars PROVE Lines'
  OBVIOUS
<1>1. CASE Publisher
  <2>1. /\ Quiet' => Quiet \/ Sleep
        /\ file' = "empty" => pub'.pc = "flush"
    BY <1>1, PublisherControl DEF PubControl, Lines
  <2>2. CASE WriteControl
    <3>1. sub[Target].pc # "acked"
      BY <2>2, Writes DEF Reading
    <3>2. calm /\ Quiet => sub[Target].pc # "poll"
      BY <2>2, Writes DEF AsksOnce, Quiet
    <3> QED
      BY <2>1, <2>2, <3>1, <3>2, Writes DEF Lines, Quiet, WriteControl, Sleep
  <2>3. CASE Sleep
    BY <2>1, <2>3, OtherSteps DEF Lines, Sleep, Busy
  <2>4. CASE ~WriteControl /\ ~Sleep
    <3>1. UNCHANGED <<calm, sub>> /\ \A t \in Subs : ctl'[t] \in {ctl[t], "empty"}
      BY <1>1, <2>4, Unregisters, Registers, Closes, OtherSteps DEF Publisher
    <3> QED
      BY <2>1, <2>4, <3>1 DEF Lines
  <2> QED
    BY <2>2, <2>3, <2>4
<1>2. CASE UNCHANGED vars
  BY <1>2 DEF vars, Lines, Quiet
<1>3. ASSUME NEW s \in Subs, Start(s) \/ Subscriber(s) PROVE Lines'
  <2>1. UNCHANGED pub => (Quiet' <=> Quiet)
    BY DEF Quiet
  <2> USE SubscriberSteps
  <2> USE DEF Lines, Moves, KeepsCtl, LosesCtl, Quietly
  <2>2. CASE Start(s)
    BY <2>2, <2>1
  <2>3. CASE OpenRequest(s)
    BY <2>3, <2>1
  <2>4. CASE SendRequest(s)
    BY <2>4, <2>1
  <2>5. CASE OpenOwn(s)
    BY <2>5, <2>1
  <2>6. CASE ReadAck(s)
    BY <2>6, <2>1
  <2>7. CASE ReadNoAck(s)
    BY <2>7, <2>1
  <2>8. CASE Timeout(s)
    BY <2>8, <2>1
  <2>9. CASE Poll(s)
    BY <2>9, <2>1
  <2>10. CASE ReadFile(s)
    BY <2>10, <2>1
  <2>11. CASE OpenUnregister(s)
    BY <2>11, <2>1
  <2>12. CASE SendUnregister(s)
    BY <2>12, <2>1
  <2>13. CASE Leave(s)
    BY <2>13, <2>1
  <2> QED
    BY <1>3, <2>2, <2>3, <2>4, <2>5, <2>6, <2>7, <2>8, <2>9, <2>10, <2>11, <2>12, <2>13
       DEF Subscriber
<1> QED
  BY <1>1, <1>2, <1>3 DEF Next

\* Nobody reads the file while it is empty.
LEMMA TornPreserved == TypeOK /\ Counts /\ Lines /\ SeesWholeLine /\ [Next]_vars => SeesWholeLine'
<1> SUFFICES ASSUME TypeOK, Counts, Lines, SeesWholeLine, [Next]_vars PROVE SeesWholeLine'
  OBVIOUS
<1>1. CASE Publisher \/ UNCHANGED vars
  BY <1>1, Unregisters, Registers, Writes, Closes, OtherSteps DEF Publisher, SeesWholeLine
<1>2. ASSUME NEW s \in Subs, Start(s) \/ Subscriber(s) PROVE SeesWholeLine'
  <2>1. CASE ReadFile(s)
    <3>1. calm => file # "empty"
      BY <2>1, SubscriberSteps DEF Lines, Quiet, Moves
    <3> QED
      BY <2>1, <3>1, SubscriberSteps DEF SeesWholeLine, Moves
  <2>2. CASE ~ReadFile(s)
    BY <1>2, <2>2, SubscriberSteps DEF Subscriber, SeesWholeLine, Moves, Quietly
  <2> QED
    BY <2>1, <2>2
<1> QED
  BY <1>1, <1>2 DEF Next

-----------------------------------------------------------------------------
(* The theorems *)

LEMMA Invariance == Spec => [](IInv /\ SeesWholeLine)
<1>1. Init => IInv /\ SeesWholeLine
  BY InitInvariant DEF Init, SeesWholeLine
<1>2. IInv /\ SeesWholeLine /\ [Next]_vars => IInv' /\ SeesWholeLine'
  BY TypePreserved, CountsPreserved, ListedPreserved, AsksOncePreserved, LinesPreserved,
     TornPreserved DEF IInv
<1> QED
  BY <1>1, <1>2, PTL DEF Spec

\* Every reachable state is well typed: the publisher writes to an entry its
\* table has, and neither the table nor the loops exceed their bounds.
THEOREM TypeCorrect == Spec => []TypeOK
<1>1. IInv => TypeOK
  BY DEF IInv
<1> QED
  BY <1>1, Invariance, PTL

\* Whoever has been told OK is in the table until it asks to be removed, and with
\* kind clocks nobody is in it twice (mpa_pub_full.c:22-70, mpa_sub_full.c:24-66).
THEOREM AcknowledgedIsListed == Spec => []RegisteredIsListed
<1>1. IInv => RegisteredIsListed
  BY DEF IInv, Listed, AsksOnce, RegisteredIsListed
<1> QED
  BY <1>1, Invariance, PTL

\* With kind clocks no subscriber opens the data file between the publisher's
\* fopen("w") and its fclose() (mpa_pub_full.c:102-105).
THEOREM WholeLines == Spec => []SeesWholeLine
BY Invariance, PTL
=============================================================================
