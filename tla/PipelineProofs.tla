--------------------------- MODULE PipelineProofs ---------------------------
(***************************************************************************)
(* The safety properties of Pipeline, for configurations of any length,    *)
(* plugin directories of any size and any number of frames.                *)
(***************************************************************************)
EXTENDS Pipeline, SequenceTheorems, FiniteSetTheorems, TLAPS

-----------------------------------------------------------------------------
(* The inductive invariant, part by part *)

Last == Len(elems)
Destroying == {"derived", "stop_sink", "join_sink", "stop_src", "join_src"}
AfterInit == {"push", "sleep", "stop", "shutdown", "close", "done"} \cup Destroying

Places == Positions \X {"sink", "elem", "src"}
Workers == [pc : {"none", "head", "wait", "call", "exited"}, frame : Frames \cup {0},
            at : Places \cup {<<>>}]

TypeOK ==
  /\ dir \in Directories
  /\ plugins \in [Types -> Nat]
  /\ libs \subseteq 1..Len(dir)
  /\ chain \in Chains
  /\ drains \in BOOLEAN
  /\ elems \in Seq(Types \cup {NullElement})
  /\ mpc \in {"scan", "build", "init"} \cup AfterInit
  /\ k \in Nat
  /\ life \in [Positions -> {"none", "alive", "base", "nosink", "gone"}]
  /\ linked \subseteq Positions
  /\ q \in [Pads -> Seq(Frames)]
  /\ run \in [Pads -> BOOLEAN]
  /\ missed \subseteq Pads
  /\ wk \in [Pads -> Workers]
  /\ inv \in [Frames -> Nat]
  /\ got \in Seq(Frames)
  /\ fault \in {"none", "null_deref", "use_after_free", "pure_virtual"}

\* The registry and the configuration: a name leads to a library that is open,
\* and what is built so far is what the configuration asks for.
Registry == /\ \A t \in Types : plugins[t] # 0 /\ mpc # "done" => plugins[t] \in libs
            /\ \A j \in libs : dir[j] \in Types
            /\ chain \in Reversed => libs = {}
            /\ mpc = "done" => \A j \in libs : plugins[dir[j]] # j

Built == /\ mpc = "scan" => chain \notin Reversed /\ elems = <<>>
         /\ mpc = "build" => Last + 1 = k /\ Last <= Len(chain)
         /\ mpc \notin {"scan", "build"} => Last = Len(chain)
         /\ \A i \in 1..Last : elems[i] = IF Provided(chain[i]) THEN chain[i] ELSE NullElement

\* main() is where its index says: after init() there is no null element and
\* every element but the last has a src pad; the elements are destroyed in order.
Initialised(i) == IF mpc = "init" THEN i < k ELSE mpc \in AfterInit /\ i <= Last
Phases ==
  /\ k # 0 \/ mpc \in {"close", "done"}
  /\ mpc = "init" => k <= Last + 1
  /\ mpc = "push" => k <= NFrames + 1
  /\ mpc \in Destroying => k \in 1..Last
  /\ mpc = "close" => chain \notin Reversed
  /\ \A i \in 1..Last : Initialised(i) => elems[i] # NullElement
  /\ \A i \in 1..Last : Initialised(i + 1) => Kind(i, "src") # "none"
  /\ linked = {i \in 1..Last : Initialised(i + 1)}

\* How much of element i exists, in each phase.
Earlier(i) == IF chain \in Reversed THEN k < i ELSE i < k
Expected(i) ==
  IF i > Last THEN "none"
  ELSE IF elems[i] = NullElement THEN "none"
  ELSE IF mpc \in {"close", "done"} THEN "gone"
  ELSE IF mpc \notin Destroying THEN "alive"
  ELSE IF Earlier(i) THEN "gone"
  ELSE IF i # k \/ mpc = "derived" THEN "alive"
  ELSE IF mpc \in {"stop_sink", "join_sink"} THEN "base"
  ELSE "nosink"
Lives == \A i \in Positions : life[i] = Expected(i)

\* The worker of a pad that is gone has been joined.
Idle(p) == wk[p] \in {NoWorker, Exited}
Joined == \A i \in Positions : \A side \in {"sink", "src"} : PadFreed(i, side) => Idle(<<i, side>>)

\* Only a pad that is a queue has a worker or holds frames, and no frame is
\* anywhere before main() pushes one.
IsQueue(p) == /\ p[1] \in 1..Last
              /\ elems[p[1]] # NullElement
              /\ Kind(p[1], p[2]) = "queue"
Queues == \A p \in Pads : /\ ~IsQueue(p) => wk[p] = NoWorker /\ q[p] = <<>>
                          /\ mpc \in {"scan", "build", "init"} => q[p] = <<>> /\ wk[p].pc # "call"

\* A call that a worker makes is downstream of its pad, in an element that is
\* there, and no queue lies between: a queue ends the chain of calls.
Stage(at) == 3 * at[1] + (IF at[2] = "sink" THEN 0 ELSE IF at[2] = "elem" THEN 1 ELSE 2)
CallOK(p) ==
  LET i == wk[p].at[1]
      place == wk[p].at[2]
  IN /\ wk[p].frame \in Frames
     /\ wk[p].at \in Places
     /\ i <= Last
     /\ Stage(p) < Stage(wk[p].at)
     /\ place = "elem" => Kind(i, "sink") # "none"
     /\ place = "src" => elems[i] \in {"InvertFilter", "Filter"}
     /\ \A r \in Pads : Stage(p) < Stage(r) /\ Stage(r) < Stage(wk[p].at) => ~IsQueue(r)
Calls == \A p \in Pads : wk[p].pc = "call" => CallOK(p)

\* What the two claims about faults need: the work is over when main() stops
\* after a sleep that is long enough.
Faults == /\ mpc \in {"scan", "build"} => fault = "none"
          /\ drains /\ mpc \in AfterInit \ {"push", "sleep"} => Quiescent

-----------------------------------------------------------------------------
(* The frames *)

\* How many frames main() has pushed.
Pushed == IF mpc \in {"scan", "build", "init"} THEN 0
          ELSE IF mpc = "push" THEN k - 1 ELSE NFrames

\* Frame f is in the queue of p or in the hands of its worker.
Occurs(s, f) == \E n \in 1..Len(s) : s[n] = f
Increasing(s) == \A m, n \in 1..Len(s) : m < n => s[m] < s[n]
Hand(p, f) == wk[p].pc = "call" /\ wk[p].frame = f
InQueue(p, f) == Occurs(q[p], f)
Holds(p, f) == Hand(p, f) \/ InQueue(p, f)

\* Frames are held in order: along each queue, behind the worker's hand, and
\* from a pad to one upstream of it.
Ordered ==
  /\ \A p \in Pads : Increasing(q[p])
  /\ \A p \in Pads, f, g \in Frames : Hand(p, f) /\ InQueue(p, g) => f < g
  /\ \A p, r \in Pads, f, g \in Frames :
        Stage(p) < Stage(r) /\ Holds(p, f) /\ Holds(r, g) => g < f

\* A configuration that takes frames and one that gives them to a sink.
Takes == elems # <<>> /\ elems[1] = "Source"
Gives == elems # <<>> /\ elems[Last] \in {"Sink", "QueueSink"}

\* The frames that have arrived are the first ones, those in between are held
\* by some pad, the others are not pushed yet.
Conserved ==
  /\ \A n \in 1..Len(got) : got[n] = n
  /\ Len(got) <= Pushed
  /\ got # <<>> => Takes /\ Gives
  /\ \A p \in Pads, f \in Frames : Holds(p, f) => Takes /\ Len(got) < f /\ f <= Pushed
  /\ Takes /\ Gives => \A f \in Frames : Len(got) < f /\ f <= Pushed => \E p \in Pads : Holds(p, f)

\* A frame has been inverted by the filters upstream of the place it is at.
Filters(j) == {i \in 1..j : elems[i] = "InvertFilter"}
Passes(j) == Cardinality(Filters(j))
Passed(at) == IF at[2] = "src" THEN at[1] ELSE at[1] - 1
Inversions ==
  /\ \A p \in Pads, f \in Frames : InQueue(p, f) => inv[f] = Passes(Passed(p))
  /\ \A p \in Pads, f \in Frames : Hand(p, f) => inv[f] = Passes(Passed(wk[p].at))
  /\ \A n \in 1..Len(got) : inv[n] = Passes(Last)
  /\ \A f \in Frames : Pushed < f => inv[f] = 0

Structure == Registry /\ Built /\ Phases /\ Lives
IInv == /\ TypeOK /\ Structure /\ Joined /\ Queues /\ Calls /\ Faults
        /\ Ordered /\ Conserved /\ Inversions

USE NFramesAssumption, ChainsAssumption, DirectoriesAssumption, ReversedAssumption

-----------------------------------------------------------------------------
(* Lemmas *)

\* The table of pads, entry by entry.
LEMMA Table ==
  /\ Types = {"Source", "InvertFilter", "Sink", "Filter", "QueueSink"}
  /\ NullElement \notin Types
  /\ PadKinds["Source"]["sink"] = "none" /\ PadKinds["Source"]["src"] = "queue"
  /\ PadKinds["InvertFilter"]["sink"] = "queue" /\ PadKinds["InvertFilter"]["src"] = "simple"
  /\ PadKinds["Sink"]["sink"] = "simple" /\ PadKinds["Sink"]["src"] = "none"
  /\ PadKinds["Filter"]["sink"] = "queue" /\ PadKinds["Filter"]["src"] = "queue"
  /\ PadKinds["QueueSink"]["sink"] = "queue" /\ PadKinds["QueueSink"]["src"] = "none"
BY DEF Types, PadKinds, NullElement

LEMMA KindType ==
  ASSUME NEW t \in Types, NEW side \in {"sink", "src"}
  PROVE  PadKinds[t][side] \in {"none", "queue", "simple"}
BY Table

\* A worker, as each step leaves it.
LEMMA WorkerTypes ==
  /\ Asleep \in Workers /\ AtHead \in Workers /\ Exited \in Workers /\ NoWorker \in Workers
  /\ Asleep.pc = "wait" /\ AtHead.pc = "head" /\ Exited.pc = "exited" /\ NoWorker.pc = "none"
  /\ \A f \in Frames, place \in Places :
        /\ Calling(f, place) \in Workers
        /\ Calling(f, place).pc = "call"
        /\ Calling(f, place).frame = f
        /\ Calling(f, place).at = place
BY DEF Asleep, AtHead, Exited, NoWorker, Resting, Workers, Calling

LEMMA UpdateType ==
  ASSUME NEW S, NEW T, NEW f \in [S -> T], NEW x \in S, NEW y \in T
  PROVE  [f EXCEPT ![x] = y] \in [S -> T]
OBVIOUS

\* What a configuration is.
LEMMA ChainType == ASSUME TypeOK PROVE chain \in Seq(STRING) /\ Len(chain) \in Nat /\ Len(chain) <= MaxLen
BY DEF TypeOK

LEMMA InitIInv == Init => IInv
<1> SUFFICES ASSUME Init PROVE IInv
  OBVIOUS
<1> USE DEF Init
<1>1. TypeOK
  BY EmptySeq, WorkerTypes DEF TypeOK, AfterInit
<1>2. Structure
  <2>1. Len(elems) = 0
    OBVIOUS
  <2>2. Registry
    BY DEF Registry
  <2>3. Built
    BY <2>1, <1>1, ChainType DEF Built, Last
  <2>4. Phases
    BY <2>1 DEF Phases, Last, Destroying, AfterInit, Initialised
  <2>5. Lives
    BY <2>1 DEF Lives, Expected, Last, Positions
  <2> QED
    BY <2>2, <2>3, <2>4, <2>5 DEF Structure
<1>3. Joined
  BY DEF Joined, PadFreed
<1>4. Queues /\ Calls /\ Faults
  BY DEF Queues, Calls, Faults, NoWorker, Resting, IsQueue, Last, AfterInit, Destroying
<1>5. Ordered
  BY DEF Ordered, Increasing, Holds, Hand, InQueue, Occurs, NoWorker, Resting
<1>6. Conserved
  <2>1. Len(got) = 0 /\ Pushed = 0
    BY DEF Pushed
  <2>2. \A p \in Pads, f \in Frames : ~Holds(p, f)
    BY DEF Holds, Hand, InQueue, Occurs, NoWorker, Resting
  <2> QED
    BY <2>1, <2>2 DEF Conserved, Frames
<1>7. Inversions
  BY DEF Inversions, Holds, Hand, InQueue, Occurs, NoWorker, Resting, Pushed
<1> QED
  BY <1>1, <1>2, <1>3, <1>4, <1>5, <1>6, <1>7 DEF IInv

-----------------------------------------------------------------------------
(* What the steps of a worker do *)

\* The pad of an element that a call leads to, and where a frame goes next.
LEMMA PadType == \A p \in Pads : p = <<p[1], p[2]>> /\ p[1] \in Positions /\ p[2] \in {"sink", "src"}
BY DEF Pads

LEMMA LastType == ASSUME TypeOK, Structure PROVE Last \in Nat /\ Last <= MaxLen
<1>1. Last \in Nat
  <2>1. elems \in Seq(Types \cup {NullElement})
    BY DEF TypeOK
  <2> QED
    BY <2>1 DEF Last
<1>2. Last <= Len(chain)
  <2>1. mpc = "scan" => Last = 0
    BY DEF Structure, Built, Last
  <2> QED
    BY <1>1, <2>1, ChainType DEF Structure, Built
<1> QED
  BY <1>1, <1>2, ChainType

LEMMA LinkedNext ==
  ASSUME TypeOK, Structure, NEW i \in linked
  PROVE  i \in 1..Last /\ i + 1 \in 1..Last /\ i + 1 \in Positions /\ mpc \notin {"scan", "build"}
<1>1. i \in 1..Last /\ Initialised(i + 1) /\ (mpc = "init" => k <= Last + 1)
  BY DEF Structure, Phases
<1>2. mpc = "init" \/ mpc \in AfterInit
  BY <1>1 DEF Initialised
<1>3. i + 1 <= Last
  <2>1. k \in Nat /\ Last \in Nat /\ i \in Nat
    BY <1>1, LastType DEF TypeOK
  <2>2. mpc = "init" => i + 1 < k
    BY <1>1 DEF Initialised
  <2>3. mpc # "init" => i + 1 <= Last
    BY <1>1, <1>2 DEF Initialised
  <2> QED
    BY <1>1, <2>1, <2>2, <2>3
<1>4. mpc \notin {"scan", "build"}
  BY <1>2 DEF AfterInit, Destroying
<1> QED
  BY <1>1, <1>3, <1>4, LastType DEF Positions

\* Once init() is over there is a plugin at each position.
LEMMA ElementType ==
  ASSUME TypeOK, Structure, mpc \in AfterInit, NEW i \in 1..Last
  PROVE  /\ i \in Positions /\ elems[i] \in Types
         /\ \A side \in {"sink", "src"} : Kind(i, side) \in {"none", "queue", "simple"}
<1>1. elems[i] \in Types \cup {NullElement}
  BY DEF TypeOK, Last
<1>2. elems[i] # NullElement
  BY DEF Structure, Phases, Initialised, AfterInit, Destroying
<1> QED
  BY <1>1, <1>2, KindType, LastType DEF Kind, Positions

LEMMA CallMeansInit ==
  ASSUME TypeOK, Structure, Queues, NEW p \in Pads, wk[p].pc = "call" \/ q[p] # <<>>
  PROVE  mpc \in AfterInit
BY DEF TypeOK, Queues

LEMMA WorkerKeeps ==
  ASSUME NEW p \in Pads, WorkerStep(p)
  PROVE  UNCHANGED <<mainVars, life, linked, run, missed>>
BY DEF WorkerStep, WorkerHead, WorkerPop, WorkerQuit, EnterPad, EnterElement, mainVars

\* A step of a worker changes its own state and at most one queue.  The place
\* it is at, split into the element and what of the element.
Where(p) == wk[p].at[1]
What(p) == wk[p].at[2]

\* Entering a pad: the process dies, or the frame is queued there, or the call
\* goes on from a SimplePad to a place that exists, or it ends there.
Enters(p, next) == /\ Kind(Where(p), What(p)) = "simple"
                   /\ IF What(p) = "sink" THEN next = <<Where(p), "elem">>
                      ELSE Where(p) \in linked /\ next = <<Where(p) + 1, "sink">>
                   /\ next \in Places
                   /\ wk' = [wk EXCEPT ![p] = Calling(wk[p].frame, next)]
                   /\ UNCHANGED <<q, fault>>
PadDies(p) == /\ \/ Kind(Where(p), What(p)) = "none" /\ fault' = "null_deref"
                 \/ PadFreed(Where(p), What(p)) /\ fault' = "use_after_free"
              /\ UNCHANGED <<q, wk>>
PadQueues(p) == /\ Kind(Where(p), What(p)) = "queue"
                /\ q' = [q EXCEPT ![<<Where(p), What(p)>>] = Append(@, wk[p].frame)]
                /\ wk' = [wk EXCEPT ![p] = AtHead]
                /\ UNCHANGED fault
PadDrops(p) == /\ What(p) = "src" /\ Where(p) \notin linked
               /\ Kind(Where(p), What(p)) = "simple"
               /\ wk' = [wk EXCEPT ![p] = AtHead]
               /\ UNCHANGED <<q, fault>>

LEMMA EnterPadCases ==
  ASSUME TypeOK, Structure, Queues, Calls, NEW p \in Pads, EnterPad(p)
  PROVE  /\ CallOK(p) /\ Where(p) \in Positions /\ What(p) \in {"sink", "src"}
         /\ wk[p].at = <<Where(p), What(p)>>
         /\ wk[p].pc = "call" /\ wk[p].frame \in Frames
         /\ UNCHANGED <<inv, got>>
         /\ \/ PadDies(p) \/ PadQueues(p) \/ PadDrops(p)
            \/ \E next \in Places : Enters(p, next)
<1> DEFINE i == wk[p].at[1]
           side == wk[p].at[2]
<1>1. CallOK(p) /\ side \in {"sink", "src"} /\ wk[p].pc = "call"
  BY DEF EnterPad, Calls
<1>2. i \in Positions /\ wk[p].frame \in Frames /\ wk[p].at = <<i, side>>
  BY <1>1 DEF CallOK, Places
<1>3. i \in linked => i + 1 \in Positions
  BY LinkedNext
<1>4. UNCHANGED <<inv, got>>
  BY DEF EnterPad
<1>5. PadDies(p) \/ PadQueues(p) \/ PadDrops(p) \/ \E next \in Places : Enters(p, next)
  <2>1. CASE Kind(i, side) = "none"
    BY <2>1 DEF EnterPad, Die, PadDies, Where, What
  <2>2. CASE Kind(i, side) # "none" /\ PadFreed(i, side)
    BY <2>2 DEF EnterPad, Die, PadDies, Where, What
  <2>3. CASE Kind(i, side) = "queue" /\ ~PadFreed(i, side)
    BY <2>3 DEF EnterPad, Return, PadQueues, Where, What
  <2>4. CASE Kind(i, side) = "simple" /\ ~PadFreed(i, side)
    <3>1. CASE side = "sink"
      BY <1>2, <2>4, <3>1 DEF EnterPad, GoTo, Enters, Where, What, Places
    <3>2. CASE side = "src" /\ i \in linked
      BY <1>3, <2>4, <3>2 DEF EnterPad, GoTo, Enters, Where, What, Places
    <3>3. CASE side = "src" /\ i \notin linked
      BY <2>4, <3>3 DEF EnterPad, Return, PadDrops, Where, What
    <3> QED
      BY <1>1, <3>1, <3>2, <3>3
  <2>5. Kind(i, side) \in {"none", "queue", "simple"}
    <3>1. i \in 1..Last
      BY <1>1, <1>2, LastType DEF CallOK, Positions
    <3> QED
      BY <1>1, <3>1, ElementType, CallMeansInit
  <2> QED
    BY <2>1, <2>2, <2>3, <2>4, <2>5
<1> QED
  BY <1>1, <1>2, <1>4, <1>5 DEF Where, What

\* on_buffer(): the process dies, or the frame goes on to the src pad, or it
\* arrives, or it is dropped.
ElementDies(p) == /\ life[Where(p)] # "alive"
                  /\ fault' = IF life[Where(p)] = "gone" THEN "use_after_free" ELSE "pure_virtual"
                  /\ UNCHANGED <<wk, inv, got>>
ElementPasses(p) == /\ elems[Where(p)] \in {"InvertFilter", "Filter"}
                    /\ inv' = IF elems[Where(p)] = "InvertFilter"
                              THEN [inv EXCEPT ![wk[p].frame] = @ + 1] ELSE inv
                    /\ wk' = [wk EXCEPT ![p] = Calling(wk[p].frame, <<Where(p), "src">>)]
                    /\ UNCHANGED <<got, fault>>
ElementTakes(p) == /\ elems[Where(p)] \in {"Sink", "QueueSink"}
                   /\ got' = Append(got, wk[p].frame)
                   /\ wk' = [wk EXCEPT ![p] = AtHead]
                   /\ UNCHANGED <<inv, fault>>

LEMMA EnterElementCases ==
  ASSUME TypeOK, Structure, Queues, Calls, NEW p \in Pads, EnterElement(p)
  PROVE  /\ CallOK(p) /\ Where(p) \in Positions /\ What(p) = "elem"
         /\ wk[p].at = <<Where(p), What(p)>>
         /\ wk[p].pc = "call" /\ wk[p].frame \in Frames
         /\ UNCHANGED q
         /\ ElementDies(p) \/ ElementPasses(p) \/ ElementTakes(p)
<1> DEFINE i == wk[p].at[1]
<1>1. CallOK(p) /\ wk[p].at[2] = "elem" /\ wk[p].pc = "call" /\ UNCHANGED q
  BY DEF EnterElement, Calls
<1>2. i \in Positions /\ wk[p].frame \in Frames /\ wk[p].at = <<i, "elem">>
  BY <1>1 DEF CallOK, Places
<1>3. elems[i] \in Types /\ elems[i] # "Source"
  <2>1. i \in 1..Last
    BY <1>1, <1>2, LastType DEF CallOK, Positions
  <2>2. elems[i] \in Types
    BY <1>1, <2>1, ElementType, CallMeansInit
  <2>3. Kind(i, "sink") # "none"
    BY <1>1 DEF CallOK
  <2> QED
    BY <2>2, <2>3, Table DEF Kind
<1>4. elems[i] \in {"InvertFilter", "Filter", "Sink", "QueueSink"}
  BY <1>3, Table
<1>5. ElementDies(p) \/ ElementPasses(p) \/ ElementTakes(p)
  <2>1. CASE life[i] # "alive"
    BY <2>1 DEF EnterElement, Die, ElementDies, Where
  <2>2. CASE life[i] = "alive" /\ elems[i] \in {"InvertFilter", "Filter"}
    BY <2>2 DEF EnterElement, GoTo, ElementPasses, Where
  <2>3. CASE life[i] = "alive" /\ elems[i] \in {"Sink", "QueueSink"}
    BY <2>3 DEF EnterElement, Return, ElementTakes, Where
  <2> QED
    BY <1>4, <2>1, <2>2, <2>3
<1> QED
  BY <1>1, <1>2, <1>5 DEF Where, What

\* Taking a frame from the queue.
PopCalls(p, next) == /\ IF p[2] = "sink" THEN next = <<p[1], "elem">>
                        ELSE p[1] \in linked /\ next = <<p[1] + 1, "sink">>
                     /\ wk' = [wk EXCEPT ![p] = Calling(Head(q[p]), next)]
PopDrops(p) == /\ p[2] = "src" /\ p[1] \notin linked
               /\ wk' = [wk EXCEPT ![p] = AtHead]

LEMMA WorkerPopCases ==
  ASSUME TypeOK, Structure, NEW p \in Pads, WorkerPop(p)
  PROVE  /\ wk[p].pc = "wait" /\ q[p] \in Seq(Frames) /\ q[p] # <<>>
         /\ q' = [q EXCEPT ![p] = Tail(q[p])]
         /\ Head(q[p]) \in Frames /\ Tail(q[p]) \in Seq(Frames)
         /\ UNCHANGED <<inv, got, fault>>
         /\ PopDrops(p) \/ \E next \in Places : PopCalls(p, next)
<1>1. wk[p].pc = "wait" /\ q[p] \in Seq(Frames) /\ q[p] # <<>> /\ UNCHANGED <<inv, got, fault>>
  BY DEF TypeOK, WorkerPop
<1>2. Head(q[p]) \in Frames /\ Tail(q[p]) \in Seq(Frames)
  BY <1>1, HeadTailProperties
<1>3. PopDrops(p) \/ \E next \in Places : PopCalls(p, next)
  <2>1. p[1] \in linked => p[1] + 1 \in Positions
    BY LinkedNext
  <2>2. CASE p[2] = "sink"
    BY <2>2, PadType DEF WorkerPop, PopCalls, Places
  <2>3. CASE p[2] = "src" /\ p[1] \in linked
    <3>1. <<p[1] + 1, "sink">> \in Places
      BY <2>1, <2>3 DEF Places
    <3>2. PopCalls(p, <<p[1] + 1, "sink">>)
      BY <2>3 DEF WorkerPop, PopCalls
    <3> QED
      BY <3>1, <3>2
  <2>4. CASE p[2] = "src" /\ p[1] \notin linked
    BY <2>4 DEF WorkerPop, PopDrops
  <2> QED
    BY <2>2, <2>3, <2>4, PadType
<1> QED
  BY <1>1, <1>2, <1>3 DEF WorkerPop

\* Testing the flag, and leaving.
Rests(p, w) == /\ wk[p].pc \in {"head", "wait"}
               /\ w \in {Asleep, Exited}
               /\ wk' = [wk EXCEPT ![p] = w]
               /\ UNCHANGED <<q, inv, got, fault>>

LEMMA RestCases ==
  ASSUME NEW p \in Pads, WorkerHead(p) \/ WorkerQuit(p)
  PROVE  \E w \in {Asleep, Exited} : Rests(p, w)
BY DEF WorkerHead, WorkerQuit, Rests

LEMMA WorkerTypeOK ==
  ASSUME TypeOK, Structure, Queues, Calls, NEW p \in Pads, WorkerStep(p)
  PROVE  TypeOK'
<1>1. UNCHANGED <<mainVars, life, linked, run, missed>>
  BY WorkerKeeps
<1> SUFFICES /\ q' \in [Pads -> Seq(Frames)]
             /\ wk' \in [Pads -> Workers]
             /\ inv' \in [Frames -> Nat]
             /\ got' \in Seq(Frames)
             /\ fault' \in {"none", "null_deref", "use_after_free", "pure_virtual"}
  BY <1>1 DEF TypeOK, mainVars, registryVars
<1>2. /\ q \in [Pads -> Seq(Frames)] /\ wk \in [Pads -> Workers] /\ inv \in [Frames -> Nat]
      /\ got \in Seq(Frames) /\ fault \in {"none", "null_deref", "use_after_free", "pure_virtual"}
  BY DEF TypeOK
<1>3. CASE WorkerHead(p) \/ WorkerQuit(p)
  <2>1. PICK w \in {Asleep, Exited} : Rests(p, w)
    BY <1>3, RestCases
  <2>2. [wk EXCEPT ![p] = w] \in [Pads -> Workers]
    BY <1>2, WorkerTypes, UpdateType
  <2> QED
    BY <1>2, <2>1, <2>2 DEF Rests
<1>4. CASE WorkerPop(p)
  <2>1. q' = [q EXCEPT ![p] = Tail(q[p])] /\ Tail(q[p]) \in Seq(Frames) /\ Head(q[p]) \in Frames
        /\ UNCHANGED <<inv, got, fault>>
    BY <1>4, WorkerPopCases
  <2>2. q' \in [Pads -> Seq(Frames)]
    BY <1>2, <2>1, UpdateType
  <2>3. CASE PopDrops(p)
    BY <1>2, <2>1, <2>2, <2>3, WorkerTypes, UpdateType DEF PopDrops
  <2>4. ASSUME NEW next \in Places, PopCalls(p, next) PROVE wk' \in [Pads -> Workers]
    BY <1>2, <2>1, <2>4, WorkerTypes, UpdateType DEF PopCalls
  <2> QED
    BY <1>2, <1>4, <2>1, <2>2, <2>3, <2>4, WorkerPopCases
<1>5. CASE EnterPad(p)
  <2>1. /\ <<Where(p), What(p)>> \in Pads /\ wk[p].frame \in Frames /\ UNCHANGED <<inv, got>>
        /\ PadDies(p) \/ PadQueues(p) \/ PadDrops(p) \/ \E next \in Places : Enters(p, next)
    BY <1>5, EnterPadCases DEF Pads
  <2>2. CASE PadDies(p)
    BY <1>2, <2>1, <2>2 DEF PadDies
  <2>3. CASE PadQueues(p)
    <3>1. Append(q[<<Where(p), What(p)>>], wk[p].frame) \in Seq(Frames)
      BY <1>2, <2>1, AppendProperties
    <3> QED
      BY <1>2, <2>1, <2>3, <3>1, WorkerTypes, UpdateType DEF PadQueues
  <2>4. CASE PadDrops(p)
    BY <1>2, <2>1, <2>4, WorkerTypes, UpdateType DEF PadDrops
  <2>5. ASSUME NEW next \in Places, Enters(p, next) PROVE wk' \in [Pads -> Workers] /\ UNCHANGED <<q, fault>>
    BY <1>2, <2>1, <2>5, WorkerTypes, UpdateType DEF Enters
  <2> QED
    BY <1>2, <2>1, <2>2, <2>3, <2>4, <2>5
<1>6. CASE EnterElement(p)
  <2>1. /\ Where(p) \in Positions /\ wk[p].frame \in Frames /\ UNCHANGED q
        /\ ElementDies(p) \/ ElementPasses(p) \/ ElementTakes(p)
    BY <1>6, EnterElementCases
  <2>2. CASE ElementDies(p)
    BY <1>2, <2>1, <2>2 DEF ElementDies
  <2>3. CASE ElementPasses(p)
    <3>1. Calling(wk[p].frame, <<Where(p), "src">>) \in Workers
      BY <2>1, WorkerTypes DEF Places
    <3>2. [inv EXCEPT ![wk[p].frame] = @ + 1] \in [Frames -> Nat]
      BY <1>2, <2>1
    <3> QED
      BY <1>2, <2>1, <2>3, <3>1, <3>2, UpdateType DEF ElementPasses
  <2>4. CASE ElementTakes(p)
    <3>1. Append(got, wk[p].frame) \in Seq(Frames)
      BY <1>2, <2>1, AppendProperties
    <3> QED
      BY <1>2, <2>1, <2>4, <3>1, WorkerTypes, UpdateType DEF ElementTakes
  <2> QED
    BY <2>1, <2>2, <2>3, <2>4
<1> QED
  BY <1>3, <1>4, <1>5, <1>6 DEF WorkerStep

-----------------------------------------------------------------------------
(* What the steps of main() do to the elements *)

LEMMA MainTypeOK ==
  ASSUME TypeOK, Structure, Main
  PROVE  TypeOK'
<1>1. CASE ScanFile
  <2>1. plugins' \in [Types -> Nat]
    BY <1>1 DEF TypeOK, ScanFile
  <2>2. libs' \subseteq 1..Len(dir)
    <3>1. Len(dir) \in Nat
      BY DEF TypeOK
    <3>2. k \in 1..Len(dir)
      BY <1>1, <3>1 DEF TypeOK, ScanFile, Structure, Phases
    <3> QED
      BY <1>1, <3>2 DEF TypeOK, ScanFile
  <2> QED
    BY <1>1, <2>1, <2>2 DEF TypeOK, ScanFile
<1>2. CASE ScanDone \/ BuildDone \/ InitDone \/ PushDone \/ Sleep \/ Stop
  <2>1. /\ mpc' \in {"build", "init", "push", "sleep", "stop", "shutdown"} /\ k' \in {k, 1}
        /\ UNCHANGED <<registryVars, chain, drains, elems, life, linked, q, run, missed, wk, inv, got,
                        fault>>
    BY <1>2 DEF ScanDone, BuildDone, InitDone, PushDone, Sleep, Stop
  <2>2. mpc' \in {"scan", "build", "init"} \cup AfterInit /\ k' \in Nat
    BY <2>1 DEF AfterInit, TypeOK
  <2> QED
    BY <2>1, <2>2 DEF TypeOK, registryVars
<1>3. CASE BuildElement
  <2> DEFINE type == IF Provided(chain[k]) THEN chain[k] ELSE NullElement
  <2>1. k \in 1..Len(chain) /\ k \in Positions
    BY <1>3, ChainType DEF BuildElement, TypeOK, Structure, Phases, Positions
  <2>2. type \in Types \cup {NullElement}
    BY <2>1, ReversedAssumption DEF Provided
  <2>3. elems' \in Seq(Types \cup {NullElement})
    BY <1>3, <2>2, AppendProperties DEF TypeOK, BuildElement
  <2>4. life' \in [Positions -> {"none", "alive", "base", "nosink", "gone"}]
    BY <1>3, <2>1 DEF TypeOK, BuildElement
  <2>5. wk' \in [Pads -> Workers]
    <3>1. wk \in [Pads -> Workers]
      BY DEF TypeOK
    <3>2. [p \in Pads |-> IF p[1] = k /\ PadKinds[type][p[2]] = "queue" THEN AtHead ELSE wk[p]]
          \in [Pads -> Workers]
      BY <3>1, WorkerTypes
    <3> QED
      BY <1>3, <3>1, <3>2 DEF BuildElement
  <2> QED
    <3>1. k' \in Nat /\ UNCHANGED <<dir, plugins, libs, chain, drains, mpc, linked, q, run, missed, inv,
                                  got, fault>>
      BY <1>3 DEF TypeOK, BuildElement, registryVars
    <3> QED
      BY <2>3, <2>4, <2>5, <3>1 DEF TypeOK
<1>4. CASE InitElement
  <2>1. k > 1 => k - 1 \in Positions
    BY <1>4, LastType, SMTT(40) DEF InitElement, TypeOK, Positions, Last
  <2> QED
    BY <1>4, <2>1 DEF TypeOK, InitElement, Die, registryVars
<1>5. CASE PushFrame
  <2>1. k \in Frames
    BY <1>5 DEF PushFrame, TypeOK, Structure, Phases, Frames
  <2>2. q' \in [Pads -> Seq(Frames)]
    <3>1. \A p \in Pads : Append(q[p], k) \in Seq(Frames)
      BY <2>1, AppendProperties DEF TypeOK
    <3> QED
      BY <1>5, <3>1 DEF PushFrame, TypeOK
  <2> QED
    BY <1>5, <2>2, SMTT(40) DEF TypeOK, PushFrame, registryVars
<1>6. CASE Shutdown
  <2>1. k' \in Nat
    BY <1>6, LastType DEF Shutdown, FirstToDestroy, Last
  <2> QED
    BY <1>6, <2>1 DEF TypeOK, Shutdown, AfterElements, registryVars, AfterInit, Destroying
<1>7. CASE DestroyDerived \/ JoinSink
  BY <1>7 DEF TypeOK, DestroyDerived, JoinSink, registryVars, AfterInit, Destroying
<1>8. CASE \E side \in {"sink", "src"} : StopPad(side)
  <2>1. PICK side \in {"sink", "src"} : StopPad(side)
    BY <1>8
  <2>2. mpc' \in {"join_sink", "join_src"}
    BY <2>1 DEF StopPad, JoinAt
  <2>3. run' \in [Pads -> BOOLEAN]
    BY <2>1 DEF TypeOK, StopPad
  <2>4. missed' \subseteq Pads
    <3>1. k \in Positions
      BY <2>1, LastType DEF StopPad, StopAt, Structure, Phases, Destroying, Positions
    <3> QED
      BY <2>1, <3>1 DEF TypeOK, StopPad, Pads
  <2> QED
    BY <2>1, <2>2, <2>3, <2>4 DEF TypeOK, StopPad, registryVars, AfterInit, Destroying
<1>9. CASE JoinSrc
  <2>1. k' \in Nat
    BY <1>9 DEF JoinSrc, NextToDestroy, TypeOK, Structure, Phases, Destroying
  <2> QED
    BY <1>9, <2>1 DEF TypeOK, JoinSrc, AfterElements, registryVars, AfterInit, Destroying
<1>10. CASE CloseLibraries
  BY <1>10 DEF TypeOK, CloseLibraries, AfterInit
<1> QED
  BY <1>1, <1>2, <1>3, <1>4, <1>5, <1>6, <1>7, <1>8, <1>9, <1>10 DEF Main

\* The steps of main() that change its phase and its index only.
Turn(from, to) == /\ mpc = from /\ mpc' = to
                  /\ UNCHANGED <<dir, plugins, libs, chain, drains, elems, life, linked, q, wk, inv, got,
                                 fault>>
Turns == \/ Turn("scan", "build") /\ k' = 1
         \/ Turn("build", "init") /\ k > Len(chain) /\ k' = 1
         \/ Turn("init", "push") /\ k > Last /\ k' = 1
         \/ Turn("push", "sleep") /\ k > NFrames /\ k' = k
         \/ Turn("sleep", "stop") /\ (drains => Quiescent) /\ k' = k
         \/ Turn("stop", "shutdown") /\ k' = k
         \/ Turn("shutdown", "derived") /\ elems # <<>> /\ k' = FirstToDestroy
         \/ Turn("shutdown", AfterElements) /\ elems = <<>>
         \/ Turn("stop_sink", "join_sink") /\ k' = k
         \/ Turn("stop_src", "join_src") /\ k' = k

LEMMA MainCases ==
  ASSUME Main
  PROVE  \/ Turns
         \/ ScanFile \/ BuildElement \/ InitElement \/ PushFrame \/ DestroyDerived \/ JoinSink
         \/ JoinSrc \/ CloseLibraries
<1>1. CASE ScanDone \/ BuildDone \/ InitDone \/ PushDone \/ Sleep \/ Stop
  BY <1>1 DEF Turns, Turn, ScanDone, BuildDone, InitDone, PushDone, Sleep, Stop, registryVars, Last
<1>2. CASE Shutdown
  BY <1>2 DEF Turns, Turn, Shutdown, registryVars
<1>3. CASE \E side \in {"sink", "src"} : StopPad(side)
  BY <1>3 DEF Turns, Turn, StopPad, StopAt, JoinAt, registryVars
<1> QED
  BY <1>1, <1>2, <1>3 DEF Main

LEMMA MainRegistry ==
  ASSUME TypeOK, Structure, Main
  PROVE  Registry'
<1> USE DEF Structure, Registry
<1>1. CASE ScanFile
  <2>1. chain \notin Reversed /\ UNCHANGED <<dir, chain, mpc>> /\ mpc = "scan"
    BY <1>1 DEF ScanFile, Built
  <2>2. CASE dir[k] \in Types
    <3>1. plugins' = [plugins EXCEPT ![dir[k]] = k] /\ libs' = libs \cup {k} /\ plugins \in [Types -> Nat]
      BY <1>1, <2>2 DEF ScanFile, TypeOK
    <3> QED
      BY <2>1, <2>2, <3>1
  <2>3. CASE dir[k] \notin Types
    BY <1>1, <2>1, <2>3 DEF ScanFile
  <2> QED
    BY <2>2, <2>3
<1>2. CASE CloseLibraries
  <2>1. ASSUME NEW j \in libs' PROVE plugins'[dir'[j]] # j
    <3>1. j \in libs /\ dir[j] \in Types /\ j \notin {plugins[type] : type \in Types}
      BY <1>2, <2>1 DEF CloseLibraries
    <3> QED
      BY <1>2, <3>1 DEF CloseLibraries
  <2> QED
    BY <1>2, <2>1 DEF CloseLibraries
<1>3. CASE Turns
  <2>1. UNCHANGED <<dir, plugins, libs, chain>> /\ mpc # "done" /\ (mpc' = "done" => chain \in Reversed)
    BY <1>3 DEF Turns, Turn, AfterElements
  <2> QED
    BY <2>1
<1>4. CASE \/ BuildElement \/ InitElement \/ PushFrame \/ DestroyDerived \/ JoinSink
  BY <1>4 DEF BuildElement, InitElement, PushFrame, DestroyDerived, JoinSink, registryVars
<1>5. CASE JoinSrc
  BY <1>5 DEF JoinSrc, AfterElements, registryVars
<1> QED
  BY <1>1, <1>2, <1>3, <1>4, <1>5, MainCases

LEMMA MainBuilt ==
  ASSUME TypeOK, Structure, Main
  PROVE  Built'
<1> USE DEF Structure, Built
<1>1. CASE ScanFile
  BY <1>1 DEF ScanFile, Last
<1>2. CASE BuildElement
  <2> DEFINE type == IF Provided(chain[k]) THEN chain[k] ELSE NullElement
  <2>1. elems \in Seq(Types \cup {NullElement}) /\ k = Last + 1 /\ mpc = "build"
    BY <1>2 DEF BuildElement, TypeOK
  <2>2. elems' = Append(elems, type)
    BY <1>2 DEF BuildElement
  <2>3. Last' = k /\ \A i \in 1..Last' : elems'[i] = IF i = k THEN type ELSE elems[i]
    BY <2>1, <2>2 DEF Last
  <2>4. \A t : Provided(t)' <=> Provided(t)
    BY <1>2 DEF BuildElement, Provided, registryVars
  <2>5. Last \in Nat /\ Len(chain) \in Nat
    BY LastType, ChainType
  <2>6. UNCHANGED <<mpc, chain>> /\ k' = k + 1 /\ k <= Len(chain)
    BY <1>2 DEF BuildElement
  <2>7. ASSUME NEW i \in 1..Last'
        PROVE  elems'[i] = IF Provided(chain[i]) THEN chain[i] ELSE NullElement
    BY <2>1, <2>3, <2>5, <2>7
  <2> QED
    BY <2>1, <2>3, <2>4, <2>5, <2>6, <2>7
<1>3. CASE Turns
  <2>1. UNCHANGED <<plugins, chain, elems, Last>> /\ (\A t : Provided(t)' <=> Provided(t))
    BY <1>3 DEF Turns, Turn, Provided, Last
  <2>2. \/ mpc = "scan" /\ mpc' = "build" /\ k' = 1
        \/ mpc = "build" /\ mpc' = "init" /\ k > Len(chain)
        \/ mpc \notin {"scan", "build"} /\ mpc' \notin {"scan", "build"}
    BY <1>3 DEF Turns, Turn, AfterElements
  <2>3. Last \in Nat /\ Len(chain) \in Nat /\ k \in Nat
    BY LastType, ChainType DEF TypeOK
  <2>4. mpc = "scan" => Last = 0
    BY DEF Last
  <2> QED
    BY <2>1, <2>2, <2>3, <2>4
<1>4. CASE \/ InitElement \/ PushFrame \/ DestroyDerived \/ JoinSink \/ JoinSrc \/ CloseLibraries
  <2>1. UNCHANGED <<plugins, chain, elems, Last>> /\ (\A t : Provided(t)' <=> Provided(t))
        /\ mpc \notin {"scan", "build"} /\ mpc' \notin {"scan", "build"}
    BY <1>4 DEF InitElement, PushFrame, DestroyDerived, JoinSink, JoinSrc, CloseLibraries, registryVars,
                Provided, Last, AfterElements
  <2> QED
    BY <2>1
<1> QED
  BY <1>1, <1>2, <1>3, <1>4, MainCases

LEMMA MainPhases ==
  ASSUME TypeOK, Structure, Main
  PROVE  Phases'
<1>1. Last \in Nat /\ k \in Nat /\ NFrames \in Nat
  BY LastType, NFramesAssumption DEF TypeOK
<1>2. ASSUME UNCHANGED <<elems, linked>>, \A i \in 1..Last + 1 : Initialised(i)' <=> Initialised(i)
      PROVE  /\ \A i \in 1..Last' : Initialised(i)' => elems'[i] # NullElement
             /\ \A i \in 1..Last' : Initialised(i + 1)' => Kind(i, "src")' # "none"
             /\ linked' = {i \in 1..Last' : Initialised(i + 1)'}
  <2>1. Last' = Last /\ \A i \in 1..Last : Kind(i, "src")' = Kind(i, "src")
    BY <1>2 DEF Last, Kind
  <2>2. \A i \in 1..Last : i + 1 \in 1..Last + 1 /\ i \in 1..Last + 1
    BY <1>1
  <2>3. {i \in 1..Last : Initialised(i + 1)'} = {i \in 1..Last : Initialised(i + 1)}
    BY <1>2, <2>2
  <2> QED
    BY <1>2, <2>1, <2>2, <2>3 DEF Structure, Phases
<1>3. CASE ScanFile \/ BuildElement
  <2>1. mpc \in {"scan", "build"} /\ UNCHANGED <<mpc, chain, linked>> /\ k' = k + 1
    BY <1>3 DEF ScanFile, BuildElement
  <2>2. \A i : ~Initialised(i) /\ ~Initialised(i)'
    BY <2>1 DEF Initialised, AfterInit, Destroying
  <2>3. linked = {} /\ linked' = {}
    BY <2>1, <2>2 DEF Structure, Phases
  <2> QED
    BY <1>1, <2>1, <2>2, <2>3 DEF Phases, Destroying
<1>4. CASE InitElement
  <2>1. mpc = "init" /\ k <= Last /\ k # 0 /\ UNCHANGED <<mpc, chain, elems, Last>>
    BY <1>4 DEF InitElement, Last, Structure, Phases
  <2>2. CASE elems[k] = NullElement \/ (k > 1 /\ Kind(k - 1, "src") = "none")
    <3>1. UNCHANGED <<k, linked, mpc>>
      BY <1>4, <2>2 DEF InitElement
    <3>2. \A i \in 1..Last + 1 : Initialised(i)' <=> Initialised(i)
      BY <2>1, <3>1 DEF Initialised
    <3> QED
      BY <1>2, <2>1, <3>1, <3>2 DEF Structure, Phases, Destroying
  <2>3. CASE elems[k] # NullElement /\ (k > 1 => Kind(k - 1, "src") # "none")
    <3>1. k' = k + 1 /\ linked' = IF k > 1 THEN linked \cup {k - 1} ELSE linked
      BY <1>4, <2>3 DEF InitElement
    <3>2. \A i : (Initialised(i) <=> i < k) /\ (Initialised(i)' <=> i < k + 1)
      BY <2>1, <3>1 DEF Initialised
    <3>3. \A i \in 1..Last' : Initialised(i)' => elems'[i] # NullElement
      BY <1>1, <2>1, <2>3, <3>2 DEF Structure, Phases
    <3>4. \A i \in 1..Last' : Initialised(i + 1)' => Kind(i, "src")' # "none"
      <4>1. \A i : Kind(i, "src")' = Kind(i, "src")
        BY <2>1 DEF Kind
      <4> QED
        BY <1>1, <2>1, <2>3, <3>2, <4>1 DEF Structure, Phases
    <3>5. linked' = {i \in 1..Last' : Initialised(i + 1)'}
      <4>1. linked = {i \in 1..Last : i + 1 < k}
        BY <3>2 DEF Structure, Phases
      <4>2. {i \in 1..Last : i + 1 < k + 1} = IF k > 1 THEN linked \cup {k - 1} ELSE linked
        BY <1>1, <2>1, <4>1
      <4>3. {i \in 1..Last' : Initialised(i + 1)'} = {i \in 1..Last : i + 1 < k + 1}
        BY <2>1, <3>2
      <4> QED
        BY <3>1, <4>2, <4>3
    <3>6. k' # 0 /\ k' <= Last' + 1
      BY <1>1, <2>1, <3>1
    <3> QED
      BY <2>1, <3>3, <3>4, <3>5, <3>6 DEF Phases, Destroying
  <2> QED
    BY <2>2, <2>3
<1>5. CASE Turns
  <2>1. UNCHANGED <<elems, linked, chain, Last>>
    BY <1>5 DEF Turns, Turn, Last
  <2>2. \A i \in 1..Last + 1 : Initialised(i)' <=> Initialised(i)
    <3>1. CASE Turn("init", "push") /\ k > Last
      <4>1. k = Last + 1 \/ k <= Last
        BY <1>1, <3>1 DEF Turn, Structure, Phases
      <4> QED
        BY <1>1, <2>1, <3>1, <4>1 DEF Turn, Initialised, AfterInit
    <3>2. CASE Turn("build", "init") /\ k' = 1
      BY <1>1, <2>1, <3>2 DEF Turn, Initialised, AfterInit, Destroying
    <3>3. CASE mpc \in AfterInit /\ mpc' \in AfterInit
      BY <2>1, <3>3 DEF Initialised, AfterInit, Destroying
    <3>4. CASE Turn("scan", "build")
      BY <3>4 DEF Turn, Initialised, AfterInit, Destroying
    <3> QED
      BY <1>5, <3>1, <3>2, <3>3, <3>4 DEF Turns, Turn, AfterElements, AfterInit, Destroying
  <2>3. elems # <<>> => FirstToDestroy \in 1..Last
    <3>1. elems # <<>> => Last # 0
      BY DEF TypeOK, Last
    <3> QED
      BY <1>1, <3>1 DEF FirstToDestroy, Last
  <2>4. /\ k' # 0 \/ mpc' \in {"close", "done"}
        /\ mpc' = "init" => k' <= Last + 1
        /\ mpc' = "push" => k' <= NFrames + 1
        /\ mpc' \in Destroying => k' \in 1..Last
        /\ mpc' = "close" => chain \notin Reversed
    BY <1>1, <1>5, <2>3 DEF Turns, Turn, AfterElements, Structure, Phases, Destroying
  <2> QED
    BY <1>2, <2>1, <2>2, <2>4 DEF Phases
<1>6. CASE PushFrame \/ DestroyDerived \/ JoinSink \/ JoinSrc \/ CloseLibraries
  <2>1. mpc \in AfterInit /\ mpc' \in AfterInit /\ UNCHANGED <<elems, linked, chain, Last>>
    BY <1>6 DEF PushFrame, DestroyDerived, JoinSink, JoinSrc, CloseLibraries, registryVars, Last,
                AfterInit, AfterElements, Destroying
  <2>2. \A i \in 1..Last + 1 : Initialised(i)' <=> Initialised(i)
    BY <2>1 DEF Initialised, AfterInit, Destroying
  <2>3. /\ k' # 0 \/ mpc' \in {"close", "done"}
        /\ mpc' = "init" => k' <= Last + 1
        /\ mpc' = "push" => k' <= NFrames + 1
        /\ mpc' \in Destroying => k' \in 1..Last
        /\ mpc' = "close" => chain \notin Reversed
    <3>1. CASE PushFrame
      BY <1>1, <3>1 DEF PushFrame, Destroying
    <3>2. CASE DestroyDerived \/ JoinSink
      BY <1>1, <3>2 DEF DestroyDerived, JoinSink, Destroying, Structure, Phases
    <3>3. CASE JoinSrc
      BY <1>1, <2>1, <3>3 DEF JoinSrc, Destroying, AfterElements, Last
    <3>4. CASE CloseLibraries
      BY <3>4 DEF CloseLibraries, Destroying
    <3> QED
      BY <1>6, <3>1, <3>2, <3>3, <3>4
  <2> QED
    BY <1>2, <2>1, <2>2, <2>3 DEF Phases
<1> QED
  BY <1>3, <1>4, <1>5, <1>6, MainCases

LEMMA MainLives ==
  ASSUME TypeOK, Structure, Main
  PROVE  Lives'
<1>1. /\ Last \in Nat /\ k \in Nat
      /\ \A i \in Positions : i \in Nat /\ i # 0 /\ life[i] = Expected(i)
      /\ life \in [Positions -> {"none", "alive", "base", "nosink", "gone"}]
  BY LastType DEF TypeOK, Structure, Lives, Positions
<1>2. CASE ScanFile
  <2>1. Last = 0 /\ Last' = 0 /\ UNCHANGED life
    BY <1>2 DEF ScanFile, Structure, Built, Last
  <2> QED
    BY <1>1, <2>1 DEF Lives, Expected
<1>3. CASE BuildElement
  <2> DEFINE type == IF Provided(chain[k]) THEN chain[k] ELSE NullElement
  <2>1. elems \in Seq(Types \cup {NullElement}) /\ k = Last + 1 /\ mpc = "build" /\ mpc' = "build"
    BY <1>3 DEF BuildElement, TypeOK, Structure, Built
  <2>2. elems' = Append(elems, type)
    BY <1>3 DEF BuildElement
  <2>3. Last' = k /\ \A i \in 1..k : elems'[i] = IF i = k THEN type ELSE elems[i]
    BY <2>1, <2>2 DEF Last
  <2>4. life' = IF type = NullElement THEN life ELSE [life EXCEPT ![k] = "alive"]
    BY <1>3 DEF BuildElement
  <2>5. ASSUME NEW i \in Positions PROVE life'[i] = Expected(i)'
    <3>1. CASE i > k
      BY <1>1, <2>1, <2>3, <2>4, <3>1 DEF Expected
    <3>2. CASE i = k
      BY <1>1, <2>1, <2>3, <2>4, <3>2 DEF Expected, Destroying
    <3>3. CASE i < k
      BY <1>1, <2>1, <2>3, <2>4, <3>3 DEF Expected, Destroying
    <3> QED
      BY <1>1, <3>1, <3>2, <3>3
  <2> QED
    BY <2>5 DEF Lives
<1>4. CASE InitElement \/ PushFrame
  <2>1. UNCHANGED <<life, elems, mpc, Last>> /\ mpc \in {"init", "push"}
    BY <1>4 DEF InitElement, PushFrame, Last
  <2> QED
    BY <1>1, <2>1 DEF Lives, Expected, Destroying
<1>5. CASE Turns
  <2>1. UNCHANGED <<life, elems, chain, Last>>
    BY <1>5 DEF Turns, Turn, Last
  <2>2. ASSUME NEW i \in Positions PROVE Expected(i)' = Expected(i)
    <3>1. CASE mpc \notin Destroying \cup {"close", "done"} /\ mpc' \notin Destroying \cup {"close", "done"}
      BY <2>1, <3>1 DEF Expected
    <3>2. CASE Turn("shutdown", "derived") /\ k' = FirstToDestroy
      BY <1>1, <2>1, <3>2 DEF Turn, Expected, Destroying, Earlier, FirstToDestroy, Last
    <3>3. CASE Turn("shutdown", AfterElements) /\ elems = <<>>
      <4>1. Last = 0
        BY <3>3 DEF Last
      <4> QED
        BY <1>1, <2>1, <4>1 DEF Expected
    <3>4. CASE (Turn("stop_sink", "join_sink") \/ Turn("stop_src", "join_src")) /\ k' = k
      BY <2>1, <3>4 DEF Turn, Expected, Destroying, Earlier
    <3> QED
      BY <1>5, <3>1, <3>2, <3>3, <3>4 DEF Turns, Turn, Destroying
  <2> QED
    BY <1>1, <2>1, <2>2 DEF Lives
<1>6. CASE DestroyDerived \/ JoinSink
  <2>1. /\ UNCHANGED <<elems, chain, k, Last>> /\ k \in 1..Last /\ elems[k] # NullElement
        /\ \/ mpc = "derived" /\ mpc' = "stop_sink" /\ life' = [life EXCEPT ![k] = "base"]
           \/ mpc = "join_sink" /\ mpc' = "stop_src" /\ life' = [life EXCEPT ![k] = "nosink"]
    BY <1>6 DEF DestroyDerived, JoinSink, Last, Structure, Phases, Destroying, Initialised, AfterInit
  <2> QED
    BY <1>1, <2>1 DEF Lives, Expected, Destroying, Earlier
<1>7. CASE JoinSrc
  <2>1. /\ UNCHANGED <<elems, chain, Last>> /\ mpc = "join_src" /\ k \in 1..Last
        /\ life' = [life EXCEPT ![k] = "gone"] /\ k' = NextToDestroy
        /\ mpc' = IF NextToDestroy \in 1..Last THEN "derived" ELSE AfterElements
    BY <1>7 DEF JoinSrc, Last, Structure, Phases, Destroying
  <2>2. ASSUME NEW i \in Positions PROVE life'[i] = Expected(i)'
    <3>1. CASE i > Last
      BY <1>1, <2>1, <3>1 DEF Expected
    <3>2. CASE i <= Last
      <4>1. elems[i] # NullElement
        BY <1>1, <2>1, <3>2 DEF Structure, Phases, Initialised, AfterInit, Destroying
      <4>2. life[i] = IF Earlier(i) THEN "gone" ELSE IF i # k THEN "alive" ELSE "nosink"
        BY <1>1, <2>1, <3>2, <4>1 DEF Expected, Destroying
      <4>3. CASE NextToDestroy \in 1..Last
        BY <1>1, <2>1, <3>2, <4>1, <4>2, <4>3 DEF Expected, Destroying, Earlier, NextToDestroy
      <4>4. CASE NextToDestroy \notin 1..Last
        <5>1. Earlier(i) \/ i = k
          BY <1>1, <2>1, <3>2, <4>4 DEF Earlier, NextToDestroy
        <5>2. life'[i] = "gone"
          BY <1>1, <2>1, <4>2, <5>1
        <5> QED
          BY <1>1, <2>1, <3>2, <4>1, <4>4, <5>2 DEF Expected, AfterElements
      <4> QED
        BY <4>3, <4>4
    <3> QED
      BY <1>1, <3>1, <3>2
  <2> QED
    BY <2>2 DEF Lives
<1>8. CASE CloseLibraries
  BY <1>1, <1>8 DEF CloseLibraries, Lives, Expected, Last
<1> QED
  BY <1>2, <1>3, <1>4, <1>5, <1>6, <1>7, <1>8, MainCases

LEMMA MainStructure ==
  ASSUME TypeOK, Structure, Main
  PROVE  Structure'
BY MainRegistry, MainBuilt, MainPhases, MainLives DEF Structure

\* A worker changes nothing that this part of the invariant speaks of.
LEMMA WorkerStructure ==
  ASSUME Structure, NEW p \in Pads, WorkerStep(p)
  PROVE  Structure'
<1>1. UNCHANGED <<dir, plugins, libs, chain, elems, mpc, k, life, linked, Last>>
  BY WorkerKeeps DEF mainVars, registryVars, Last
<1> QED
  BY <1>1 DEF Structure, Registry, Built, Provided, Phases, Initialised, Kind, Lives, Expected, Earlier

-----------------------------------------------------------------------------
(* The workers, their queues and their calls *)

\* A step of a worker leaves the others alone, and is no step of one that has
\* been joined or never started.
LEMMA WorkerAlone ==
  ASSUME TypeOK, Structure, Queues, Calls, NEW p \in Pads, WorkerStep(p)
  PROVE  /\ wk[p].pc \in {"head", "wait", "call"}
         /\ \A r \in Pads : r # p => wk'[r] = wk[r]
         /\ ~Idle(p)
<1>1. wk[p].pc \in {"head", "wait", "call"}
  BY DEF WorkerStep, WorkerHead, WorkerPop, WorkerQuit, EnterPad, EnterElement
<1>2. wk \in [Pads -> Workers]
  BY DEF TypeOK
<1>3. \A r \in Pads : r # p => wk'[r] = wk[r]
  <2>1. CASE WorkerHead(p) \/ WorkerPop(p) \/ WorkerQuit(p)
    BY <1>2, <2>1 DEF WorkerHead, WorkerPop, WorkerQuit
  <2>2. CASE EnterPad(p)
    BY <1>2, <2>2, EnterPadCases DEF PadDies, PadQueues, PadDrops, Enters
  <2>3. CASE EnterElement(p)
    BY <1>2, <2>3, EnterElementCases DEF ElementDies, ElementPasses, ElementTakes
  <2> QED
    BY <2>1, <2>2, <2>3 DEF WorkerStep
<1> QED
  BY <1>1, <1>3, WorkerTypes DEF Idle

LEMMA WorkerJoined ==
  ASSUME TypeOK, Structure, Queues, Calls, Joined, NEW p \in Pads, WorkerStep(p)
  PROVE  Joined'
<1>1. life' = life /\ \A r \in Pads : Idle(r) => wk'[r] = wk[r]
  BY WorkerKeeps, WorkerAlone
<1> QED
  BY <1>1 DEF Joined, PadFreed, Idle, Pads

LEMMA MainJoined ==
  ASSUME TypeOK, Structure, Joined, Main
  PROVE  Joined'
<1>1. life \in [Positions -> {"none", "alive", "base", "nosink", "gone"}]
  BY DEF TypeOK
<1>2. CASE BuildElement
  <2>1. \/ UNCHANGED <<life, wk>>
        \/ /\ life' = [life EXCEPT ![k] = "alive"]
           /\ \A p \in Pads : p[1] # k => wk'[p] = wk[p]
    BY <1>2 DEF BuildElement
  <2> QED
    BY <1>1, <2>1 DEF Joined, PadFreed, Idle, Pads
<1>3. CASE DestroyDerived
  BY <1>1, <1>3 DEF DestroyDerived, Joined, PadFreed, Idle
<1>4. CASE JoinSink
  BY <1>1, <1>4 DEF JoinSink, Joined, PadFreed, Idle
<1>5. CASE JoinSrc
  <2>1. k \in Positions /\ life[k] = "nosink"
    <3>1. k \in 1..Last /\ mpc = "join_src" /\ elems[k] # NullElement
      BY <1>5 DEF JoinSrc, Structure, Phases, Destroying, Initialised, AfterInit
    <3>2. k \in Positions
      BY <3>1, LastType DEF Positions
    <3> QED
      BY <3>1, <3>2, LastType DEF Structure, Lives, Expected, Destroying, Earlier
  <2>2. Idle(<<k, "sink">>) /\ Idle(<<k, "src">>)
    BY <1>5, <2>1 DEF JoinSrc, Joined, PadFreed, Idle
  <2> QED
    BY <1>1, <1>5, <2>2 DEF JoinSrc, Joined, PadFreed, Idle
<1>6. CASE Turns \/ ScanFile \/ InitElement \/ PushFrame \/ CloseLibraries
  BY <1>6 DEF Turns, Turn, ScanFile, InitElement, PushFrame, CloseLibraries, Joined, PadFreed, Idle
<1> QED
  BY <1>2, <1>3, <1>4, <1>5, <1>6, MainCases

LEMMA MainQueues ==
  ASSUME TypeOK, Structure, Queues, Main
  PROVE  Queues'
<1>1. wk \in [Pads -> Workers] /\ q \in [Pads -> Seq(Frames)]
  BY DEF TypeOK
<1>2. CASE BuildElement
  <2> DEFINE type == IF Provided(chain[k]) THEN chain[k] ELSE NullElement
  <2>1. elems \in Seq(Types \cup {NullElement}) /\ k = Last + 1 /\ mpc = "build" /\ mpc' = "build"
    BY <1>2 DEF BuildElement, TypeOK, Structure, Built
  <2>2. elems' = Append(elems, type) /\ Last \in Nat
    BY <1>2, LastType DEF BuildElement
  <2>3. Last' = k /\ \A i \in 1..k : elems'[i] = IF i = k THEN type ELSE elems[i]
    BY <2>1, <2>2 DEF Last
  <2>4. q' = q /\ \A p \in Pads : wk'[p] = IF type # NullElement /\ p[1] = k /\ PadKinds[type][p[2]] = "queue"
                                       THEN AtHead ELSE wk[p]
    BY <1>1, <1>2 DEF BuildElement
  <2> HIDE DEF type
  <2>5. ASSUME NEW p \in Pads
        PROVE  /\ ~IsQueue(p)' => wk'[p] = NoWorker /\ q'[p] = <<>>
               /\ q'[p] = <<>> /\ wk'[p].pc # "call"
    <3>1. q[p] = <<>> /\ wk[p].pc # "call" /\ (~IsQueue(p) => wk[p] = NoWorker)
      BY <2>1 DEF Queues
    <3>2. q'[p] = <<>> /\ wk'[p].pc # "call"
      BY <2>4, <3>1, WorkerTypes
    <3>3. CASE p[1] = k
      <4>1. ~IsQueue(p)
        BY <2>1, <2>2, <3>3 DEF IsQueue
      <4> QED
        <5>1. k \in 1..k
          BY <2>1, <2>2
        <5>2. k \in 1..Last'
          BY <2>1, <2>2, <2>3
        <5>3. elems'[k] = type
          BY <2>3, <5>1
        <5>4. IsQueue(p)' <=> type # NullElement /\ PadKinds[type][p[2]] = "queue"
          BY <3>3, <5>2, <5>3 DEF IsQueue, Kind
        <5> QED
          BY <2>4, <3>1, <3>2, <3>3, <4>1, <5>4
    <3>4. CASE p[1] # k
      <4>1. p[1] \in Nat
        BY DEF Pads, Positions
      <4>2. IsQueue(p)' <=> IsQueue(p)
        <5>1. p[1] \in 1..Last <=> p[1] \in 1..k
          BY <2>1, <2>2, <3>4, <4>1
        <5>2. p[1] \in 1..Last => elems'[p[1]] = elems[p[1]]
          BY <2>3, <3>4, <5>1
        <5> QED
          BY <2>3, <5>1, <5>2 DEF IsQueue, Kind
      <4> QED
        BY <2>4, <3>1, <3>2, <3>4, <4>2
    <3> QED
      BY <3>3, <3>4
  <2> QED
    BY <2>5 DEF Queues
<1>3. CASE PushFrame
  <2>1. /\ mpc' = "push" /\ wk' = wk /\ elems' = elems
        /\ \A p \in Pads : q'[p] # q[p] => elems # <<>> /\ elems[1] = "Source" /\ p = <<1, "src">>
    BY <1>1, <1>3 DEF PushFrame
  <2>2. ASSUME elems # <<>>, elems[1] = "Source" PROVE IsQueue(<<1, "src">>)
    <3>1. Last # 0 /\ Last \in Nat
      BY <2>2, LastType DEF TypeOK, Last
    <3> QED
      BY <2>2, <3>1, Table DEF IsQueue, Kind
  <2>3. \A p \in Pads : IsQueue(p)' <=> IsQueue(p)
    BY <2>1 DEF IsQueue, Kind, Last
  <2> QED
    BY <2>1, <2>2, <2>3 DEF Queues
<1>4. CASE ScanFile
  BY <1>4 DEF ScanFile, Queues, IsQueue, Kind, Last
<1>5. CASE \/ Turns \/ InitElement \/ DestroyDerived \/ JoinSink \/ JoinSrc \/ CloseLibraries
  <2>1. UNCHANGED <<wk, q, elems, Last>> /\ (mpc' \in {"scan", "build", "init"} => mpc \in {"scan", "build", "init"})
    BY <1>5 DEF Turns, Turn, InitElement, DestroyDerived, JoinSink, JoinSrc, CloseLibraries, Last,
                AfterElements
  <2> QED
    BY <2>1 DEF Queues, IsQueue, Kind
<1> QED
  BY <1>2, <1>3, <1>4, <1>5, MainCases

LEMMA WorkerIsQueue ==
  ASSUME Queues, NEW p \in Pads, wk[p].pc \in {"head", "wait", "call"} \/ q[p] # <<>>
  PROVE  IsQueue(p)
BY WorkerTypes DEF Queues

\* A queue that a call appends to.
LEMMA QueueEntered ==
  ASSUME TypeOK, Structure, Queues, Calls, NEW p \in Pads, EnterPad(p), PadQueues(p)
  PROVE  /\ <<Where(p), What(p)>> \in Pads
         /\ IsQueue(<<Where(p), What(p)>>)
         /\ mpc \in AfterInit
<1>1. /\ CallOK(p) /\ Where(p) \in Positions /\ What(p) \in {"sink", "src"} /\ wk[p].pc = "call"
  BY EnterPadCases
<1>2. mpc \in AfterInit /\ Where(p) \in 1..Last
  BY <1>1, CallMeansInit, LastType DEF CallOK, Where, Positions
<1>3. elems[Where(p)] # NullElement
  BY <1>2 DEF Structure, Phases, Initialised, AfterInit, Destroying
<1> QED
  BY <1>1, <1>2, <1>3 DEF Pads, IsQueue, PadQueues

LEMMA WorkerQueues ==
  ASSUME TypeOK, Structure, Queues, Calls, NEW p \in Pads, WorkerStep(p)
  PROVE  Queues'
<1>1. UNCHANGED <<elems, mpc, Last>> /\ \A r \in Pads : IsQueue(r)' <=> IsQueue(r)
  BY WorkerKeeps DEF mainVars, IsQueue, Kind, Last
<1>2. IsQueue(p) /\ \A r \in Pads : r # p => wk'[r] = wk[r]
  BY WorkerAlone, WorkerIsQueue
<1>3. wk \in [Pads -> Workers] /\ q \in [Pads -> Seq(Frames)]
  BY DEF TypeOK
<1>4. CASE mpc \in {"scan", "build", "init"}
  <2>1. q[p] = <<>> /\ wk[p].pc # "call"
    BY <1>4 DEF Queues
  <2>2. WorkerHead(p) \/ WorkerQuit(p)
    BY <2>1 DEF WorkerStep, WorkerPop, EnterPad, EnterElement
  <2>3. q' = q /\ wk'[p].pc # "call"
    BY <1>3, <2>2, WorkerTypes DEF WorkerHead, WorkerQuit
  <2> QED
    BY <1>1, <1>2, <2>3 DEF Queues
<1>5. CASE mpc \notin {"scan", "build", "init"}
  <2>1. \A r \in Pads : ~IsQueue(r) => q'[r] = q[r]
    <3>1. CASE WorkerHead(p) \/ WorkerQuit(p)
      BY <3>1 DEF WorkerHead, WorkerQuit
    <3>2. CASE WorkerPop(p)
      BY <1>2, <1>3, <3>2, WorkerPopCases
    <3>3. CASE EnterPad(p)
      BY <1>3, <3>3, EnterPadCases, QueueEntered DEF PadDies, PadQueues, PadDrops, Enters
    <3>4. CASE EnterElement(p)
      BY <3>4, EnterElementCases
    <3> QED
      BY <3>1, <3>2, <3>3, <3>4 DEF WorkerStep
  <2> QED
    BY <1>1, <1>2, <1>5, <2>1 DEF Queues
<1> QED
  BY <1>4, <1>5

\* The order of pads and places along the chain.
LEMMA Stages ==
  /\ \A p \in Pads : /\ Stage(p) \in Nat
                     /\ Stage(p) = IF p[2] = "sink" THEN 3 * p[1] ELSE 3 * p[1] + 2
  /\ \A p, r \in Pads : Stage(p) = Stage(r) => p = r
  /\ \A i \in Positions :
       /\ i \in Nat
       /\ Stage(<<i, "sink">>) = 3 * i /\ Stage(<<i, "elem">>) = 3 * i + 1 /\ Stage(<<i, "src">>) = 3 * i + 2
       /\ \A p \in Pads : Stage(p) # 3 * i + 1
<1>1. \A p \in Pads : p = <<p[1], p[2]>> /\ p[1] \in Nat /\ p[2] \in {"sink", "src"}
  BY DEF Pads, Positions
<1>2. \A p \in Pads : /\ p[2] = "sink" => Stage(p) = 3 * p[1]
                      /\ p[2] = "src" => Stage(p) = 3 * p[1] + 2
  BY <1>1 DEF Stage
<1>3. \A i \in Positions : i \in Nat
  BY DEF Positions
<1>4. \A p, r \in Pads : Stage(p) = Stage(r) => p = r
  <2> SUFFICES ASSUME NEW p \in Pads, NEW r \in Pads, Stage(p) = Stage(r) PROVE p[1] = r[1] /\ p[2] = r[2]
    BY <1>1
  <2> QED
    BY <1>1, <1>2
<1>5. \A p \in Pads, i \in Positions : Stage(p) # 3 * i + 1
  BY <1>1, <1>2, <1>3
<1> QED
  BY <1>1, <1>2, <1>3, <1>4, <1>5 DEF Stage

\* The next call of a chain: from the pad whose worker makes it, over pads that
\* are no queue.
NextCall(p, f, place) ==
  /\ f \in Frames /\ place \in Places /\ place[1] <= Last
  /\ Stage(p) < Stage(place)
  /\ place[2] = "elem" => Kind(place[1], "sink") # "none"
  /\ place[2] = "src" => elems[place[1]] \in {"InvertFilter", "Filter"}
  /\ \A r \in Pads : Stage(p) < Stage(r) /\ Stage(r) < Stage(place) => ~IsQueue(r)

LEMMA WorkerCalls ==
  ASSUME TypeOK, Structure, Queues, Calls, NEW p \in Pads, WorkerStep(p)
  PROVE  Calls'
<1>1. UNCHANGED <<elems, mpc, Last>> /\ (\A r \in Pads : IsQueue(r)' <=> IsQueue(r))
      /\ \A i, side : Kind(i, side)' = Kind(i, side)
  BY WorkerKeeps DEF mainVars, IsQueue, Kind, Last
<1>2. \A r \in Pads : r # p => wk'[r] = wk[r]
  BY WorkerAlone
<1>3. wk \in [Pads -> Workers]
  BY DEF TypeOK
<1>4. ASSUME NEW f, NEW place, NextCall(p, f, place), wk' = [wk EXCEPT ![p] = Calling(f, place)]
      PROVE  CallOK(p)'
  <2>1. wk'[p].frame = f /\ wk'[p].at = place
    BY <1>3, <1>4, WorkerTypes DEF NextCall
  <2> QED
    BY <1>1, <1>4, <2>1 DEF CallOK, NextCall
<1>5. ASSUME \/ wk'[p].pc # "call"
             \/ wk'[p] = wk[p]
             \/ \E f, place : NextCall(p, f, place) /\ wk' = [wk EXCEPT ![p] = Calling(f, place)]
      PROVE  Calls'
  <2>1. ASSUME NEW r \in Pads, wk'[r] = wk[r], wk[r].pc = "call" PROVE CallOK(r)'
    BY <1>1, <2>1 DEF Calls, CallOK
  <2> QED
    BY <1>2, <1>4, <1>5, <2>1 DEF Calls
<1>6. CASE WorkerHead(p) \/ WorkerQuit(p)
  <2>1. wk'[p].pc # "call"
    BY <1>3, <1>6, WorkerTypes DEF WorkerHead, WorkerQuit
  <2> QED
    BY <1>5, <2>1
<1>7. CASE WorkerPop(p)
  <2>1. IsQueue(p) /\ Head(q[p]) \in Frames /\ p = <<p[1], p[2]>> /\ p[1] \in Positions /\ p[1] \in 1..Last
    BY <1>7, WorkerAlone, WorkerIsQueue, WorkerPopCases, PadType DEF IsQueue
  <2>2. CASE PopDrops(p)
    BY <1>3, <1>5, <2>2, WorkerTypes DEF PopDrops
  <2>3. ASSUME NEW next \in Places, PopCalls(p, next) PROVE NextCall(p, Head(q[p]), next)
    <3>1. CASE p[2] = "sink"
      <4>1. next = <<p[1], "elem">>
        BY <2>3, <3>1 DEF PopCalls
      <4>2. Stage(p) = 3 * p[1] /\ Stage(next) = 3 * p[1] + 1 /\ p[1] \in Nat /\ p[1] <= Last
        <5>1. Stage(p) = 3 * p[1]
          BY <3>1, Stages
        <5>2. Stage(next) = 3 * p[1] + 1
          BY <2>1, <4>1, Stages
        <5> QED
          BY <2>1, <5>1, <5>2, LastType, Stages
      <4>3. \A r \in Pads : ~(Stage(p) < Stage(r) /\ Stage(r) < Stage(next))
        BY <4>2, Stages
      <4> QED
        BY <2>1, <2>3, <3>1, <4>1, <4>2, <4>3 DEF NextCall, IsQueue, Positions
    <3>2. CASE p[2] = "src"
      <4>1. next = <<p[1] + 1, "sink">> /\ p[1] + 1 \in 1..Last /\ p[1] + 1 \in Positions
        BY <2>3, <3>2, LinkedNext, PadType DEF PopCalls
      <4>2. Stage(p) = 3 * p[1] + 2 /\ Stage(next) = 3 * (p[1] + 1) /\ p[1] \in Nat
        <5>1. Stage(p) = 3 * p[1] + 2
          BY <3>2, Stages
        <5>2. Stage(next) = 3 * (p[1] + 1)
          BY <4>1, Stages
        <5> QED
          BY <2>1, <5>1, <5>2, Stages
      <4>3. \A r \in Pads : ~(Stage(p) < Stage(r) /\ Stage(r) < Stage(next))
        BY <4>2, Stages
      <4> QED
        BY <2>1, <2>3, <4>1, <4>2, <4>3, LastType DEF NextCall
    <3> QED
      BY <3>1, <3>2, PadType
  <2> QED
    BY <1>5, <1>7, <2>2, <2>3, WorkerPopCases DEF PopCalls
<1>8. CASE EnterPad(p)
  <2>1. /\ CallOK(p) /\ Where(p) \in Positions /\ What(p) \in {"sink", "src"}
        /\ wk[p].at = <<Where(p), What(p)>> /\ wk[p].frame \in Frames
        /\ PadDies(p) \/ PadQueues(p) \/ PadDrops(p) \/ \E next \in Places : Enters(p, next)
    BY <1>8, EnterPadCases
  <2>2. CASE PadDies(p) \/ PadQueues(p) \/ PadDrops(p)
    BY <1>3, <1>5, <2>2, WorkerTypes DEF PadDies, PadQueues, PadDrops
  <2>3. ASSUME NEW next \in Places, Enters(p, next) PROVE NextCall(p, wk[p].frame, next)
    <3>1. /\ Stage(p) < Stage(wk[p].at) /\ Where(p) <= Last /\ Where(p) \in Nat /\ Stage(p) \in Nat
          /\ \A r \in Pads : Stage(p) < Stage(r) /\ Stage(r) < Stage(wk[p].at) => ~IsQueue(r)
      BY <2>1, Stages DEF CallOK, Where, Positions
    <3>2. wk[p].at \in Pads /\ ~IsQueue(wk[p].at)
      BY <2>1, <2>3 DEF Enters, IsQueue, Pads
    <3>3. \A r \in Pads : Stage(p) < Stage(r) /\ Stage(r) <= Stage(wk[p].at) => ~IsQueue(r)
      <4>1. \A r \in Pads : Stage(r) <= Stage(wk[p].at) => Stage(r) < Stage(wk[p].at) \/ r = wk[p].at
        BY <3>2, Stages
      <4> QED
        BY <3>1, <3>2, <4>1
    <3>4. CASE What(p) = "sink"
      <4>1. next = <<Where(p), "elem">>
        BY <2>3, <3>4 DEF Enters
      <4>2. Stage(wk[p].at) = 3 * Where(p) /\ Stage(next) = 3 * Where(p) + 1
        BY <2>1, <3>4, <4>1, Stages
      <4>3. \A r \in Pads : Stage(r) < Stage(next) => Stage(r) <= Stage(wk[p].at)
        BY <3>1, <4>2, Stages
      <4>4. Stage(p) < Stage(next)
        BY <3>1, <4>2
      <4>5. Kind(Where(p), "sink") # "none"
        BY <2>3, <3>4 DEF Enters
      <4> QED
        BY <2>1, <3>1, <3>3, <4>1, <4>3, <4>4, <4>5 DEF NextCall
    <3>5. CASE What(p) = "src"
      <4>1. next = <<Where(p) + 1, "sink">> /\ Where(p) + 1 \in 1..Last /\ Where(p) + 1 \in Positions
        BY <2>3, <3>5, LinkedNext DEF Enters
      <4>2. Stage(wk[p].at) = 3 * Where(p) + 2 /\ Stage(next) = 3 * (Where(p) + 1)
        BY <2>1, <3>5, <4>1, Stages
      <4>3. \A r \in Pads : Stage(r) < Stage(next) => Stage(r) <= Stage(wk[p].at)
        BY <3>1, <4>2, Stages
      <4>4. Stage(p) < Stage(next) /\ Where(p) + 1 <= Last
        BY <3>1, <4>1, <4>2, LastType
      <4> QED
        BY <2>1, <2>3, <3>1, <3>3, <4>1, <4>3, <4>4 DEF NextCall
    <3> QED
      BY <2>1, <3>4, <3>5
  <2> QED
    BY <1>5, <2>1, <2>2, <2>3 DEF Enters
<1>9. CASE EnterElement(p)
  <2>1. /\ CallOK(p) /\ Where(p) \in Positions /\ What(p) = "elem"
        /\ wk[p].at = <<Where(p), What(p)>> /\ wk[p].frame \in Frames
        /\ ElementDies(p) \/ ElementPasses(p) \/ ElementTakes(p)
    BY <1>9, EnterElementCases
  <2>2. CASE ElementDies(p) \/ ElementTakes(p)
    BY <1>3, <1>5, <2>2, WorkerTypes DEF ElementDies, ElementTakes
  <2>3. CASE ElementPasses(p)
    <3> DEFINE next == <<Where(p), "src">>
    <3>1. /\ Stage(p) < Stage(wk[p].at) /\ Where(p) <= Last /\ Where(p) \in Nat /\ Stage(p) \in Nat
          /\ \A r \in Pads : Stage(p) < Stage(r) /\ Stage(r) < Stage(wk[p].at) => ~IsQueue(r)
      BY <2>1, Stages DEF CallOK, Where, Positions
    <3>2. Stage(wk[p].at) = 3 * Where(p) + 1 /\ Stage(next) = 3 * Where(p) + 2
      BY <2>1, Stages
    <3>3. \A r \in Pads : Stage(r) < Stage(next) => Stage(r) < Stage(wk[p].at)
      <4>1. \A r \in Pads : Stage(r) # 3 * Where(p) + 1 /\ Stage(r) \in Nat
        BY <2>1, Stages
      <4> QED
        BY <3>1, <3>2, <4>1
    <3>4. Stage(p) < Stage(next) /\ next \in Places
      BY <2>1, <3>1, <3>2 DEF Places
    <3>5. NextCall(p, wk[p].frame, next)
      BY <2>1, <2>3, <3>1, <3>3, <3>4 DEF NextCall, ElementPasses
    <3> QED
      BY <1>5, <2>3, <3>5 DEF ElementPasses
  <2> QED
    BY <2>1, <2>2, <2>3
<1> QED
  BY <1>6, <1>7, <1>8, <1>9 DEF WorkerStep

LEMMA MainCalls ==
  ASSUME TypeOK, Structure, Queues, Calls, Main
  PROVE  Calls'
<1>1. wk \in [Pads -> Workers]
  BY DEF TypeOK
<1>2. CASE ScanFile \/ BuildElement
  <2>1. mpc \in {"scan", "build"} /\ \A p \in Pads : wk'[p] \in {wk[p], AtHead}
    BY <1>1, <1>2 DEF ScanFile, BuildElement
  <2> QED
    BY <2>1, WorkerTypes DEF Calls, Queues
<1>3. CASE \/ Turns \/ InitElement \/ PushFrame \/ DestroyDerived \/ JoinSink \/ JoinSrc \/ CloseLibraries
  <2>1. UNCHANGED <<wk, elems, Last>>
    BY <1>3 DEF Turns, Turn, InitElement, PushFrame, DestroyDerived, JoinSink, JoinSrc, CloseLibraries, Last
  <2> QED
    BY <2>1 DEF Calls, CallOK, IsQueue, Kind
<1> QED
  BY <1>2, <1>3, MainCases

-----------------------------------------------------------------------------
(* How the process can die *)

LEMMA WorkerFaults ==
  ASSUME TypeOK, Structure, Queues, Calls, Faults, NEW p \in Pads, WorkerStep(p)
  PROVE  Faults'
<1>1. UNCHANGED <<mpc, drains>>
  BY WorkerKeeps DEF mainVars
<1>2. wk \in [Pads -> Workers]
  BY DEF TypeOK
<1>3. CASE WorkerHead(p) \/ WorkerQuit(p)
  <2>1. UNCHANGED <<q, fault>> /\ \A r \in Pads : wk[r].pc # "call" => wk'[r].pc # "call"
    BY <1>2, <1>3, WorkerTypes DEF WorkerHead, WorkerQuit
  <2> QED
    BY <1>1, <2>1 DEF Faults, Quiescent
<1>4. CASE WorkerPop(p) \/ EnterPad(p) \/ EnterElement(p)
  <2>1. q[p] # <<>> \/ wk[p].pc = "call"
    BY <1>4 DEF WorkerPop, EnterPad, EnterElement
  <2>2. mpc \in AfterInit /\ ~Quiescent
    BY <2>1, CallMeansInit DEF Quiescent
  <2>3. mpc \notin {"scan", "build"}
    BY <2>2 DEF AfterInit, Destroying
  <2> QED
    BY <1>1, <2>2, <2>3 DEF Faults
<1> QED
  BY <1>3, <1>4 DEF WorkerStep

LEMMA MainFaults ==
  ASSUME TypeOK, Structure, Queues, Faults, Main
  PROVE  Faults'
<1>1. CASE ScanFile \/ BuildElement \/ InitElement \/ PushFrame
  <2>1. mpc' \in {"scan", "build", "init", "push"} /\ (mpc' \in {"scan", "build"} => fault' = fault /\ mpc' = mpc)
    BY <1>1 DEF ScanFile, BuildElement, InitElement, PushFrame
  <2> QED
    BY <2>1 DEF Faults, AfterInit, Destroying
<1>2. CASE DestroyDerived \/ JoinSink \/ JoinSrc \/ CloseLibraries
  <2>1. UNCHANGED <<q, wk, drains>> /\ mpc \in AfterInit \ {"push", "sleep"} /\ mpc' \notin {"scan", "build"}
    BY <1>2 DEF DestroyDerived, JoinSink, JoinSrc, CloseLibraries, AfterInit, Destroying, registryVars,
                AfterElements
  <2> QED
    BY <2>1 DEF Faults, Quiescent
<1>3. CASE Turns
  <2>1. /\ UNCHANGED <<q, wk, drains, fault>>
        /\ \/ mpc' \in {"build", "init", "push", "sleep"} /\ (mpc' = "build" => mpc = "scan")
           \/ mpc = "sleep" /\ (drains => Quiescent) /\ mpc' = "stop"
           \/ mpc \in AfterInit \ {"push", "sleep"} /\ mpc' \notin {"scan", "build"}
    BY <1>3 DEF Turns, Turn, AfterInit, Destroying, AfterElements
  <2> QED
    BY <2>1 DEF Faults, Quiescent, AfterInit, Destroying
<1> QED
  BY <1>1, <1>2, <1>3, MainCases

\* What the elements of a well-formed configuration are.
LEMMA WellFormedElements ==
  ASSUME TypeOK, Structure, WellFormed(chain), mpc \notin {"scan", "build"}
  PROVE  /\ Last = Len(chain)
         /\ \A i \in 1..Last : elems[i] = chain[i] /\ elems[i] \in Types
         /\ \A i \in 1..Last - 1 : Kind(i, "src") # "none" /\ Kind(i + 1, "sink") # "none"
<1>1. Last = Len(chain) /\ Last \in Nat
  BY LastType DEF Structure, Built
<1>2. \A i \in 1..Last : elems[i] = chain[i] /\ elems[i] \in Types
  BY <1>1, ReversedAssumption DEF Structure, Built, WellFormed, Provided
<1>3. \A i \in 1..Last - 1 : i \in 1..Last /\ i + 1 \in 1..Last
  BY <1>1
<1> QED
  BY <1>1, <1>2, <1>3 DEF WellFormed, Kind

LEMMA WorkerNoFault ==
  ASSUME TypeOK, Structure, Queues, Calls, Faults, NoFaultIfWellFormed, NEW p \in Pads, WorkerStep(p)
  PROVE  NoFaultIfWellFormed'
<1>1. UNCHANGED <<mpc, drains, chain, plugins>>
  BY WorkerKeeps DEF mainVars, registryVars
<1>2. WellFormed(chain)' => WellFormed(chain)
  BY <1>1 DEF WellFormed, Provided
<1> SUFFICES ASSUME WellFormed(chain), drains, fault' # fault PROVE FALSE
  BY <1>1, <1>2 DEF NoFaultIfWellFormed
<1>3. wk[p].pc = "call" /\ CallOK(p) /\ Where(p) \in Positions
      /\ ((EnterPad(p) /\ PadDies(p)) \/ (EnterElement(p) /\ ElementDies(p)))
  <2>1. CASE EnterPad(p)
    BY <2>1, EnterPadCases DEF PadDies, PadQueues, PadDrops, Enters
  <2>2. CASE EnterElement(p)
    BY <2>2, EnterElementCases DEF ElementDies, ElementPasses, ElementTakes
  <2> QED
    BY <2>1, <2>2 DEF WorkerStep, WorkerHead, WorkerPop, WorkerQuit
<1>4. mpc \in {"push", "sleep"} /\ mpc \in AfterInit
  BY <1>3, CallMeansInit DEF Faults, Quiescent
<1>5. Where(p) \in 1..Last /\ Where(p) \in Nat /\ Last \in Nat
  BY <1>3, LastType DEF CallOK, Where, Positions
<1>6. life[Where(p)] = "alive"
  BY <1>3, <1>4, <1>5, ElementType, Table DEF Structure, Lives, Expected, Destroying
<1>7. CASE EnterElement(p) /\ ElementDies(p)
  BY <1>6, <1>7 DEF ElementDies
<1>8. CASE EnterPad(p) /\ PadDies(p)
  <2>1. Kind(Where(p), What(p)) = "none" /\ What(p) \in {"sink", "src"} /\ wk[p].at = <<Where(p), What(p)>>
    BY <1>6, <1>8, EnterPadCases DEF PadDies, PadFreed
  <2>2. CASE What(p) = "sink"
    <3>1. Stage(p) < 3 * Where(p) /\ p[1] \in Nat /\ p[1] # 0 /\ Stage(p) \in {3 * p[1], 3 * p[1] + 2}
      <4>1. Stage(p) < Stage(wk[p].at) /\ Stage(wk[p].at) = 3 * Where(p)
        BY <1>3, <2>1, <2>2, Stages DEF CallOK
      <4>2. p[1] \in Nat /\ p[1] # 0
        BY PadType DEF Positions
      <4> QED
        BY <4>1, <4>2, Stages
    <3>2. Where(p) - 1 \in 1..Last - 1 /\ Where(p) - 1 + 1 = Where(p)
      BY <1>5, <3>1
    <3> QED
      BY <1>4, <2>1, <2>2, <3>2, WellFormedElements
  <2>3. CASE What(p) = "src"
    BY <1>3, <2>1, <2>3, Table DEF CallOK, Where, What, Kind
  <2> QED
    BY <2>1, <2>2, <2>3
<1> QED
  BY <1>3, <1>7, <1>8

LEMMA MainNoFault ==
  ASSUME TypeOK, Structure, Faults, NoFaultIfWellFormed, Main
  PROVE  NoFaultIfWellFormed'
<1>1. CASE ScanFile \/ BuildElement
  BY <1>1 DEF ScanFile, BuildElement, Faults, NoFaultIfWellFormed
<1>2. CASE InitElement
  <2>1. mpc = "init" /\ k \in 1..Last /\ UNCHANGED <<drains, chain, plugins>>
    BY <1>2, LastType DEF InitElement, registryVars, Last, Structure, Phases, TypeOK
  <2>2. WellFormed(chain)' => WellFormed(chain)
    BY <2>1 DEF WellFormed, Provided
  <2>3. ASSUME WellFormed(chain) PROVE fault' = fault
    <3>1. elems[k] # NullElement
      BY <2>1, <2>3, WellFormedElements, Table
    <3>2. k > 1 => k - 1 \in 1..Last - 1
      BY <2>1, LastType
    <3>3. k > 1 => Kind(k - 1, "src") # "none"
      BY <2>1, <2>3, <3>2, WellFormedElements
    <3> QED
      BY <1>2, <3>1, <3>3 DEF InitElement
  <2> QED
    BY <2>1, <2>2, <2>3 DEF NoFaultIfWellFormed
<1>3. CASE \/ Turns \/ PushFrame \/ DestroyDerived \/ JoinSink \/ JoinSrc \/ CloseLibraries
  <2>1. UNCHANGED <<fault, drains, chain, plugins>>
    BY <1>3 DEF Turns, Turn, PushFrame, DestroyDerived, JoinSink, JoinSrc, CloseLibraries, registryVars
  <2> QED
    BY <2>1 DEF NoFaultIfWellFormed, WellFormed, Provided
<1> QED
  BY <1>1, <1>2, <1>3, MainCases

\* Elements die from the source to the sink, so a call never meets one that is
\* gone: the pad it was made from went before, and its worker was joined.
LEMMA CallMeetsLife ==
  ASSUME TypeOK, Structure, Queues, Calls, Joined, chain \notin Reversed, NEW p \in Pads, wk[p].pc = "call",
         Where(p) \in Positions
  PROVE  /\ life[Where(p)] # "gone"
         /\ wk[p].at = <<Where(p), "sink">> => life[Where(p)] # "nosink"
<1>1. /\ Where(p) \in 1..Last /\ Where(p) \in Nat /\ p[1] \in Nat /\ p[1] \in Positions
      /\ Stage(p) < Stage(wk[p].at) /\ wk[p].at \in Places
  BY LastType, PadType DEF Calls, CallOK, Where, Positions
<1>2. p[1] <= Where(p) /\ (wk[p].at = <<Where(p), "sink">> => p[1] < Where(p))
  <2>1. Stage(p) \in {3 * p[1], 3 * p[1] + 2}
    BY Stages
  <2>2. Stage(wk[p].at) <= 3 * Where(p) + 2 /\ Stage(wk[p].at) \in Nat
    <3>1. /\ Where(p) \in Nat
          /\ Stage(wk[p].at) \in {3 * Where(p), 3 * Where(p) + 1, 3 * Where(p) + 2}
      BY <1>1 DEF Stage, Where, Places
    <3> QED
      BY <3>1
  <2>3. wk[p].at = <<Where(p), "sink">> => Stage(wk[p].at) = 3 * Where(p)
    BY Stages
  <2> QED
    BY <1>1, <2>1, <2>2, <2>3, Stages
<1>3. IsQueue(p) /\ p[1] \in 1..Last /\ elems[p[1]] # NullElement
  BY WorkerIsQueue DEF IsQueue
<1>4. life[p[1]] # "gone"
  <2>1. ~Idle(p) /\ p = <<p[1], p[2]>> /\ p[2] \in {"sink", "src"}
    BY PadType, WorkerTypes DEF Idle
  <2>2. ~Idle(<<p[1], p[2]>>)
    BY <2>1
  <2> QED
    BY <1>1, <2>1, <2>2 DEF Joined, PadFreed
<1>5. mpc \in AfterInit
  BY CallMeansInit
<1>6. life[p[1]] = Expected(p[1]) /\ life[Where(p)] = Expected(Where(p)) /\ k \in Nat /\ Last \in Nat
  BY <1>1, LastType DEF Structure, Lives, TypeOK
<1>7. mpc \notin {"close", "done"} /\ (mpc \in Destroying => ~Earlier(p[1]))
  BY <1>3, <1>4, <1>6 DEF Expected
<1> QED
  BY <1>1, <1>2, <1>3, <1>6, <1>7 DEF Expected, Earlier

LEMMA NextNeverDangles ==
  ASSUME TypeOK, Structure, Queues, Calls, Joined, NeverDangles, Main \/ \E p \in Pads : WorkerStep(p)
  PROVE  NeverDangles'
<1>1. CASE Main
  <2>1. fault' \in {fault, "null_deref"} /\ chain' = chain
    BY <1>1, MainCases DEF Turns, Turn, ScanFile, BuildElement, InitElement, Die, PushFrame,
                           DestroyDerived, JoinSink, JoinSrc, CloseLibraries, registryVars
  <2> QED
    BY <2>1 DEF NeverDangles
<1>2. ASSUME NEW p \in Pads, WorkerStep(p) PROVE NeverDangles'
  <2>1. chain' = chain
    BY <1>2, WorkerKeeps DEF mainVars
  <2> SUFFICES ASSUME chain \notin Reversed, fault' # fault PROVE fault' # "use_after_free"
    BY <2>1 DEF NeverDangles
  <2>2. CASE EnterPad(p)
    <3>1. PadDies(p) /\ wk[p].pc = "call" /\ wk[p].at = <<Where(p), What(p)>> /\ Where(p) \in Positions
      BY <2>2, EnterPadCases DEF PadQueues, PadDrops, Enters
    <3>2. ~PadFreed(Where(p), What(p))
      BY <3>1, CallMeetsLife DEF PadFreed
    <3> QED
      BY <3>1, <3>2 DEF PadDies
  <2>3. CASE EnterElement(p)
    <3>1. ElementDies(p) /\ wk[p].pc = "call" /\ Where(p) \in Positions
      BY <2>3, EnterElementCases DEF ElementPasses, ElementTakes
    <3> QED
      BY <3>1, CallMeetsLife DEF ElementDies
  <2> QED
    BY <1>2, <2>2, <2>3 DEF WorkerStep, WorkerHead, WorkerPop, WorkerQuit
<1> QED
  BY <1>1, <1>2

-----------------------------------------------------------------------------
(* The order of the frames *)

LEMMA AppendOccurs ==
  ASSUME NEW s \in Seq(Frames), NEW f \in Frames
  PROVE  /\ \A g : Occurs(Append(s, f), g) <=> Occurs(s, g) \/ g = f
         /\ Increasing(s) /\ (\A g \in Frames : Occurs(s, g) => g < f) => Increasing(Append(s, f))
<1>1. /\ Len(s) \in Nat /\ Len(Append(s, f)) = Len(s) + 1
      /\ \A n \in 1..Len(s) : Append(s, f)[n] = s[n] /\ s[n] \in Frames
      /\ Append(s, f)[Len(s) + 1] = f
  BY AppendProperties
<1>2. \A n \in 1..Len(s) + 1 : n \in 1..Len(s) \/ n = Len(s) + 1
  BY <1>1
<1>3. \A g : Occurs(Append(s, f), g) <=> Occurs(s, g) \/ g = f
  BY <1>1, <1>2 DEF Occurs
<1>4. ASSUME Increasing(s), \A g \in Frames : Occurs(s, g) => g < f PROVE Increasing(Append(s, f))
  <2>1. \A n \in 1..Len(s) : s[n] < f
    BY <1>1, <1>4 DEF Occurs
  <2> QED
    BY <1>1, <1>2, <1>4, <2>1 DEF Increasing
<1> QED
  BY <1>3, <1>4

LEMMA TailOccurs ==
  ASSUME NEW s \in Seq(Frames), s # <<>>
  PROVE  /\ \A g : Occurs(s, g) <=> g = Head(s) \/ Occurs(Tail(s), g)
         /\ Increasing(s) => Increasing(Tail(s)) /\ \A g : Occurs(Tail(s), g) => Head(s) < g
<1>1. /\ Len(s) \in Nat \ {0} /\ Len(Tail(s)) = Len(s) - 1 /\ Head(s) = s[1]
      /\ \A n \in 1..Len(Tail(s)) : Tail(s)[n] = s[n + 1]
  BY HeadTailProperties
<1>2. \A n \in 1..Len(s) : n = 1 \/ (n - 1 \in 1..Len(Tail(s)) /\ Tail(s)[n - 1] = s[n])
  BY <1>1
<1>3. \A n \in 1..Len(Tail(s)) : n + 1 \in 1..Len(s) /\ 1 < n + 1
  BY <1>1
<1>4. \A g : Occurs(s, g) <=> g = Head(s) \/ Occurs(Tail(s), g)
  <2>1. ASSUME NEW g, Occurs(s, g) PROVE g = Head(s) \/ Occurs(Tail(s), g)
    <3>1. PICK n \in 1..Len(s) : s[n] = g
      BY <2>1 DEF Occurs
    <3> QED
      BY <1>1, <1>2, <3>1 DEF Occurs
  <2>2. ASSUME NEW g, g = Head(s) \/ Occurs(Tail(s), g) PROVE Occurs(s, g)
    <3>1. 1 \in 1..Len(s)
      BY <1>1
    <3>2. CASE g = Head(s)
      BY <1>1, <3>1, <3>2 DEF Occurs
    <3>3. CASE Occurs(Tail(s), g)
      BY <1>1, <1>3, <3>3 DEF Occurs
    <3> QED
      BY <2>2, <3>2, <3>3
  <2> QED
    BY <2>1, <2>2
<1>5. Increasing(s) => Increasing(Tail(s)) /\ \A g : Occurs(Tail(s), g) => Head(s) < g
  BY <1>1, <1>3 DEF Increasing, Occurs
<1> QED
  BY <1>4, <1>5

\* A frame is held by one pad only, in its queue or by its worker.
LEMMA HeldOnce ==
  ASSUME Ordered, NEW p \in Pads, NEW f \in Frames
  PROVE  /\ \A r \in Pads : Holds(p, f) /\ Holds(r, f) => p = r
         /\ ~(Hand(p, f) /\ InQueue(p, f))
<1>1. ASSUME NEW r \in Pads, Holds(p, f), Holds(r, f) PROVE p = r
  <2>1. ~(Stage(p) < Stage(r)) /\ ~(Stage(r) < Stage(p))
    BY <1>1 DEF Ordered, Frames
  <2>2. Stage(p) \in Nat /\ Stage(r) \in Nat
    BY Stages
  <2> QED
    BY <2>1, <2>2, Stages
<1>2. ~(Hand(p, f) /\ InQueue(p, f))
  BY DEF Ordered, Frames
<1> QED
  BY <1>1, <1>2

\* A worker holds a frame only if its pad is a queue.
LEMMA HoldsIsQueue ==
  ASSUME TypeOK, Queues, NEW p \in Pads, NEW f, Holds(p, f)
  PROVE  IsQueue(p) /\ mpc \notin {"scan", "build", "init"}
<1>1. q[p] # <<>> \/ wk[p].pc = "call"
  BY DEF Holds, Hand, InQueue, Occurs
<1> QED
  BY <1>1, WorkerIsQueue DEF Queues

\* What a pad holds after a step, when its worker or its queue is left alone.
LEMMA HandKept ==
  ASSUME NEW p \in Pads, wk'[p] = wk[p] \/ (wk[p].pc # "call" /\ wk'[p].pc # "call")
  PROVE  \A f : Hand(p, f)' <=> Hand(p, f)
BY DEF Hand

LEMMA InQueueKept ==
  ASSUME NEW p \in Pads, q'[p] = q[p]
  PROVE  \A f : InQueue(p, f)' <=> InQueue(p, f)
BY DEF InQueue

\* A step that moves no frame upstream of another keeps the order.
LEMMA OrderedKept ==
  ASSUME Ordered,
         \A p \in Pads : Increasing(q'[p]),
         \A p \in Pads, f \in Frames : Holds(p, f)' => Holds(p, f),
         \A p \in Pads, f, g \in Frames : Hand(p, f)' /\ InQueue(p, g)' => f < g
  PROVE  Ordered'
BY DEF Ordered, Stage

\* What the steps of a worker do to the frames, seen from the pads.
PopsFrame(p) ==
  /\ \A f : InQueue(p, f) <=> f = Head(q[p]) \/ InQueue(p, f)'
  /\ \A f : ~Hand(p, f)
  /\ \/ \A f : Hand(p, f)' <=> f = Head(q[p])
     \/ \A f : ~Hand(p, f)'
  /\ \A r \in Pads : r # p => wk'[r] = wk[r] /\ q'[r] = q[r]

LEMMA PopFrames ==
  ASSUME TypeOK, Structure, Queues, Calls, Ordered, NEW p \in Pads, WorkerPop(p)
  PROVE  /\ PopsFrame(p) /\ Head(q[p]) \in Frames
         /\ Increasing(q'[p]) /\ \A g : InQueue(p, g)' => Head(q[p]) < g
         /\ PopDrops(p) => \A f : ~Hand(p, f)'
         /\ ~PopDrops(p) => \A f : Hand(p, f)' <=> f = Head(q[p])
<1>1. wk \in [Pads -> Workers] /\ q \in [Pads -> Seq(Frames)]
  BY DEF TypeOK
<1>2. /\ wk[p].pc = "wait" /\ q[p] \in Seq(Frames) /\ q[p] # <<>>
      /\ q' = [q EXCEPT ![p] = Tail(q[p])] /\ Head(q[p]) \in Frames
      /\ PopDrops(p) \/ \E next \in Places : PopCalls(p, next)
  BY WorkerPopCases
<1>3. q'[p] = Tail(q[p]) /\ \A r \in Pads : r # p => wk'[r] = wk[r] /\ q'[r] = q[r]
  BY <1>1, <1>2, WorkerAlone DEF WorkerStep
<1>4. \A f : InQueue(p, f) <=> f = Head(q[p]) \/ InQueue(p, f)'
  BY <1>2, <1>3, TailOccurs DEF InQueue
<1>5. Increasing(q'[p]) /\ \A g : InQueue(p, g)' => Head(q[p]) < g
  BY <1>2, <1>3, TailOccurs DEF InQueue, Ordered
<1>6. PopDrops(p) => \A f : ~Hand(p, f)'
  BY <1>1, WorkerTypes DEF PopDrops, Hand
<1>7. ~PopDrops(p) => \A f : Hand(p, f)' <=> f = Head(q[p])
  <2> SUFFICES ASSUME NEW next \in Places, PopCalls(p, next) PROVE \A f : Hand(p, f)' <=> f = Head(q[p])
    BY <1>2
  <2>1. wk'[p] = Calling(Head(q[p]), next)
    BY <1>1 DEF PopCalls
  <2> QED
    BY <1>2, <2>1, WorkerTypes DEF Hand
<1>8. \A f : ~Hand(p, f)
  BY <1>2 DEF Hand
<1> QED
  BY <1>2, <1>3, <1>4, <1>5, <1>6, <1>7, <1>8 DEF PopsFrame

\* A frame enters a queue.
LEMMA EnterFrames ==
  ASSUME TypeOK, Structure, Queues, Calls, Ordered, NEW p \in Pads, EnterPad(p), PadQueues(p),
         NEW r, r = <<Where(p), What(p)>>
  PROVE  /\ r \in Pads /\ r # p /\ wk[p].frame \in Frames /\ Stage(p) < Stage(r)
         /\ \A s \in Pads : Stage(p) < Stage(s) /\ Stage(s) < Stage(r) => ~IsQueue(s)
         /\ \A f : InQueue(r, f)' <=> InQueue(r, f) \/ f = wk[p].frame
         /\ \A f : Hand(r, f)' <=> Hand(r, f)
         /\ \A f : (Hand(p, f) <=> f = wk[p].frame) /\ ~Hand(p, f)' /\ (InQueue(p, f)' <=> InQueue(p, f))
         /\ \A s \in Pads : s # p /\ s # r => wk'[s] = wk[s] /\ q'[s] = q[s]
         /\ Increasing(q'[r]) /\ q'[p] = q[p]
<1>1. wk \in [Pads -> Workers] /\ q \in [Pads -> Seq(Frames)]
  BY DEF TypeOK
<1>2. /\ CallOK(p) /\ wk[p].at = r /\ wk[p].pc = "call" /\ wk[p].frame \in Frames /\ r \in Pads
  BY EnterPadCases, QueueEntered
<1>3. /\ Stage(p) < Stage(r)
      /\ \A s \in Pads : Stage(p) < Stage(s) /\ Stage(s) < Stage(r) => ~IsQueue(s)
  BY <1>2 DEF CallOK
<1>4. r # p
  BY <1>3, Stages
<1>5. q'[r] = Append(q[r], wk[p].frame) /\ \A s \in Pads : s # r => q'[s] = q[s]
  BY <1>1, <1>2 DEF PadQueues
<1>6. wk'[p] = AtHead /\ \A s \in Pads : s # p => wk'[s] = wk[s]
  BY <1>1 DEF PadQueues
<1>7. \A f : InQueue(r, f)' <=> InQueue(r, f) \/ f = wk[p].frame
  BY <1>1, <1>2, <1>5, AppendOccurs DEF InQueue
<1>8. \A f : (Hand(p, f) <=> f = wk[p].frame) /\ ~Hand(p, f)'
  BY <1>2, <1>6, WorkerTypes DEF Hand
<1>9. \A f : (Hand(r, f)' <=> Hand(r, f)) /\ (InQueue(p, f)' <=> InQueue(p, f))
  BY <1>2, <1>4, <1>5, <1>6 DEF Hand, InQueue
<1>10. Increasing(q'[r])
  <2>1. \A g \in Frames : InQueue(r, g) => g < wk[p].frame
    BY <1>2, <1>3, <1>8 DEF Ordered, Holds
  <2>2. Increasing(q[r]) /\ q[r] \in Seq(Frames)
    BY <1>1, <1>2 DEF Ordered
  <2>3. \A g \in Frames : Occurs(q[r], g) => g < wk[p].frame
    BY <2>1 DEF InQueue
  <2> QED
    BY <1>2, <1>5, <2>2, <2>3, AppendOccurs
<1> QED
  BY <1>2, <1>3, <1>4, <1>5, <1>6, <1>7, <1>8, <1>9, <1>10

LEMMA WorkerOrdered ==
  ASSUME TypeOK, Structure, Queues, Calls, Ordered, NEW p \in Pads, WorkerStep(p)
  PROVE  Ordered'
<1>1. wk \in [Pads -> Workers] /\ q \in [Pads -> Seq(Frames)]
  BY DEF TypeOK
<1>2. \A r \in Pads : r # p => wk'[r] = wk[r]
  BY WorkerAlone
\* A step that leaves the queues alone and puts no frame in a hand.
<1>3. ASSUME q' = q, \A f \in Frames : Hand(p, f)' => Hand(p, f) PROVE Ordered'
  <2>1. \A r \in Pads, f \in Frames : Hand(r, f)' => Hand(r, f)
    BY <1>2, <1>3, HandKept
  <2>2. \A r \in Pads : \A f : InQueue(r, f)' <=> InQueue(r, f)
    BY <1>3 DEF InQueue
  <2>3. \A r \in Pads : Increasing(q'[r])
    BY <1>3 DEF Ordered
  <2>4. \A r \in Pads, f, g \in Frames : Hand(r, f)' /\ InQueue(r, g)' => f < g
    BY <2>1, <2>2 DEF Ordered
  <2>5. \A r \in Pads, f \in Frames : Holds(r, f)' => Holds(r, f)
    BY <2>1, <2>2 DEF Holds
  <2> QED
    BY <2>3, <2>4, <2>5, OrderedKept
<1>4. CASE WorkerHead(p) \/ WorkerQuit(p)
  <2>1. q' = q /\ wk'[p].pc # "call"
    BY <1>1, <1>4, WorkerTypes DEF WorkerHead, WorkerQuit
  <2> QED
    BY <1>3, <2>1 DEF Hand
<1>5. CASE WorkerPop(p)
  <2>1. /\ PopsFrame(p) /\ Head(q[p]) \in Frames /\ Increasing(q'[p])
        /\ \A g : InQueue(p, g)' => Head(q[p]) < g
    BY <1>5, PopFrames
  <2>2. \A r \in Pads : r # p => \A f : (Hand(r, f)' <=> Hand(r, f)) /\ (InQueue(r, f)' <=> InQueue(r, f))
    BY <2>1, HandKept, InQueueKept DEF PopsFrame
  <2>3. \A r \in Pads : Increasing(q'[r])
    BY <2>1 DEF PopsFrame, Ordered
  <2>4. \A r \in Pads, f, g \in Frames : Hand(r, f)' /\ InQueue(r, g)' => f < g
    BY <2>1, <2>2 DEF PopsFrame, Ordered
  <2>5. \A r \in Pads, f \in Frames : Holds(r, f)' => Holds(r, f)
    BY <2>1, <2>2 DEF PopsFrame, Holds
  <2> QED
    BY <2>3, <2>4, <2>5, OrderedKept
<1>6. CASE EnterPad(p)
  <2>1. /\ wk[p].pc = "call"
        /\ PadDies(p) \/ PadQueues(p) \/ PadDrops(p) \/ \E next \in Places : Enters(p, next)
    BY <1>6, EnterPadCases
  <2>2. CASE PadDies(p) \/ PadDrops(p)
    <3>1. q' = q /\ (wk' = wk \/ wk'[p].pc # "call")
      BY <1>1, <2>2, WorkerTypes DEF PadDies, PadDrops
    <3> QED
      BY <1>3, <3>1 DEF Hand
  <2>3. ASSUME NEW next \in Places, Enters(p, next) PROVE Ordered'
    <3>1. q' = q /\ wk'[p] = Calling(wk[p].frame, next)
      BY <1>1, <2>3 DEF Enters
    <3>2. wk[p].frame \in Frames
      BY <1>6, EnterPadCases
    <3>3. \A f \in Frames : Hand(p, f)' => Hand(p, f)
      BY <2>1, <3>1, <3>2, WorkerTypes DEF Hand
    <3> QED
      BY <1>3, <3>1, <3>3
  <2>4. CASE PadQueues(p)
    <3>0. PICK r \in Pads, f \in Frames : r = <<Where(p), What(p)>> /\ f = wk[p].frame
      BY <1>6, <2>4, EnterPadCases, QueueEntered
    <3>1. /\ r \in Pads /\ r # p /\ f \in Frames /\ Stage(p) < Stage(r)
          /\ \A s \in Pads : Stage(p) < Stage(s) /\ Stage(s) < Stage(r) => ~IsQueue(s)
          /\ \A g : InQueue(r, g)' <=> InQueue(r, g) \/ g = f
          /\ \A g : Hand(r, g)' <=> Hand(r, g)
          /\ \A g : (Hand(p, g) <=> g = f) /\ ~Hand(p, g)' /\ (InQueue(p, g)' <=> InQueue(p, g))
          /\ \A s \in Pads : s # p /\ s # r => wk'[s] = wk[s] /\ q'[s] = q[s]
          /\ Increasing(q'[r]) /\ q'[p] = q[p]
      BY <1>6, <2>4, <3>0, EnterFrames
    <3>2. \A s \in Pads : s # p /\ s # r => \A g : (Hand(s, g)' <=> Hand(s, g)) /\ (InQueue(s, g)' <=> InQueue(s, g))
      BY <3>1, HandKept, InQueueKept
    <3>3. \A s \in Pads, g \in Frames : Holds(s, g)' => Holds(s, g) \/ (s = r /\ g = f)
      <4>1. \A g \in Frames : Holds(p, g)' => Holds(p, g)
        BY <3>1 DEF Holds
      <4>2. \A g \in Frames : Holds(r, g)' => Holds(r, g) \/ g = f
        BY <3>1 DEF Holds
      <4>3. \A s \in Pads, g \in Frames : s # p /\ s # r /\ Holds(s, g)' => Holds(s, g)
        BY <3>2 DEF Holds
      <4> QED
        BY <4>1, <4>2, <4>3
    <3>4. Holds(p, f) /\ \A g \in Frames : Holds(p, g)' => f < g
      BY <3>1 DEF Holds, Ordered
    <3>5. \A s \in Pads : Increasing(q'[s])
      BY <3>1 DEF Ordered
    <3>6. \A s \in Pads, g, h \in Frames : Hand(s, g)' /\ InQueue(s, h)' => g < h
      <4>1. \A g \in Frames : Hand(r, g) => g < f
        BY <3>1, <3>4 DEF Ordered, Holds
      <4>2. \A g, h \in Frames : Hand(r, g)' /\ InQueue(r, h)' => g < h
        BY <3>1, <4>1 DEF Ordered
      <4>3. \A s \in Pads, g, h \in Frames : s # p /\ s # r /\ Hand(s, g)' /\ InQueue(s, h)' => g < h
        BY <3>2 DEF Ordered
      <4> QED
        BY <3>1, <4>2, <4>3
    \* The frame is above all downstream of r and below all upstream of it.
    <3>7. \A s \in Pads, g \in Frames : Holds(s, g)' /\ Stage(r) < Stage(s) => g < f
      BY <3>1, <3>3, <3>4, Stages DEF Ordered
    <3>8. \A s \in Pads, g \in Frames : Holds(s, g)' /\ Stage(s) < Stage(r) => f < g
      <4>1. SUFFICES ASSUME NEW s \in Pads, NEW g \in Frames, Holds(s, g)', Stage(s) < Stage(r) PROVE f < g
        OBVIOUS
      <4>2. Holds(s, g) /\ s # r /\ Stage(s) \in Nat /\ Stage(p) \in Nat
        BY <3>3, <4>1, Stages
      <4>3. IsQueue(s)
        BY <4>2, HoldsIsQueue
      <4>4. Stage(s) < Stage(p) \/ s = p
        BY <3>1, <4>1, <4>2, <4>3, Stages
      <4> QED
        BY <3>1, <3>4, <4>1, <4>2, <4>4 DEF Ordered
    <3>9. \A s, t \in Pads, g, h \in Frames : Stage(s) < Stage(t) /\ Holds(s, g)' /\ Holds(t, h)' => h < g
      <4>1. SUFFICES ASSUME NEW s \in Pads, NEW t \in Pads, NEW g \in Frames, NEW h \in Frames,
                            Stage(s) < Stage(t), Holds(s, g)', Holds(t, h)'
                     PROVE  h < g
        OBVIOUS
      <4>2. CASE s = r /\ g = f
        BY <3>7, <4>1, <4>2
      <4>3. CASE t = r /\ h = f
        BY <3>8, <4>1, <4>3
      <4>4. CASE Holds(s, g) /\ Holds(t, h)
        BY <4>1, <4>4 DEF Ordered
      <4> QED
        BY <3>3, <4>1, <4>2, <4>3, <4>4
    <3> QED
      BY <3>5, <3>6, <3>9 DEF Ordered, Stage
  <2> QED
    BY <2>1, <2>2, <2>3, <2>4
<1>7. CASE EnterElement(p)
  <2>1. /\ wk[p].pc = "call" /\ wk[p].frame \in Frames /\ q' = q /\ Where(p) \in Positions
        /\ ElementDies(p) \/ ElementPasses(p) \/ ElementTakes(p)
    BY <1>7, EnterElementCases
  <2>2. CASE ElementDies(p) \/ ElementTakes(p)
    <3>1. wk' = wk \/ wk'[p].pc # "call"
      BY <1>1, <2>2, WorkerTypes DEF ElementDies, ElementTakes
    <3> QED
      BY <1>3, <2>1, <3>1 DEF Hand
  <2>3. CASE ElementPasses(p)
    <3>1. wk'[p] = Calling(wk[p].frame, <<Where(p), "src">>) /\ <<Where(p), "src">> \in Places
      BY <1>1, <2>1, <2>3 DEF ElementPasses, Places
    <3>2. \A f \in Frames : Hand(p, f)' => Hand(p, f)
      BY <2>1, <3>1, WorkerTypes DEF Hand
    <3> QED
      BY <1>3, <2>1, <3>2
  <2> QED
    BY <2>1, <2>2, <2>3
<1> QED
  BY <1>4, <1>5, <1>6, <1>7 DEF WorkerStep

-----------------------------------------------------------------------------
(* No frame is lost on the way *)

\* A src pad that leads nowhere is the one of the last element, which is then
\* no sink.
LEMMA EndOfChain ==
  ASSUME TypeOK, Structure, mpc \in AfterInit, NEW i \in 1..Last
  PROVE  /\ i \notin linked => i = Last
         /\ elems[i] \in {"Sink", "QueueSink"} => i = Last
         /\ Kind(i, "src") # "none" => elems[i] \notin {"Sink", "QueueSink"}
<1>1. Last \in Nat /\ i \in Nat
  BY LastType
<1>2. i # Last => Initialised(i + 1)
  BY <1>1 DEF Initialised, AfterInit, Destroying
<1>3. Kind(i, "src") # "none" => elems[i] \notin {"Sink", "QueueSink"}
  BY Table DEF Kind
<1> QED
  BY <1>2, <1>3 DEF Structure, Phases

\* The frames go from pad to pad.
LEMMA ConservedKept ==
  ASSUME Conserved, UNCHANGED <<elems, got, mpc, k>>,
         \A s \in Pads, f \in Frames : Holds(s, f)' => \E t \in Pads : Holds(t, f),
         Gives => \A t \in Pads, f \in Frames : Holds(t, f) => \E s \in Pads : Holds(s, f)'
  PROVE  Conserved'
<1>1. Pushed' = Pushed /\ (Takes' <=> Takes) /\ (Gives' <=> Gives)
  BY DEF Pushed, Takes, Gives, Last
<1> QED
  BY <1>1 DEF Conserved

\* The frame that arrives is the next one.
LEMMA ArrivesNext ==
  ASSUME TypeOK, Structure, Queues, Calls, Ordered, Conserved, NEW p \in Pads, EnterElement(p), ElementTakes(p)
  PROVE  /\ Gives /\ Takes /\ Where(p) = Last
         /\ wk[p].frame = Len(got) + 1 /\ wk[p].frame <= Pushed
<1>1. /\ CallOK(p) /\ What(p) = "elem" /\ wk[p].at = <<Where(p), What(p)>> /\ wk[p].pc = "call"
      /\ wk[p].frame \in Frames /\ Where(p) \in Positions /\ elems[Where(p)] \in {"Sink", "QueueSink"}
  BY EnterElementCases DEF ElementTakes
<1>2. mpc \in AfterInit /\ Where(p) \in 1..Last /\ Last \in Nat
  BY <1>1, CallMeansInit, LastType DEF CallOK, Where, Positions
<1>3. Where(p) = Last /\ elems # <<>>
  BY <1>1, <1>2, EndOfChain DEF Last
<1>4. Hand(p, wk[p].frame) /\ Holds(p, wk[p].frame)
  BY <1>1 DEF Hand, Holds
<1>5. Gives /\ Takes /\ Len(got) < wk[p].frame /\ wk[p].frame <= Pushed
  BY <1>1, <1>3, <1>4 DEF Gives, Conserved
<1>6. wk[p].frame <= Len(got) + 1
  <2> SUFFICES ASSUME Len(got) + 1 < wk[p].frame PROVE FALSE
    BY <1>1, <1>5 DEF TypeOK, Frames
  <2> DEFINE g == Len(got) + 1
  <2>1. Len(got) \in Nat /\ wk[p].frame \in Nat /\ Pushed \in Int /\ NFrames \in Nat
    BY <1>1, NFramesAssumption, SMTT(40) DEF TypeOK, Frames, Pushed
  <2>2. g \in Frames /\ Len(got) < g /\ g <= Pushed /\ g # wk[p].frame
    BY <1>1, <1>5, <2>1 DEF Frames
  <2>3. PICK s \in Pads : Holds(s, g)
    BY <1>5, <2>2 DEF Conserved
  <2>4. ~(Stage(s) < Stage(p))
    BY <1>1, <1>4, <2>1, <2>2, <2>3 DEF Ordered
  <2>5. s # p
    BY <1>1, <1>4, <2>1, <2>2, <2>3 DEF Ordered, Holds, Hand
  <2>6. IsQueue(s)
    BY <2>3, HoldsIsQueue
  <2>7. Stage(wk[p].at) = 3 * Where(p) + 1 /\ Stage(s) # 3 * Where(p) + 1
    BY <1>1, Stages
  <2>8. Stage(s) \in Nat /\ Stage(p) \in Nat /\ (Stage(s) = Stage(p) => s = p)
    BY Stages
  <2>9. ~(Stage(s) < Stage(wk[p].at))
    BY <1>1, <2>4, <2>5, <2>6, <2>8 DEF CallOK
  <2>10. s[1] \in 1..Last /\ Kind(s[1], s[2]) = "queue"
    BY <2>6 DEF IsQueue
  <2>11. Stage(s) = IF s[2] = "sink" THEN 3 * s[1] ELSE 3 * s[1] + 2
    BY Stages
  <2>12. s[1] = Last /\ s[2] = "src"
    BY <1>2, <1>3, <2>7, <2>8, <2>9, <2>10, <2>11, PadType
  <2> QED
    BY <1>1, <1>3, <2>10, <2>12, Table DEF Kind
<1> QED
  BY <1>1, <1>3, <1>5, <1>6 DEF TypeOK, Frames

LEMMA WorkerConserved ==
  ASSUME TypeOK, Structure, Queues, Calls, Ordered, Conserved, NEW p \in Pads, WorkerStep(p)
  PROVE  Conserved'
<1>1. wk \in [Pads -> Workers] /\ q \in [Pads -> Seq(Frames)] /\ got \in Seq(Frames)
  BY DEF TypeOK
<1>2. (\A r \in Pads : r # p => wk'[r] = wk[r]) /\ UNCHANGED <<elems, mpc, k>>
  BY WorkerAlone, WorkerKeeps DEF mainVars
\* A step that leaves the queues alone.
<1>3. ASSUME q' = q
      PROVE  /\ \A r \in Pads : \A f : r # p => (Holds(r, f)' <=> Holds(r, f))
             /\ \A f : InQueue(p, f)' <=> InQueue(p, f)
  BY <1>2, <1>3, HandKept, InQueueKept DEF Holds
<1>4. ASSUME q' = q, got' = got, \A f \in Frames : Hand(p, f)' <=> Hand(p, f) PROVE Conserved'
  <2>1. \A r \in Pads, f \in Frames : Holds(r, f)' <=> Holds(r, f)
    BY <1>3, <1>4 DEF Holds
  <2> QED
    BY <1>2, <1>4, <2>1, ConservedKept
<1>5. ASSUME q' = q, got' = got, \A f \in Frames : Hand(p, f)' => Hand(p, f), ~Gives PROVE Conserved'
  <2>1. \A r \in Pads, f \in Frames : Holds(r, f)' => Holds(r, f)
    BY <1>3, <1>5 DEF Holds
  <2> QED
    BY <1>2, <1>5, <2>1, ConservedKept
<1>6. CASE WorkerHead(p) \/ WorkerQuit(p)
  <2>1. q' = q /\ got' = got /\ wk'[p].pc # "call" /\ wk[p].pc # "call"
    BY <1>1, <1>6, WorkerTypes DEF WorkerHead, WorkerQuit
  <2> QED
    BY <1>4, <2>1 DEF Hand
<1>7. CASE WorkerPop(p)
  <2>1. /\ PopsFrame(p) /\ Head(q[p]) \in Frames /\ got' = got
        /\ PopDrops(p) => \A f : ~Hand(p, f)'
        /\ ~PopDrops(p) => \A f : Hand(p, f)' <=> f = Head(q[p])
    BY <1>7, PopFrames, WorkerPopCases
  <2>2. \A r \in Pads, f \in Frames : r # p => (Holds(r, f)' <=> Holds(r, f))
    BY <2>1, HandKept, InQueueKept DEF PopsFrame, Holds
  <2>3. \A f \in Frames : Holds(p, f)' => Holds(p, f)
    BY <2>1 DEF PopsFrame, Holds
  <2>4. ~PopDrops(p) => \A f \in Frames : Holds(p, f) => Holds(p, f)'
    BY <2>1 DEF PopsFrame, Holds
  <2>5. PopDrops(p) => ~Gives
    <3>1. IsQueue(p) /\ mpc \in AfterInit
      BY <1>7, WorkerPopCases, WorkerIsQueue, CallMeansInit
    <3>2. PopDrops(p) => p[1] = Last /\ elems[Last] \notin {"Sink", "QueueSink"}
      BY <3>1, EndOfChain DEF IsQueue, PopDrops
    <3> QED
      BY <3>2 DEF Gives
  <2> QED
    BY <1>2, <2>1, <2>2, <2>3, <2>4, <2>5, ConservedKept
<1>8. CASE EnterPad(p)
  <2>1. /\ CallOK(p) /\ Where(p) \in Positions /\ What(p) \in {"sink", "src"} /\ wk[p].pc = "call"
        /\ wk[p].frame \in Frames /\ got' = got
        /\ PadDies(p) \/ PadQueues(p) \/ PadDrops(p) \/ \E next \in Places : Enters(p, next)
    BY <1>8, EnterPadCases
  <2>2. CASE PadDies(p)
    BY <1>4, <2>1, <2>2 DEF PadDies, Hand
  <2>3. ASSUME NEW next \in Places, Enters(p, next) PROVE Conserved'
    <3>1. q' = q /\ wk'[p] = Calling(wk[p].frame, next)
      BY <1>1, <2>3 DEF Enters
    <3>2. \A f \in Frames : Hand(p, f)' <=> Hand(p, f)
      BY <2>1, <3>1, WorkerTypes DEF Hand
    <3> QED
      BY <1>4, <2>1, <3>1, <3>2
  <2>4. CASE PadDrops(p)
    <3>1. q' = q /\ wk'[p].pc # "call"
      BY <1>1, <2>4, WorkerTypes DEF PadDrops
    <3>2. Where(p) \in 1..Last /\ mpc \in AfterInit
      BY <2>1, CallMeansInit, LastType DEF CallOK, Where, Positions
    <3>3. Where(p) = Last /\ elems[Last] \notin {"Sink", "QueueSink"}
      BY <2>4, <3>2, EndOfChain DEF PadDrops
    <3> QED
      BY <1>5, <2>1, <3>1, <3>3 DEF Gives, Hand
  <2>5. CASE PadQueues(p)
    <3>0. PICK r \in Pads, f \in Frames : r = <<Where(p), What(p)>> /\ f = wk[p].frame
      BY <1>8, <2>5, EnterPadCases, QueueEntered
    <3>1. /\ r # p
          /\ \A g : InQueue(r, g)' <=> InQueue(r, g) \/ g = f
          /\ \A g : Hand(r, g)' <=> Hand(r, g)
          /\ \A g : (Hand(p, g) <=> g = f) /\ ~Hand(p, g)' /\ (InQueue(p, g)' <=> InQueue(p, g))
          /\ \A s \in Pads : s # p /\ s # r => wk'[s] = wk[s] /\ q'[s] = q[s]
      BY <1>8, <2>5, <3>0, EnterFrames
    <3>2. \A s \in Pads : s # p /\ s # r => \A g : Holds(s, g)' <=> Holds(s, g)
      BY <3>1, HandKept, InQueueKept DEF Holds
    <3>3. \A g : (Holds(r, g)' <=> Holds(r, g) \/ g = f) /\ (Holds(p, g) <=> Holds(p, g)' \/ g = f)
      BY <3>1 DEF Holds
    <3>4. \A s \in Pads, g \in Frames : Holds(s, g)' => Holds(s, g) \/ Holds(p, g)
      BY <3>2, <3>3
    <3>5. \A s \in Pads, g \in Frames : Holds(s, g) => Holds(s, g)' \/ Holds(r, g)'
      BY <3>2, <3>3
    <3> QED
      BY <1>2, <2>1, <3>4, <3>5, ConservedKept
  <2> QED
    BY <2>1, <2>2, <2>3, <2>4, <2>5
<1>9. CASE EnterElement(p)
  <2>1. /\ Where(p) \in Positions /\ wk[p].pc = "call" /\ wk[p].frame \in Frames /\ q' = q
        /\ ElementDies(p) \/ ElementPasses(p) \/ ElementTakes(p)
    BY <1>9, EnterElementCases
  <2>2. CASE ElementDies(p)
    BY <1>4, <2>1, <2>2 DEF ElementDies, Hand
  <2>3. CASE ElementPasses(p)
    <3>1. got' = got /\ wk'[p] = Calling(wk[p].frame, <<Where(p), "src">>) /\ <<Where(p), "src">> \in Places
      BY <1>1, <2>1, <2>3 DEF ElementPasses, Places
    <3>2. \A f \in Frames : Hand(p, f)' <=> Hand(p, f)
      BY <2>1, <3>1, WorkerTypes DEF Hand
    <3> QED
      BY <1>4, <2>1, <3>1, <3>2
  <2>4. CASE ElementTakes(p)
    <3>1. PICK f \in Frames : f = wk[p].frame
      BY <2>1
    <3>2. Gives /\ Takes /\ f = Len(got) + 1 /\ f <= Pushed
      BY <1>9, <2>4, <3>1, ArrivesNext
    <3>3. got' = Append(got, f) /\ wk'[p].pc # "call"
      BY <1>1, <2>4, <3>1, WorkerTypes DEF ElementTakes
    <3>4. Len(got') = Len(got) + 1 /\ Len(got) \in Nat /\ got' # <<>>
          /\ (\A n \in 1..Len(got) : got'[n] = got[n]) /\ got'[Len(got) + 1] = f
      BY <1>1, <3>3, AppendProperties
    <3>5. \A n \in 1..Len(got') : got'[n] = n
      <4>1. \A n \in 1..Len(got) + 1 : n \in 1..Len(got) \/ n = Len(got) + 1
        BY <3>4
      <4> QED
        BY <3>2, <3>4, <4>1 DEF Conserved
    <3>6. \A g : (Hand(p, g) <=> g = f) /\ ~Hand(p, g)'
      BY <2>1, <3>1, <3>3 DEF Hand
    <3>7. \A s \in Pads, g \in Frames : Holds(s, g)' => Holds(s, g) /\ g # f
      <4>1. \A g \in Frames : Holds(p, g)' => Holds(p, g) /\ g # f
        BY <1>3, <2>1, <3>1, <3>6, HeldOnce DEF Holds
      <4>2. \A s \in Pads, g \in Frames : s # p /\ Holds(s, g)' => Holds(s, g) /\ g # f
        BY <1>3, <2>1, <3>1, <3>6, HeldOnce DEF Holds
      <4> QED
        BY <4>1, <4>2
    <3>8. \A s \in Pads, g \in Frames : Holds(s, g) /\ g # f => Holds(s, g)'
      BY <1>3, <2>1, <3>6 DEF Holds
    <3>9. Pushed' = Pushed /\ Takes' /\ Gives'
      BY <1>2, <3>2 DEF Pushed, Takes, Gives, Last
    <3>10. \A s \in Pads, g \in Frames : Holds(s, g)' => Len(got') < g /\ g <= Pushed
      BY <3>2, <3>4, <3>7 DEF Conserved, Frames
    <3>11. \A g \in Frames : Len(got') < g /\ g <= Pushed => \E s \in Pads : Holds(s, g)'
      <4>1. SUFFICES ASSUME NEW g \in Frames, Len(got') < g, g <= Pushed PROVE \E s \in Pads : Holds(s, g)'
        OBVIOUS
      <4>2. Len(got) < g /\ g # f
        BY <3>2, <3>4, <4>1 DEF Frames
      <4>3. PICK s \in Pads : Holds(s, g)
        BY <3>2, <4>1, <4>2 DEF Conserved
      <4> QED
        BY <3>8, <4>2, <4>3
    <3> QED
      BY <3>2, <3>4, <3>5, <3>9, <3>10, <3>11 DEF Conserved
  <2> QED
    BY <2>1, <2>2, <2>3, <2>4
<1> QED
  BY <1>6, <1>7, <1>8, <1>9 DEF WorkerStep

-----------------------------------------------------------------------------
(* How often a frame has been inverted *)

LEMMA FilterCount ==
  ASSUME NEW i \in Nat, i # 0
  PROVE  /\ Passes(i) \in Nat
         /\ elems[i] = "InvertFilter" => Passes(i) = Passes(i - 1) + 1
         /\ elems[i] # "InvertFilter" => Passes(i) = Passes(i - 1)
<1>1. IsFiniteSet(1..i) /\ IsFiniteSet(1..i - 1)
  BY FS_Interval
<1>2. IsFiniteSet(Filters(i)) /\ IsFiniteSet(Filters(i - 1))
  BY <1>1, FS_Subset DEF Filters
<1>3. CASE elems[i] = "InvertFilter"
  <2>1. Filters(i) = Filters(i - 1) \cup {i} /\ i \notin Filters(i - 1)
    BY <1>3 DEF Filters
  <2> QED
    BY <1>2, <1>3, <2>1, FS_AddElement, FS_CardinalityType DEF Passes
<1>4. CASE elems[i] # "InvertFilter"
  <2>1. Filters(i) = Filters(i - 1)
    BY <1>4 DEF Filters
  <2> QED
    BY <1>2, <1>4, <2>1, FS_CardinalityType DEF Passes
<1> QED
  BY <1>3, <1>4

\* A step that moves frames and inverts none: each frame in a queue or a hand
\* was held before, and at a place behind as many filters.
LEMMA InversionsKept ==
  ASSUME Inversions, UNCHANGED <<elems, inv, mpc, k>>,
         \A p \in Pads, f \in Frames : InQueue(p, f)' => inv[f] = Passes(Passed(p)),
         \A p \in Pads, f \in Frames : Hand(p, f)' => inv[f] = Passes(Passed(wk'[p].at)),
         \A n \in 1..Len(got') : inv[n] = Passes(Last)
  PROVE  Inversions'
<1>1. Pushed' = Pushed /\ Last' = Last
  BY DEF Pushed, Last
<1>2. \A p \in Pads, f \in Frames : InQueue(p, f)' => inv'[f] = Passes(Passed(p))'
  BY DEF Filters, Passes, Passed
<1>3. \A p \in Pads, f \in Frames : Hand(p, f)' => inv'[f] = Passes(Passed(wk[p].at))'
  BY DEF Filters, Passes, Passed
<1>4. \A n \in 1..Len(got') : inv'[n] = Passes(Last)'
  BY <1>1 DEF Filters, Passes
<1>5. \A f \in Frames : Pushed' < f => inv'[f] = 0
  BY <1>1 DEF Inversions
<1> QED
  BY <1>2, <1>3, <1>4, <1>5 DEF Inversions

LEMMA WorkerInversions ==
  ASSUME TypeOK, Structure, Queues, Calls, Ordered, Conserved, Inversions, NEW p \in Pads, WorkerStep(p)
  PROVE  Inversions'
<1>1. wk \in [Pads -> Workers] /\ q \in [Pads -> Seq(Frames)] /\ got \in Seq(Frames) /\ inv \in [Frames -> Nat]
  BY DEF TypeOK
<1>2. (\A r \in Pads : r # p => wk'[r] = wk[r]) /\ UNCHANGED <<elems, mpc, k>>
  BY WorkerAlone, WorkerKeeps DEF mainVars
\* The frames that other workers hold.
<1>3. \A r \in Pads, f \in Frames : r # p /\ Hand(r, f)' => inv[f] = Passes(Passed(wk'[r].at))
  <2> SUFFICES ASSUME NEW r \in Pads, NEW f \in Frames, r # p, Hand(r, f)'
               PROVE  inv[f] = Passes(Passed(wk'[r].at))
    OBVIOUS
  <2>1. wk'[r] = wk[r] /\ Hand(r, f)
    BY <1>2 DEF Hand
  <2> QED
    BY <2>1 DEF Inversions
<1>4. ASSUME q' = q, UNCHANGED <<got, inv>>,
             \A f \in Frames : Hand(p, f)' => inv[f] = Passes(Passed(wk'[p].at))
      PROVE  Inversions'
  <2>1. \A r \in Pads, f \in Frames : InQueue(r, f)' => inv[f] = Passes(Passed(r))
    BY <1>4 DEF InQueue, Inversions
  <2> QED
    BY <1>2, <1>3, <1>4, <2>1, InversionsKept DEF Inversions
<1>5. CASE WorkerHead(p) \/ WorkerQuit(p)
  <2>1. q' = q /\ UNCHANGED <<got, inv>> /\ wk'[p].pc # "call"
    BY <1>1, <1>5, WorkerTypes DEF WorkerHead, WorkerQuit
  <2> QED
    BY <1>4, <2>1 DEF Hand
<1>6. CASE WorkerPop(p)
  <2>1. /\ PopsFrame(p) /\ Head(q[p]) \in Frames /\ UNCHANGED <<got, inv>>
        /\ PopDrops(p) => \A f : ~Hand(p, f)'
        /\ ~PopDrops(p) => \A f : Hand(p, f)' <=> f = Head(q[p])
        /\ PopDrops(p) \/ \E next \in Places : PopCalls(p, next)
    BY <1>6, PopFrames, WorkerPopCases
  <2>2. \A r \in Pads, f \in Frames : InQueue(r, f)' => inv[f] = Passes(Passed(r))
    <3>1. \A r \in Pads, f \in Frames : InQueue(r, f)' => InQueue(r, f)
      BY <2>1, InQueueKept DEF PopsFrame
    <3> QED
      BY <3>1 DEF Inversions
  <2>3. \A f \in Frames : Hand(p, f)' => inv[f] = Passes(Passed(wk'[p].at))
    <3>1. CASE PopDrops(p)
      BY <2>1, <3>1
    <3>2. CASE ~PopDrops(p)
      <4>1. PICK next \in Places : PopCalls(p, next)
        BY <2>1, <3>2
      <4>2. wk'[p].at = next
        BY <1>1, <2>1, <4>1, WorkerTypes DEF PopCalls
      <4>3. Passed(next) = Passed(p)
        BY <4>1, PadType DEF PopCalls, Passed, Positions
      <4>4. inv[Head(q[p])] = Passes(Passed(p))
        BY <2>1 DEF PopsFrame, Inversions
      <4> QED
        BY <2>1, <3>2, <4>2, <4>3, <4>4
    <3> QED
      BY <3>1, <3>2
  <2>4. \A r \in Pads, f \in Frames : Hand(r, f)' => inv[f] = Passes(Passed(wk'[r].at))
    BY <1>3, <2>3
  <2> QED
    BY <1>2, <2>1, <2>2, <2>4, InversionsKept DEF Inversions
<1>7. CASE EnterPad(p)
  <2>1. /\ Where(p) \in Positions /\ What(p) \in {"sink", "src"} /\ wk[p].pc = "call"
        /\ wk[p].at = <<Where(p), What(p)>> /\ wk[p].frame \in Frames /\ UNCHANGED <<got, inv>>
        /\ PadDies(p) \/ PadQueues(p) \/ PadDrops(p) \/ \E next \in Places : Enters(p, next)
    BY <1>7, EnterPadCases
  <2>2. inv[wk[p].frame] = Passes(Passed(wk[p].at))
    BY <2>1 DEF Inversions, Hand
  <2>3. CASE PadDies(p)
    BY <1>4, <2>1, <2>3 DEF PadDies, Inversions, Hand
  <2>4. CASE PadDrops(p)
    <3>1. q' = q /\ wk'[p].pc # "call"
      BY <1>1, <2>4, WorkerTypes DEF PadDrops
    <3> QED
      BY <1>4, <2>1, <3>1 DEF Hand
  <2>5. ASSUME NEW next \in Places, Enters(p, next) PROVE Inversions'
    <3>1. q' = q /\ wk'[p] = Calling(wk[p].frame, next)
      BY <1>1, <2>5 DEF Enters
    <3>2. Passed(next) = Passed(wk[p].at)
      BY <2>1, <2>5 DEF Enters, Passed, Positions
    <3>3. \A f \in Frames : Hand(p, f)' => inv[f] = Passes(Passed(wk'[p].at))
      BY <2>1, <2>2, <3>1, <3>2, WorkerTypes DEF Hand
    <3> QED
      BY <1>4, <2>1, <3>1, <3>3
  <2>6. CASE PadQueues(p)
    <3>0. PICK r \in Pads, f \in Frames : r = <<Where(p), What(p)>> /\ f = wk[p].frame
      BY <1>7, <2>6, EnterPadCases, QueueEntered
    <3>1. /\ r # p
          /\ \A g : InQueue(r, g)' <=> InQueue(r, g) \/ g = f
          /\ \A g : ~Hand(p, g)' /\ (InQueue(p, g)' <=> InQueue(p, g))
          /\ \A s \in Pads : s # p /\ s # r => wk'[s] = wk[s] /\ q'[s] = q[s]
      BY <1>7, <2>6, <3>0, EnterFrames
    <3>2. inv[f] = Passes(Passed(r))
      BY <2>1, <2>2, <3>0
    <3>3. \A s \in Pads, g \in Frames : InQueue(s, g)' => InQueue(s, g) \/ (s = r /\ g = f)
      BY <3>1, InQueueKept
    <3>4. \A s \in Pads, g \in Frames : InQueue(s, g)' => inv[g] = Passes(Passed(s))
      BY <3>2, <3>3 DEF Inversions
    <3>5. \A s \in Pads, g \in Frames : Hand(s, g)' => inv[g] = Passes(Passed(wk'[s].at))
      BY <1>3, <3>1
    <3> QED
      BY <1>2, <2>1, <3>4, <3>5, InversionsKept DEF Inversions
  <2> QED
    BY <2>1, <2>3, <2>4, <2>5, <2>6
<1>8. CASE EnterElement(p)
  <2>1. /\ Where(p) \in Positions /\ What(p) = "elem" /\ wk[p].pc = "call" /\ q' = q
        /\ wk[p].at = <<Where(p), What(p)>> /\ wk[p].frame \in Frames
        /\ ElementDies(p) \/ ElementPasses(p) \/ ElementTakes(p)
    BY <1>8, EnterElementCases
  <2>2. inv[wk[p].frame] = Passes(Where(p) - 1)
    BY <2>1 DEF Inversions, Hand, Passed
  <2>3. Where(p) \in Nat /\ Where(p) # 0
    BY <2>1 DEF Positions
  <2>4. CASE ElementDies(p)
    BY <1>4, <2>1, <2>4 DEF ElementDies, Inversions, Hand
  <2>5. CASE ElementTakes(p)
    <3>1. Where(p) = Last /\ wk[p].frame = Len(got) + 1
      BY <1>8, <2>5, ArrivesNext
    <3>2. got' = Append(got, wk[p].frame) /\ wk'[p].pc # "call" /\ UNCHANGED inv
      BY <1>1, <2>5, WorkerTypes DEF ElementTakes
    <3>3. inv[wk[p].frame] = Passes(Last)
      BY <2>2, <2>3, <2>5, <3>1, FilterCount DEF ElementTakes
    <3>4. \A n \in 1..Len(got') : inv[n] = Passes(Last)
      <4>1. Len(got') = Len(got) + 1 /\ Len(got) \in Nat
        BY <1>1, <2>1, <3>2, AppendProperties
      <4>2. \A n \in 1..Len(got') : n \in 1..Len(got) \/ n = wk[p].frame
        BY <3>1, <4>1
      <4> QED
        BY <3>3, <4>2 DEF Inversions
    <3>5. \A r \in Pads, f \in Frames : InQueue(r, f)' => inv[f] = Passes(Passed(r))
      BY <2>1 DEF InQueue, Inversions
    <3>6. \A r \in Pads, f \in Frames : Hand(r, f)' => inv[f] = Passes(Passed(wk'[r].at))
      BY <1>3, <3>2 DEF Hand
    <3> QED
      BY <1>2, <3>2, <3>4, <3>5, <3>6, InversionsKept
  <2>6. CASE ElementPasses(p) /\ elems[Where(p)] # "InvertFilter"
    <3>1. wk'[p] = Calling(wk[p].frame, <<Where(p), "src">>) /\ <<Where(p), "src">> \in Places
          /\ UNCHANGED <<got, inv>>
      BY <1>1, <2>1, <2>6 DEF ElementPasses, Places
    <3>2. Passes(Passed(<<Where(p), "src">>)) = Passes(Where(p) - 1)
      BY <2>3, <2>6, FilterCount DEF Passed
    <3>3. \A f \in Frames : Hand(p, f)' => inv[f] = Passes(Passed(wk'[p].at))
      BY <2>1, <2>2, <3>1, <3>2, WorkerTypes DEF Hand
    <3> QED
      BY <1>4, <2>1, <3>1, <3>3
  <2>7. CASE ElementPasses(p) /\ elems[Where(p)] = "InvertFilter"
    <3>0. PICK f \in Frames : f = wk[p].frame
      BY <2>1
    <3>1. wk'[p] = Calling(f, <<Where(p), "src">>) /\ <<Where(p), "src">> \in Places
          /\ UNCHANGED got /\ inv' = [inv EXCEPT ![f] = @ + 1]
      BY <1>1, <2>1, <2>7, <3>0 DEF ElementPasses, Places
    <3>2. Passes(Passed(<<Where(p), "src">>)) = inv[f] + 1
      BY <2>2, <2>3, <2>7, <3>0, FilterCount DEF Passed
    <3>3. \A g \in Frames : g # f => inv'[g] = inv[g]
      BY <1>1, <3>1
    <3>4. Hand(p, f) /\ Holds(p, f) /\ inv'[f] = inv[f] + 1 /\ wk'[p].frame = f
      BY <1>1, <2>1, <3>0, <3>1, WorkerTypes DEF Hand, Holds
    <3>5. \A r \in Pads, g \in Frames : InQueue(r, g) \/ (r # p /\ Hand(r, g)) => g # f
      BY <3>4, HeldOnce DEF Holds
    <3>6. Pushed' = Pushed /\ Last' = Last /\ \A j : Passes(j)' = Passes(j)
      BY <1>2 DEF Pushed, Last, Passes, Filters
    <3>7. \A r \in Pads, g \in Frames : InQueue(r, g)' => inv'[g] = Passes(Passed(r))'
      <4>1. \A r \in Pads, g \in Frames : InQueue(r, g)' => InQueue(r, g)
        BY <2>1 DEF InQueue
      <4>2. \A r \in Pads, g \in Frames : InQueue(r, g)' => inv'[g] = Passes(Passed(r))
        BY <3>3, <3>5, <4>1 DEF Inversions
      <4> QED
        BY <1>2, <4>2 DEF Passes, Filters, Passed
    <3>8. \A r \in Pads, g \in Frames : Hand(r, g)' => inv'[g] = Passes(Passed(wk'[r].at))
      <4>1. \A r \in Pads, g \in Frames : r # p /\ Hand(r, g)' => g # f
        BY <1>2, <3>5 DEF Hand
      <4>2. \A g \in Frames : Hand(p, g)' => g = f
        BY <3>4 DEF Hand
      <4>3. wk'[p].at = <<Where(p), "src">>
        BY <3>1, WorkerTypes
      <4> QED
        BY <1>3, <3>2, <3>3, <3>4, <4>1, <4>2, <4>3
    <3>9. \A r \in Pads, g \in Frames : Hand(r, g)' => inv'[g] = Passes(Passed(wk[r].at))'
      <4>1. elems' = elems
        BY <1>2
      <4>2. SUFFICES ASSUME NEW r \in Pads, NEW g \in Frames, Hand(r, g)'
                     PROVE  inv'[g] = Passes(Passed(wk[r].at))'
        OBVIOUS
      <4>3. inv'[g] = Passes(Passed(wk'[r].at))
        BY <3>8, <4>2
      <4> QED
        BY <4>1, <4>3 DEF Passes, Filters, Passed
    <3>10. Len(got) < f /\ f <= Pushed
      BY <3>4 DEF Conserved
    <3>11. \A n \in 1..Len(got') : inv'[n] = Passes(Last)'
      <4>1. Len(got) \in Nat /\ f \in Nat /\ NFrames \in Nat /\ f <= NFrames
        BY <1>1, NFramesAssumption DEF Frames
      <4>2. \A n \in 1..Len(got) : n # f /\ n \in Frames
        BY <3>10, <4>1 DEF Frames
      <4>3. \A n \in 1..Len(got') : inv'[n] = Passes(Last)
        BY <3>1, <3>3, <4>2 DEF Inversions
      <4> QED
        BY <3>6, <4>3 DEF Passes, Filters
    <3>12. \A g \in Frames : Pushed' < g => inv'[g] = 0
      <4>1. Pushed \in Int
        BY NFramesAssumption DEF Pushed, TypeOK
      <4>2. \A g \in Frames : Pushed < g => g # f
        BY <3>10, <4>1 DEF Frames
      <4> QED
        BY <3>3, <3>6, <4>2 DEF Inversions
    <3> QED
      BY <3>7, <3>9, <3>11, <3>12 DEF Inversions
  <2> QED
    BY <2>1, <2>4, <2>5, <2>6, <2>7
<1> QED
  BY <1>5, <1>6, <1>7, <1>8 DEF WorkerStep

-----------------------------------------------------------------------------
(* What main() does to the frames *)

\* Before init() is over there are no frames.
LEMMA NoFramesYet ==
  ASSUME TypeOK, Queues, Conserved, mpc \in {"scan", "build", "init"}
  PROVE  /\ got = <<>> /\ Pushed = 0
         /\ \A p \in Pads : \A f : ~Hand(p, f) /\ ~InQueue(p, f) /\ ~Holds(p, f)
<1>1. Pushed = 0
  BY DEF Pushed
<1>2. got = <<>>
  <2>1. Len(got) \in Nat /\ Len(got) <= 0
    BY <1>1 DEF TypeOK, Conserved
  <2> QED
    BY <2>1 DEF TypeOK
<1>3. \A p \in Pads : \A f : ~Hand(p, f) /\ ~InQueue(p, f)
  BY DEF Queues, Hand, InQueue, Occurs
<1> QED
  BY <1>1, <1>2, <1>3 DEF Holds

LEMMA PushedType == ASSUME TypeOK, Structure PROVE Pushed \in Nat /\ (mpc = "push" => Pushed = k - 1)
BY NFramesAssumption DEF Pushed, TypeOK, Structure, Phases

\* A step of main() other than a push moves no frame.
LEMMA FramesKept ==
  ASSUME TypeOK, Structure, Queues, Ordered, Conserved, Inversions, Main, ~PushFrame
  PROVE  Ordered' /\ Conserved' /\ Inversions'
<1>1. CASE ScanFile \/ BuildElement
  <2>1. /\ mpc' \in {"scan", "build"} /\ mpc \in {"scan", "build"} /\ UNCHANGED <<q, got, inv>>
        /\ \A p \in Pads : wk'[p] \in {wk[p], AtHead}
    BY <1>1 DEF ScanFile, BuildElement, TypeOK
  <2>2. /\ got = <<>> /\ Pushed = 0 /\ Pushed' = 0
        /\ \A p \in Pads : \A f : ~Hand(p, f) /\ ~InQueue(p, f)
    BY <2>1, NoFramesYet DEF Pushed
  <2>3. \A p \in Pads : \A f : ~Hand(p, f)' /\ ~InQueue(p, f)' /\ ~Holds(p, f)'
    BY <2>1, <2>2, WorkerTypes DEF Hand, InQueue, Holds
  <2>4. Ordered'
    BY <2>1, <2>3 DEF Ordered
  <2>5. Conserved'
    BY <2>1, <2>2, <2>3 DEF Conserved, Frames
  <2>6. Inversions'
    BY <2>1, <2>2, <2>3 DEF Inversions
  <2> QED
    BY <2>4, <2>5, <2>6
<1>2. CASE \/ Turns \/ InitElement \/ DestroyDerived \/ JoinSink \/ JoinSrc \/ CloseLibraries
  <2>1. UNCHANGED <<q, wk, got, inv, elems>>
    BY <1>2 DEF Turns, Turn, InitElement, DestroyDerived, JoinSink, JoinSrc, CloseLibraries
  <2>2. Pushed' = Pushed
    <3>1. CASE Turns
      <4>1. NFrames \in Nat /\ k \in Nat /\ (mpc = "push" => k <= NFrames + 1)
        BY NFramesAssumption DEF TypeOK, Structure, Phases
      <4>2. \/ mpc \in {"scan", "build", "init"} /\ mpc' \in {"build", "init"}
            \/ mpc = "init" /\ mpc' = "push" /\ k' = 1
            \/ mpc = "push" /\ k > NFrames /\ mpc' = "sleep"
            \/ mpc \notin {"scan", "build", "init", "push"} /\ mpc' \notin {"scan", "build", "init", "push"}
        BY <3>1 DEF Turns, Turn, AfterElements
      <4> QED
        BY <4>1, <4>2 DEF Pushed
    <3>2. CASE InitElement \/ DestroyDerived \/ JoinSink \/ JoinSrc \/ CloseLibraries
      BY <3>2 DEF InitElement, DestroyDerived, JoinSink, JoinSrc, CloseLibraries, Pushed, AfterElements
    <3> QED
      BY <1>2, <3>1, <3>2
  <2>3. Ordered'
    BY <2>1 DEF Ordered, Holds, Hand, InQueue, Stage
  <2>4. Conserved'
    BY <2>1, <2>2 DEF Conserved, Takes, Gives, Last, Holds, Hand, InQueue
  <2>5. Inversions'
    BY <2>1, <2>2 DEF Inversions, Hand, InQueue, Passed, Passes, Filters, Last
  <2> QED
    BY <2>3, <2>4, <2>5
<1> QED
  BY <1>1, <1>2, MainCases

\* A frame that main() pushes comes behind all others.
LEMMA FramePushed ==
  ASSUME TypeOK, Structure, Queues, Ordered, Conserved, Inversions, PushFrame
  PROVE  Ordered' /\ Conserved' /\ Inversions'
<1>1. /\ q \in [Pads -> Seq(Frames)] /\ k \in Frames /\ k \in Nat /\ NFrames \in Nat
      /\ mpc = "push" /\ mpc' = "push" /\ k' = k + 1 /\ UNCHANGED <<wk, got, inv, elems>>
      /\ got \in Seq(Frames)
  BY NFramesAssumption DEF PushFrame, TypeOK, Structure, Phases, Frames
<1>2. Pushed = k - 1 /\ Pushed' = k /\ Last' = Last /\ (Takes' <=> Takes) /\ (Gives' <=> Gives)
  BY <1>1 DEF Pushed, Takes, Gives, Last
<1>3. \A p \in Pads : \A f : (Hand(p, f)' <=> Hand(p, f)) /\ wk'[p] = wk[p]
  BY <1>1 DEF Hand
<1>4. CASE ~Takes
  <2>1. q' = q
    BY <1>4 DEF PushFrame, Takes
  <2>2. \A p \in Pads : \A f : (InQueue(p, f)' <=> InQueue(p, f)) /\ (Holds(p, f)' <=> Holds(p, f))
    BY <1>3, <2>1 DEF InQueue, Holds
  <2>3. Ordered'
    BY <1>3, <2>1, <2>2 DEF Ordered, Stage
  <2>4. Conserved'
    <3>1. Len(got) <= k
      BY <1>1, <1>2 DEF Conserved
    <3> QED
      BY <1>1, <1>2, <1>4, <2>2, <3>1 DEF Conserved
  <2>5. Inversions'
    <3>1. \A f \in Frames : k < f => k - 1 < f
      BY <1>1 DEF Frames
    <3> QED
      BY <1>1, <1>2, <1>3, <2>2, <3>1 DEF Inversions, Passed, Passes, Filters
  <2> QED
    BY <2>3, <2>4, <2>5
<1>5. CASE Takes
  <2>1. PICK s, f : s = <<1, "src">> /\ f = k
    OBVIOUS
  <2>2. Last \in Nat /\ Last # 0 /\ 1 \in 1..Last /\ elems[1] = "Source"
    BY <1>5, LastType DEF Takes, TypeOK, Last
  <2>3. s \in Pads /\ s[1] = 1 /\ s[2] = "src"
    BY <2>1, <2>2, LastType DEF Pads, Positions
  <2>4. q'[s] = Append(q[s], f) /\ \A p \in Pads : p # s => q'[p] = q[p]
    BY <1>1, <1>5, <2>1, <2>3 DEF PushFrame, Takes
  <2>5. \A g : InQueue(s, g)' <=> InQueue(s, g) \/ g = f
    BY <1>1, <2>1, <2>3, <2>4, AppendOccurs DEF InQueue
  <2>6. \A p \in Pads : \A g : p # s => (InQueue(p, g)' <=> InQueue(p, g))
    BY <2>4, InQueueKept
  <2>7. \A p \in Pads : \A g : Holds(p, g)' <=> Holds(p, g) \/ (p = s /\ g = f)
    BY <1>3, <2>5, <2>6 DEF Holds
  <2>8. \A p \in Pads, g \in Frames : Holds(p, g) => g < f
    BY <1>1, <1>2, <2>1 DEF Conserved, Frames
  \* Upstream of the pad is nothing but the sink pad that a Source has not.
  <2>9. \A p \in Pads, g \in Frames : Holds(p, g) => ~(Stage(p) < Stage(s))
    <3> SUFFICES ASSUME NEW p \in Pads, NEW g \in Frames, Holds(p, g), Stage(p) < Stage(s) PROVE FALSE
      OBVIOUS
    <3>1. IsQueue(p)
      BY HoldsIsQueue
    <3>2. Stage(s) = 5 /\ Stage(p) = (IF p[2] = "sink" THEN 3 * p[1] ELSE 3 * p[1] + 2)
      BY <2>3, Stages
    <3>3. p[1] = 1 /\ p[2] = "sink"
      BY <3>2, PadType DEF Positions
    <3> QED
      BY <2>2, <3>1, <3>3, Table DEF IsQueue, Kind
  <2>10. Ordered'
    <3>1. Increasing(q'[s])
      <4>1. Increasing(q[s]) /\ q[s] \in Seq(Frames) /\ f \in Frames
        BY <1>1, <2>1, <2>3 DEF Ordered
      <4>2. \A g \in Frames : Occurs(q[s], g) => g < f
        BY <2>3, <2>8 DEF Holds, InQueue
      <4> QED
        BY <2>4, <4>1, <4>2, AppendOccurs
    <3>2. \A p \in Pads : Increasing(q'[p])
      BY <2>4, <3>1 DEF Ordered
    <3>3. \A p \in Pads, g, h \in Frames : Hand(p, g)' /\ InQueue(p, h)' => g < h
      <4>1. \A g \in Frames : Hand(s, g) => g < f
        BY <2>3, <2>8 DEF Holds
      <4> QED
        BY <1>3, <2>3, <2>5, <2>6, <4>1 DEF Ordered
    <3>4. \A p, r \in Pads, g, h \in Frames : Stage(p) < Stage(r) /\ Holds(p, g)' /\ Holds(r, h)' => h < g
      <4>1. SUFFICES ASSUME NEW p \in Pads, NEW r \in Pads, NEW g \in Frames, NEW h \in Frames,
                            Stage(p) < Stage(r), Holds(p, g)', Holds(r, h)'
                     PROVE  h < g
        OBVIOUS
      <4>2. CASE p = s /\ g = f
        <5>1. r # s
          BY <4>1, <4>2, Stages
        <5> QED
          BY <2>7, <2>8, <4>1, <4>2, <5>1
      <4>3. CASE r = s /\ h = f
        <5>1. p # s
          BY <4>1, <4>3, Stages
        <5> QED
          BY <2>7, <2>9, <4>1, <4>3, <5>1
      <4>4. CASE Holds(p, g) /\ Holds(r, h)
        BY <4>1, <4>4 DEF Ordered
      <4> QED
        BY <2>7, <4>1, <4>2, <4>3, <4>4
    <3> QED
      BY <3>2, <3>3, <3>4 DEF Ordered, Stage
  <2>11. Conserved'
    <3>1. Len(got) <= k - 1 /\ Len(got) \in Nat
      BY <1>1, <1>2 DEF Conserved
    <3>2. \A p \in Pads, g \in Frames : Holds(p, g)' => Len(got) < g /\ g <= k
      BY <1>1, <1>2, <2>1, <2>7, <3>1 DEF Conserved, Frames
    <3>3. Gives => \A g \in Frames : Len(got) < g /\ g <= k => \E p \in Pads : Holds(p, g)'
      <4>1. SUFFICES ASSUME Gives, NEW g \in Frames, Len(got) < g, g <= k PROVE \E p \in Pads : Holds(p, g)'
        OBVIOUS
      <4>2. CASE g = k
        BY <2>1, <2>3, <2>7, <4>2
      <4>3. CASE g # k
        <5>1. g <= k - 1
          BY <1>1, <4>1, <4>3 DEF Frames
        <5> QED
          BY <1>2, <1>5, <2>7, <4>1, <5>1 DEF Conserved
      <4> QED
        BY <4>2, <4>3
    <3> QED
      BY <1>1, <1>2, <1>5, <3>1, <3>2, <3>3 DEF Conserved
  <2>12. Inversions'
    <3>1. inv[f] = 0
      BY <1>1, <1>2, <2>1 DEF Inversions
    <3>2. Passes(1) = 0
      <4>1. Filters(1) = {}
        BY <2>2 DEF Filters
      <4> QED
        BY <4>1, FS_EmptySet DEF Passes
    <3>3. Passed(s) = 1
      BY <2>3 DEF Passed
    <3>4. \A p \in Pads, g \in Frames : InQueue(p, g)' => inv[g] = Passes(Passed(p))
      BY <2>5, <2>6, <2>3, <3>1, <3>2, <3>3 DEF Inversions
    <3>5. \A p \in Pads, g \in Frames : InQueue(p, g)' => inv'[g] = Passes(Passed(p))'
      BY <1>1, <3>4 DEF Passes, Filters, Passed
    <3>6. \A p \in Pads, g \in Frames : Hand(p, g)' => inv'[g] = Passes(Passed(wk[p].at))'
      BY <1>1, <1>3 DEF Inversions, Passes, Filters, Passed
    <3>7. \A n \in 1..Len(got') : inv'[n] = Passes(Last)'
      BY <1>1, <1>2 DEF Inversions, Passes, Filters
    <3>8. \A g \in Frames : k < g => inv[g] = 0
      <4>1. \A g \in Frames : k < g => k - 1 < g
        BY <1>1 DEF Frames
      <4> QED
        BY <1>2, <4>1 DEF Inversions
    <3> QED
      BY <1>1, <1>2, <3>5, <3>6, <3>7, <3>8 DEF Inversions
  <2> QED
    BY <2>10, <2>11, <2>12
<1> QED
  BY <1>4, <1>5

-----------------------------------------------------------------------------
(* The theorems *)

Inv == IInv /\ NoFaultIfWellFormed /\ NeverDangles

LEMMA NextInv == Inv /\ [Next]_vars => Inv'
<1> SUFFICES ASSUME Inv, [Next]_vars PROVE Inv'
  OBVIOUS
<1> USE DEF Inv, IInv
<1>1. CASE Main
  <2>1. TypeOK' /\ Structure'
    BY <1>1, MainTypeOK, MainStructure
  <2>2. Joined' /\ Queues' /\ Calls' /\ Faults'
    BY <1>1, MainJoined, MainQueues, MainCalls, MainFaults
  <2>3. Ordered' /\ Conserved' /\ Inversions'
    BY <1>1, FramesKept, FramePushed
  <2>4. NoFaultIfWellFormed' /\ NeverDangles'
    BY <1>1, MainNoFault, NextNeverDangles
  <2> QED
    BY <2>1, <2>2, <2>3, <2>4
<1>2. ASSUME NEW p \in Pads, WorkerStep(p) PROVE Inv'
  <2>1. TypeOK' /\ Structure'
    BY <1>2, WorkerTypeOK, WorkerStructure
  <2>2. Joined' /\ Queues' /\ Calls' /\ Faults'
    BY <1>2, WorkerJoined, WorkerQueues, WorkerCalls, WorkerFaults
  <2>3. Ordered' /\ Conserved' /\ Inversions'
    BY <1>2, WorkerOrdered, WorkerConserved, WorkerInversions
  <2>4. NoFaultIfWellFormed' /\ NeverDangles'
    BY <1>2, WorkerNoFault, NextNeverDangles
  <2> QED
    BY <2>1, <2>2, <2>3, <2>4
<1>3. CASE UNCHANGED vars \/ \E p \in Pads : WorkerStirs(p)
  <2> USE DEF registryVars
  <2>0. /\ UNCHANGED <<dir, plugins, libs, chain, drains, elems, mpc, k, life, linked, q, run, wk, inv, got,
                       fault>>
        /\ missed' \subseteq missed
    BY <1>3 DEF vars, WorkerStirs, mainVars
  <2> USE <2>0
  <2>1. TypeOK'
    BY DEF TypeOK
  <2>2. Structure'
    BY DEF Structure, Registry, Built, Provided, Phases, Initialised, Kind, Lives, Expected, Earlier, Last
  <2>3. Joined' /\ Queues' /\ Calls' /\ Faults'
    BY DEF Joined, PadFreed, Idle, Queues, Calls, CallOK, IsQueue, Kind, Last, Faults, Quiescent
  <2>4. Ordered' /\ Conserved' /\ Inversions'
    BY DEF Ordered, Conserved, Inversions, Holds, Hand, InQueue, Takes, Gives, Last, Pushed, Passed, Passes,
           Filters
  <2>5. NoFaultIfWellFormed' /\ NeverDangles'
    BY DEF NoFaultIfWellFormed, WellFormed, Provided, NeverDangles
  <2> QED
    BY <2>1, <2>2, <2>3, <2>4, <2>5
<1> QED
  BY <1>1, <1>2, <1>3 DEF Next

LEMMA InvInvariant == Spec => []Inv
<1>1. Init => Inv
  BY InitIInv DEF Inv, Init, NoFaultIfWellFormed, NeverDangles
<1> QED
  BY <1>1, NextInv, PTL DEF Spec

\* Every variable keeps its type.
THEOREM TypeCorrect == Spec => []TypeOK
BY InvInvariant, PTL DEF Inv, IInv

\* With a well-formed configuration and a sleep that outlasts the work the
\* process does not die, whatever the length of the pipeline and the number of
\* frames: ~Pipeline() begins when no worker holds anything.
THEOREM NoFault == Spec => []NoFaultIfWellFormed
BY InvInvariant, PTL DEF Inv

\* ~Pipeline() may begin at any point of the work and no worker meets a pad or
\* an element that is gone: whoever could call it has been joined before.
THEOREM NothingDangles == Spec => []NeverDangles
BY InvInvariant, PTL DEF Inv

\* The library of an element is open as long as any part of the element exists.
THEOREM LibrariesOutlive == Spec => []LibrariesOutliveElements
<1>1. TypeOK /\ Structure => LibrariesOutliveElements
  <2> SUFFICES ASSUME TypeOK, Structure, chain \notin Reversed
               PROVE  /\ \A i \in 1..Last : life[i] \notin {"none", "gone"} => plugins[elems[i]] \in libs
                      /\ mpc = "done" => \A j \in libs : plugins[dir[j]] # j
    BY DEF LibrariesOutliveElements, Last
  <2>1. ASSUME NEW i \in 1..Last, life[i] \notin {"none", "gone"} PROVE plugins[elems[i]] \in libs
    <3>1. i \in Positions /\ life[i] = Expected(i)
      BY LastType DEF Structure, Lives, Positions
    <3>2. elems[i] # NullElement /\ mpc # "done"
      BY <2>1, <3>1, LastType DEF Expected
    <3>3. elems[i] = chain[i] /\ Provided(chain[i])
      BY <3>2 DEF Structure, Built
    <3> QED
      BY <3>2, <3>3 DEF Provided, Structure, Registry
  <2> QED
    BY <2>1 DEF Structure, Registry
<1> QED
  BY <1>1, InvInvariant, PTL DEF Inv, IInv

\* What reaches the sink is a prefix of what main() pushed, in the same order,
\* each frame inverted as often as there are filters in the configuration.
THEOREM InOrder == Spec => []ArriveInOrder
<1>1. Conserved /\ Inversions => ArriveInOrder
  BY DEF Conserved, Inversions, ArriveInOrder, Passes, Filters, Last
<1> QED
  BY <1>1, InvInvariant, PTL DEF Inv, IInv
=============================================================================
