------------------------------ MODULE Pipeline ------------------------------
(***************************************************************************)
(* One run of the ViPlugs application: the registry loads the plugins of a *)
(* directory, a Pipeline is built from a configuration, initialised, fed   *)
(* with frames, stopped and destroyed, while the worker of every QueuePad  *)
(* in it moves the frames; last, the registry closes its libraries.        *)
(*                                                                         *)
(* An element is a plugin type with a sink pad and a src pad, each of them *)
(* a QueuePad, a SimplePad or none.  A frame moves hop by hop: from a pad  *)
(* to what its next is set to, that is from a src pad to the sink pad of   *)
(* the following element, from a sink pad to its own element's on_buffer(),*)
(* from on_buffer() to the element's src pad.  A QueuePad ends a chain of  *)
(* calls, a SimplePad passes it on in the thread of the caller.            *)
(*                                                                         *)
(* A queue is here what module QueuePad shows it to be, a FIFO between a   *)
(* push and a pop that are atomic.  The destructor's store and notify can  *)
(* fall between the test and the sleep of a worker, as they do there: the  *)
(* worker has missed them, and the join() of its pad waits with it.        *)
(***************************************************************************)
EXTENDS Naturals, Sequences, FiniteSets

CONSTANTS Chains,        \* the configurations: sequences of plugin types
          Directories,   \* plugin directories: for each file the type it provides,
                         \* or something else
          NFrames,       \* how many frames main() pushes (a bound)
          MaxLen,        \* the length of the longest configuration (a bound)
          Reversed       \* those of them that the second main() builds, without a
                         \* registry, in local variables

ASSUME NFramesAssumption == NFrames \in Nat
ASSUME ChainsAssumption == /\ MaxLen \in Nat
                           /\ Chains \subseteq Seq(STRING)
                           /\ \A c \in Chains : Len(c) <= MaxLen
ASSUME DirectoriesAssumption == Directories \subseteq Seq(STRING)

\* The pads that the constructor of each plugin creates.  Filter and
\* QueueSink are the variants of plugin_test/.
PadKinds ==
  [Source       |-> [sink |-> "none",   src |-> "queue"],
   InvertFilter |-> [sink |-> "queue",  src |-> "simple"],
   Sink         |-> [sink |-> "simple", src |-> "none"],
   Filter       |-> [sink |-> "queue",  src |-> "queue"],
   QueueSink    |-> [sink |-> "queue",  src |-> "none"]]

Types == DOMAIN PadKinds

\* The second main() names the classes of its elements.
ASSUME ReversedAssumption == /\ Reversed \subseteq Chains
                             /\ \A c \in Reversed : \A i \in 1..Len(c) : c[i] \in Types

Frames == 1..NFrames
Positions == 1..MaxLen
Pads == Positions \X {"sink", "src"}
NullElement == "null"

VARIABLES dir,     \* the plugin directory
          plugins, \* the registry: the file that provides each type, 0 for none
          libs,    \* the files whose library is open
          chain,   \* the configuration of this run
          drains,  \* its sleep before stop() outlasts all the work
          elems,   \* the elements added so far, NullElement for an unknown type
          mpc,     \* the phase main() is in
          k,       \* the index of main()'s current loop
          life,    \* how much of each element exists
          linked,  \* the src pads whose next is set
          q,       \* the queue of each QueuePad
          run,     \* its running flag
          missed,  \* the pads whose worker slept through their destructor's notify
          wk,      \* its worker: where it is, with which frame
          inv,     \* how often the bytes of each frame have been inverted
          got,     \* the frames that reached on_buffer() of the sink, in order
          fault    \* how the process died, or "none"

registryVars == <<dir, plugins, libs>>
mainVars == <<registryVars, chain, drains, elems, mpc, k>>
vars == <<registryVars, chain, drains, elems, mpc, k, life, linked, q, run, missed, wk, inv, got,
          fault>>

Kind(i, side) == PadKinds[elems[i]][side]

\* A worker without a frame, and one that calls into a place with one.
Resting(pc) == [pc |-> pc, frame |-> 0, at |-> <<>>]
Calling(frame, place) == [pc |-> "call", frame |-> frame, at |-> place]

Asleep == Resting("wait")
AtHead == Resting("head")
Exited == Resting("exited")
NoWorker == Resting("none")

Init == /\ dir \in Directories
        /\ plugins = [type \in Types |-> 0]
        /\ libs = {}
        /\ chain \in Chains
        /\ drains \in BOOLEAN
        /\ elems = <<>>
        /\ mpc = IF chain \in Reversed THEN "build" ELSE "scan"
        /\ k = 1
        /\ life = [i \in Positions |-> "none"]
        /\ linked = {}
        /\ q = [p \in Pads |-> <<>>]
        /\ run = [p \in Pads |-> TRUE]
        /\ missed = {}
        /\ wk = [p \in Pads |-> NoWorker]
        /\ inv = [f \in Frames |-> 0]
        /\ got = <<>>
        /\ fault = "none"

Die(how) == fault' = how

-----------------------------------------------------------------------------
(* main(): scan, build, init, push *)

\* PluginRegistry::scan(): a file that is no library, cannot be opened or has no
\* create() leaves nothing behind.  The element that tells the name is deleted
\* again.  A type that is there already is overwritten, its library stays open.
ScanFile ==
  /\ mpc = "scan"
  /\ k <= Len(dir)
  /\ IF dir[k] \in Types
     THEN plugins' = [plugins EXCEPT ![dir[k]] = k] /\ libs' = libs \cup {k}
     ELSE UNCHANGED <<plugins, libs>>
  /\ k' = k + 1
  /\ UNCHANGED <<dir, chain, drains, elems, mpc, life, linked, q, run, missed, wk, inv, got, fault>>

ScanDone == /\ mpc = "scan"
            /\ k > Len(dir)
            /\ mpc' = "build"
            /\ k' = 1
            /\ UNCHANGED <<registryVars, chain, drains, elems, life, linked, q, run, missed, wk,
                           inv,
                           got, fault>>

Provided(type) == IF chain \in Reversed THEN TRUE ELSE type \in Types /\ plugins[type] # 0

\* pipeline->add(registry.create(type)): a type that no plugin provides is a
\* null element; the constructor of a QueuePad starts its worker.
BuildElement ==
  /\ mpc = "build"
  /\ k <= Len(chain)
  /\ LET type == IF Provided(chain[k]) THEN chain[k] ELSE NullElement
     IN /\ elems' = Append(elems, type)
        /\ IF type = NullElement
           THEN UNCHANGED <<life, wk>>
           ELSE /\ life' = [life EXCEPT ![k] = "alive"]
                /\ wk' = [p \in Pads |-> IF p[1] = k /\ PadKinds[type][p[2]] = "queue"
                                         THEN AtHead ELSE wk[p]]
  /\ k' = k + 1
  /\ UNCHANGED <<registryVars, chain, drains, mpc, linked, q, run, missed, inv, got, fault>>

BuildDone == /\ mpc = "build"
             /\ k > Len(chain)
             /\ mpc' = "init"
             /\ k' = 1
             /\ UNCHANGED <<registryVars, chain, drains, elems, life, linked, q, run, missed, wk,
                            inv, got, fault>>

\* Mutant: the link to the last element is forgotten.
InitElement_LastUnlinked ==
  /\ mpc = "init" /\ k <= Len(elems)
  /\ IF elems[k] = NullElement \/ (k > 1 /\ Kind(k - 1, "src") = "none")
     THEN Die("null_deref") /\ UNCHANGED <<k, linked>>
     ELSE /\ linked' = IF k > 1 /\ k < Len(elems) THEN linked \cup {k - 1} ELSE linked
          /\ k' = k + 1 /\ UNCHANGED fault
  /\ UNCHANGED <<registryVars, chain, drains, elems, mpc, life, q, run, missed, wk, inv, got>>

\* Pipeline::init(): init the element, then link the previous one to it.  The
\* sink pad is captured as it is, null or not; the src pad is dereferenced.
InitElement ==
  /\ mpc = "init"
  /\ k <= Len(elems)
  /\ IF elems[k] = NullElement \/ (k > 1 /\ Kind(k - 1, "src") = "none")
     THEN /\ Die("null_deref")
          /\ UNCHANGED <<k, linked>>
     ELSE /\ linked' = IF k > 1 THEN linked \cup {k - 1} ELSE linked
          /\ k' = k + 1
          /\ UNCHANGED fault
  /\ UNCHANGED <<registryVars, chain, drains, elems, mpc, life, q, run, missed, wk, inv, got>>

\* Every start() returns true and does nothing.
InitDone == /\ mpc = "init"
            /\ k > Len(elems)
            /\ mpc' = "push"
            /\ k' = 1
            /\ UNCHANGED <<registryVars, chain, drains, elems, life, linked, q, run, missed, wk,
                           inv, got, fault>>

\* push_frame(): only Source overrides Element::push(), the default drops the
\* frame; the caller is told false in every case.
PushFrame ==
  /\ mpc = "push"
  /\ k <= NFrames
  /\ q' = IF elems # <<>> /\ elems[1] = "Source"
          THEN [q EXCEPT ![<<1, "src">>] = Append(@, k)]
          ELSE q
  /\ k' = k + 1
  /\ UNCHANGED <<registryVars, chain, drains, elems, mpc, life, linked, run, missed, wk, inv,
                 got, fault>>

PushDone == /\ mpc = "push"
            /\ k > NFrames
            /\ mpc' = "sleep"
            /\ UNCHANGED <<registryVars, chain, drains, elems, k, life, linked, q, run, missed,
                           wk, inv, got, fault>>

-----------------------------------------------------------------------------
(* The workers *)

Return(p) == wk' = [wk EXCEPT ![p] = AtHead]
GoTo(p, place) == wk' = [wk EXCEPT ![p] = Calling(@.frame, place)]

WorkerHead(p) ==
  /\ wk[p].pc = "head"
  /\ wk' = [wk EXCEPT ![p] = IF run[p] THEN Asleep ELSE Exited]
  /\ UNCHANGED <<mainVars, life, linked, q, run, missed, inv, got, fault>>

\* Mutant: the worker takes the newest frame.
WorkerPop_Back(p) ==
  /\ wk[p].pc = "wait" /\ q[p] # <<>>
  /\ q' = [q EXCEPT ![p] = SubSeq(@, 1, Len(@) - 1)]
  /\ wk' = [wk EXCEPT ![p] =
              Calling(q[p][Len(q[p])],
                      IF p[2] = "sink" THEN <<p[1], "elem">> ELSE <<p[1] + 1, "sink">>)]
  /\ UNCHANGED <<mainVars, life, linked, run, missed, inv, got, fault>>

\* The worker finds its queue filled, or push() has woken it, if need be a second
\* time.  if (next) next(buf): the next of a sink pad is its element, the next of
\* a linked src pad is the sink pad of the following element.
WorkerPop(p) ==
  /\ wk[p].pc = "wait"
  /\ q[p] # <<>>
  /\ q' = [q EXCEPT ![p] = Tail(@)]
  /\ wk' = [wk EXCEPT ![p] =
              IF p[2] = "sink" THEN Calling(Head(q[p]), <<p[1], "elem">>)
              ELSE IF p[1] \in linked THEN Calling(Head(q[p]), <<p[1] + 1, "sink">>)
              ELSE AtHead]
  /\ UNCHANGED <<mainVars, life, linked, run, missed, inv, got, fault>>

WorkerQuit(p) ==
  /\ wk[p].pc = "wait"
  /\ q[p] = <<>>
  /\ ~run[p]
  /\ p \notin missed
  /\ wk' = [wk EXCEPT ![p] = Exited]
  /\ UNCHANGED <<mainVars, life, linked, q, run, missed, inv, got, fault>>

\* A spurious wake-up: the predicate is evaluated once more.
WorkerStirs(p) ==
  /\ p \in missed
  /\ wk[p].pc = "wait"
  /\ missed' = missed \ {p}
  /\ UNCHANGED <<mainVars, life, linked, q, run, wk, inv, got, fault>>

\* A pad is gone once its element has destroyed it.
PadFreed(i, side) == \/ life[i] = "gone"
                     \/ life[i] = "nosink" /\ side = "sink"

EnterPad(p) ==
  /\ wk[p].pc = "call"
  /\ wk[p].at[2] \in {"sink", "src"}
  /\ LET i == wk[p].at[1]
         side == wk[p].at[2]
     IN CASE Kind(i, side) = "none" ->
               Die("null_deref") /\ UNCHANGED <<q, wk>>
          [] Kind(i, side) # "none" /\ PadFreed(i, side) ->
               Die("use_after_free") /\ UNCHANGED <<q, wk>>
          [] Kind(i, side) = "queue" /\ ~PadFreed(i, side) ->
               /\ q' = [q EXCEPT ![<<i, side>>] = Append(@, wk[p].frame)]
               /\ Return(p)
               /\ UNCHANGED fault
          [] Kind(i, side) = "simple" /\ ~PadFreed(i, side) ->
               /\ IF side = "sink" THEN GoTo(p, <<i, "elem">>)
                  ELSE IF i \in linked THEN GoTo(p, <<i + 1, "sink">>)
                  ELSE Return(p)
               /\ UNCHANGED <<q, fault>>
  /\ UNCHANGED <<mainVars, life, linked, run, missed, inv, got>>

\* on_buffer() is a virtual call: while the base part of the element is being
\* destroyed it is the pure virtual one.
EnterElement(p) ==
  /\ wk[p].pc = "call"
  /\ wk[p].at[2] = "elem"
  /\ LET i == wk[p].at[1]
     IN IF life[i] # "alive"
        THEN /\ Die(IF life[i] = "gone" THEN "use_after_free" ELSE "pure_virtual")
             /\ UNCHANGED <<wk, inv, got>>
        ELSE /\ inv' = IF elems[i] = "InvertFilter"
                       THEN [inv EXCEPT ![wk[p].frame] = @ + 1] ELSE inv
             /\ IF elems[i] \in {"InvertFilter", "Filter"}
                THEN GoTo(p, <<i, "src">>) /\ UNCHANGED got
                ELSE /\ got' = IF elems[i] \in {"Sink", "QueueSink"}
                               THEN Append(got, wk[p].frame) ELSE got
                     /\ Return(p)
             /\ UNCHANGED fault
  /\ UNCHANGED <<mainVars, life, linked, q, run, missed>>

WorkerStep(p) == WorkerHead(p) \/ WorkerPop(p) \/ WorkerQuit(p) \/ EnterPad(p) \/ EnterElement(p)

-----------------------------------------------------------------------------
(* main(): sleep, stop, shutdown, destroy *)

\* No frame is in a queue or in a worker's hands.
Quiescent == \A p \in Pads : q[p] = <<>> /\ wk[p].pc # "call"

\* Mutant: the sleep is too short.
Sleep_TooShort ==
  /\ mpc = "sleep"
  /\ mpc' = "stop"
  /\ UNCHANGED <<registryVars, chain, drains, elems, k, life, linked, q, run, missed, wk, inv,
                 got, fault>>

Sleep == /\ mpc = "sleep"
         /\ drains => Quiescent
         /\ mpc' = "stop"
         /\ UNCHANGED <<registryVars, chain, drains, elems, k, life, linked, q, run, missed, wk,
                        inv, got, fault>>

\* No element overrides stop(): no worker is told anything.
Stop == /\ mpc = "stop"
        /\ mpc' = "shutdown"
        /\ UNCHANGED <<registryVars, chain, drains, elems, k, life, linked, q, run, missed, wk,
                       inv, got, fault>>

\* ~Pipeline() destroys its vector from the first element on; the second main()
\* has its elements in local variables, and the last one is destroyed first.
FirstToDestroy == IF chain \in Reversed THEN Len(elems) ELSE 1
NextToDestroy == IF chain \in Reversed THEN k - 1 ELSE k + 1

\* What remains for main() when no element is left.
AfterElements == IF chain \in Reversed THEN "done" ELSE "close"

\* Mutant: the registry is destroyed before the pipeline.
Shutdown_RegistryFirst ==
  /\ mpc = "shutdown"
  /\ k' = FirstToDestroy
  /\ mpc' = IF elems = <<>> THEN AfterElements ELSE "derived"
  /\ libs' = libs \ {plugins[type] : type \in Types}
  /\ UNCHANGED <<dir, plugins, chain, drains, elems, life, linked, q, run, missed, wk, inv, got,
                 fault>>

\* Every shutdown() only logs; then the pipeline goes out of scope.
Shutdown == /\ mpc = "shutdown"
            /\ k' = FirstToDestroy
            /\ mpc' = IF elems = <<>> THEN AfterElements ELSE "derived"
            /\ UNCHANGED <<registryVars, chain, drains, elems, life, linked, q, run, missed, wk,
                           inv, got, fault>>

\* The destructor of the plugin class has run, ~Element() begins.
DestroyDerived == /\ mpc = "derived"
                  /\ life' = [life EXCEPT ![k] = "base"]
                  /\ mpc' = "stop_sink"
                  /\ UNCHANGED <<registryVars, chain, drains, elems, k, linked, q, run, missed,
                                 wk, inv, got, fault>>

\* The phases in which main() destroys each pad.
StopAt == [sink |-> "stop_sink", src |-> "stop_src"]
JoinAt == [sink |-> "join_sink", src |-> "join_src"]

\* Mutant: running is not cleared.
StopPad_FlagKept(side) ==
  /\ mpc = StopAt[side]
  /\ mpc' = JoinAt[side]
  /\ UNCHANGED <<registryVars, chain, drains, elems, k, life, linked, q, run, missed, wk, inv,
                 got, fault>>

\* running = false; cv.notify_all(), without the mutex: a worker with nothing in
\* its queue hears of it, or has just found running set and only then sleeps.
\* The members are destroyed in reverse order: the sink pad, then the src pad.
StopPad(side) ==
  /\ mpc = StopAt[side]
  /\ run' = [run EXCEPT ![<<k, side>>] = FALSE]
  /\ \/ UNCHANGED missed
     \/ /\ wk[<<k, side>>].pc = "wait"
        /\ q[<<k, side>>] = <<>>
        /\ missed' = missed \cup {<<k, side>>}
  /\ mpc' = JoinAt[side]
  /\ UNCHANGED <<registryVars, chain, drains, elems, k, life, linked, q, wk, inv, got, fault>>

\* Mutant: the worker is detached.
JoinSink_Detach ==
  /\ mpc = "join_sink"
  /\ life' = [life EXCEPT ![k] = "nosink"]
  /\ mpc' = "stop_src"
  /\ UNCHANGED <<registryVars, chain, drains, elems, k, linked, q, run, missed, wk, inv, got,
                 fault>>

JoinSink == /\ mpc = "join_sink"
            /\ wk[<<k, "sink">>] \in {NoWorker, Exited}
            /\ life' = [life EXCEPT ![k] = "nosink"]
            /\ mpc' = "stop_src"
            /\ UNCHANGED <<registryVars, chain, drains, elems, k, linked, q, run, missed, wk,
                           inv, got, fault>>

JoinSrc == /\ mpc = "join_src"
           /\ wk[<<k, "src">>] \in {NoWorker, Exited}
           /\ life' = [life EXCEPT ![k] = "gone"]
           /\ k' = NextToDestroy
           /\ mpc' = IF NextToDestroy \in 1..Len(elems) THEN "derived" ELSE AfterElements
           /\ UNCHANGED <<registryVars, chain, drains, elems, linked, q, run, missed, wk, inv,
                          got, fault>>

\* ~PluginRegistry(): the local variable that was there first dies last.
CloseLibraries ==
  /\ mpc = "close"
  /\ libs' = libs \ {plugins[type] : type \in Types}
  /\ mpc' = "done"
  /\ UNCHANGED <<dir, plugins, chain, drains, elems, k, life, linked, q, run, missed, wk, inv,
                 got, fault>>

Main == \/ ScanFile \/ ScanDone
        \/ BuildElement \/ BuildDone \/ InitElement \/ InitDone
        \/ PushFrame \/ PushDone \/ Sleep \/ Stop \/ Shutdown
        \/ DestroyDerived
        \/ \E side \in {"sink", "src"} : StopPad(side)
        \/ JoinSink \/ JoinSrc
        \/ CloseLibraries

-----------------------------------------------------------------------------
\* A process that has died takes no more steps.
Alive == fault = "none"

Next == Alive /\ (Main \/ \E p \in Pads : WorkerStep(p) \/ WorkerStirs(p))

\* main() and the workers are threads that the system keeps scheduling; the
\* sleep ends.  A spurious wake-up may never come.
Fairness == /\ WF_vars(Alive /\ Main)
            /\ \A p \in Pads : WF_vars(Alive /\ WorkerStep(p))

Spec == Init /\ [][Next]_vars /\ Fairness

-----------------------------------------------------------------------------
(* Properties *)

\* A configuration the engine can run: every type is registered, every element
\* but the last has a src pad and every element but the first a sink pad.
WellFormed(c) == /\ \A i \in 1..Len(c) : Provided(c[i])
                 /\ \A i \in 1..Len(c) - 1 : /\ PadKinds[c[i]].src # "none"
                                             /\ PadKinds[c[i + 1]].sink # "none"

\* With a well-formed configuration and a sleep that outlasts the work, the
\* process never touches a null pad, a destroyed pad or a half-destroyed
\* element, in any order of main() and the workers.
NoFaultIfWellFormed == WellFormed(chain) /\ drains => fault = "none"

\* Even when main() destroys the pipeline with frames still moving, no worker
\* reaches a pad or an element that has been freed: elements die from the
\* source to the sink, and each join waits for the calls made downstream.
NeverDangles == chain \notin Reversed => fault # "use_after_free"

\* The code of an element, its destructor included, stays mapped until it is
\* gone, and in the end no library is open but one that another has taken the
\* type of.
LibrariesOutliveElements ==
  chain \notin Reversed =>
    /\ \A i \in 1..Len(elems) : life[i] \notin {"none", "gone"} => plugins[elems[i]] \in libs
    /\ mpc = "done" => \A j \in libs : plugins[dir[j]] # j

\* The frames arrive at the sink in the order main() pushed them, none twice
\* and none skipped, whatever the number of queues and threads between, and
\* each has passed every InvertFilter of the chain once: its bytes are inverted,
\* or restored, as the configuration says.
ArriveInOrder ==
  \A n \in 1..Len(got) :
     /\ got[n] = n
     /\ inv[n] = Cardinality({i \in 1..Len(elems) : elems[i] = "InvertFilter"})

\* A chain that leads from a Source to a sink delivers every frame.
Delivers(c) == /\ WellFormed(c)
               /\ c # <<>>
               /\ c[1] = "Source"
               /\ c[Len(c)] \in {"Sink", "QueueSink"}
EveryFrameArrives == Delivers(chain) /\ drains ~> Len(got) = NFrames

\* main() ends with every worker joined, whatever the frames that still move
\* through the pads it destroys, unless the process dies or the worker that a
\* join() waits for has missed the one notification that was meant for it.  That
\* gap of ~QueuePad() is the only way in which main() stays where it is.
AllWorkersJoined == \A p \in Pads : wk[p].pc \in {"none", "exited"}
StuckInGap == \E side \in {"sink", "src"} :
                /\ mpc = JoinAt[side]
                /\ <<k, side>> \in missed
                /\ wk[<<k, side>>].pc = "wait" /\ q[<<k, side>>] = <<>>
MainEnds == []<>((mpc = "done" /\ AllWorkersJoined) \/ fault # "none" \/ StuckInGap)
=============================================================================
