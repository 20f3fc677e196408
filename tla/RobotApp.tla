------------------------------ MODULE RobotApp ------------------------------
(***************************************************************************)
(* The robot simulator of robot2dof/initSimp: the main loop with the key   *)
(* callbacks it runs, and the thread that executes the G-code file.  They  *)
(* share the atomics flag_impl (here flag) and thread_done (done) and the  *)
(* arm.  One action is one access to one of these.  The arm is kept as the *)
(* number of simulation steps it is away from the manual target.           *)
(***************************************************************************)
EXTENDS Integers, Sequences, FiniteSets

CONSTANTS Files,     \* the G-code files: sequences of commands
          MaxErr,    \* bound: simulation steps to a target
          MaxKeys,   \* bound: keys pressed in a run
          Accel      \* acceleration and deceleration of a smooth move, > 0

\* A command: [kind, n, speed].  "smooth" is a G0/G1 of n units at most speed
\* units a step; "checked" is a G2/G3/G28/G4 of n steps; "instant" is
\* G90/G91/G92; any other kind is unknown to the executor.
Command == [kind: {"smooth", "checked", "instant", "unknown"}, n: Nat, speed: Nat]

ASSUME FilesAssumption == Files \subseteq Seq(Command)
ASSUME BoundsAssumption == MaxErr \in Nat /\ MaxKeys \in Nat /\ Accel \in Nat \ {0}

VARIABLES flag,      \* flag_impl: 0 idle, 1 G-code, 2 manual
          done,      \* thread_done
          joinable,  \* execThread.joinable()
          sim,       \* sim_enabled
          mpc,       \* where main() is
          xpc,       \* where the execution thread is
          file,      \* the file on disk
          ci,        \* the command the thread is at
          rem, v,    \* what is left of its move, and the speed of a smooth one
          err,       \* simulation steps to the manual target, if flag = 2
          keys,      \* keys still to be pressed
          closing,   \* the user has closed the window
          late      \* arm steps of the thread since key I: their commands and number

rvars == <<flag, done, joinable, sim, mpc, xpc, file, ci, rem, v, err, keys, closing, late>>
mainVars == <<sim, mpc, keys, closing>>
execVars == <<xpc, file, ci, rem, v>>

Punctual == [cmds |-> {}, steps |-> 0]

RTypeOK ==
  /\ flag \in 0..2 /\ done \in BOOLEAN /\ joinable \in BOOLEAN
  /\ sim \in BOOLEAN /\ closing \in BOOLEAN
  /\ mpc \in {"loop", "sim", "step", "reached", "flag", "done", "join", "start", "poll",
              "exit", "end"}
  /\ xpc \in {"none", "parse", "cmd", "load", "move", "smooth", "final",
              "setdone", "check", "clear", "ended"}
  /\ file \in Files
  /\ ci \in 1..Len(file) + 1
  /\ rem \in Nat /\ v \in Nat /\ err \in 0..MaxErr /\ keys \in 0..MaxKeys
  /\ late \in [cmds: SUBSET (Nat \ {0}), steps: 0..2]

RInit ==
  /\ flag = 1 /\ done = TRUE /\ joinable = FALSE /\ sim = FALSE
  /\ mpc = "loop" /\ xpc = "none"
  /\ file \in Files
  /\ ci = 1 /\ rem = 0 /\ v = 0 /\ err = 0
  /\ keys = MaxKeys /\ closing = FALSE /\ late = Punctual

-----------------------------------------------------------------------------
(* The main loop *)

MainGoto(from, to) == mpc = from /\ mpc' = to

LoopTest ==
  /\ MainGoto("loop", IF closing THEN "exit" ELSE IF sim THEN "sim" ELSE "flag")
  /\ UNCHANGED <<flag, done, joinable, sim, execVars, err, keys, closing, late>>

SimTest ==
  /\ MainGoto("sim", IF flag = 2 THEN "step" ELSE "flag")
  /\ UNCHANGED <<flag, done, joinable, sim, execVars, err, keys, closing, late>>

\* One step towards the target; the thread may have moved the arm meanwhile.
SimStep ==
  /\ MainGoto("step", IF err <= 1 THEN "reached" ELSE "flag")
  /\ err' = IF err = 0 THEN 0 ELSE err - 1
  /\ UNCHANGED <<flag, done, joinable, sim, execVars, keys, closing, late>>

Reached ==
  /\ MainGoto("reached", "flag")
  /\ flag' = 0
  /\ UNCHANGED <<done, joinable, sim, execVars, err, keys, closing, late>>

\* if (flag_impl.load() == 1 && thread_done.load()): two loads.
FlagTest ==
  /\ MainGoto("flag", IF flag = 1 THEN "done" ELSE "poll")
  /\ UNCHANGED <<flag, done, joinable, sim, execVars, err, keys, closing, late>>

\* Mutant: thread_done is not asked.
DoneTest_Skipped ==
  /\ MainGoto("done", IF joinable THEN "join" ELSE "start")
  /\ UNCHANGED <<flag, done, joinable, sim, execVars, err, keys, closing, late>>

DoneTest ==
  /\ MainGoto("done", IF ~done THEN "poll" ELSE IF joinable THEN "join" ELSE "start")
  /\ UNCHANGED <<flag, done, joinable, sim, execVars, err, keys, closing, late>>

Join ==
  /\ MainGoto("join", "start")
  /\ xpc = "ended"
  /\ joinable' = FALSE /\ xpc' = "none"
  /\ UNCHANGED <<flag, done, sim, file, ci, rem, v, err, keys, closing, late>>

StartThread ==
  /\ MainGoto("start", "poll")
  /\ done' = FALSE /\ joinable' = TRUE /\ xpc' = "parse"
  /\ UNCHANGED <<flag, sim, file, ci, rem, v, err, keys, closing, late>>

ExitJoin ==
  /\ MainGoto("exit", "end")
  /\ joinable => xpc = "ended"
  /\ joinable' = FALSE
  /\ UNCHANGED <<flag, done, sim, execVars, err, keys, closing, late>>

-----------------------------------------------------------------------------
(* Events, all delivered by PollEvents() in the main loop *)

Press == mpc = "poll" /\ keys > 0 /\ keys' = keys - 1

\* S toggles the simulation.
KeyS == /\ Press
        /\ sim' = ~sim
        /\ UNCHANGED <<flag, done, joinable, mpc, execVars, err, closing, late>>

\* 1 to 4 turn a joint.
KeyJoint == /\ Press
            /\ flag = 2 /\ err' \in 0..MaxErr
            /\ UNCHANGED <<flag, done, joinable, sim, mpc, execVars, closing, late>>

\* G starts the file, or lets a running thread continue.
KeyG == /\ Press
        /\ flag' = 1 /\ err' = 0 /\ late' = Punctual
        /\ UNCHANGED <<done, joinable, sim, mpc, execVars, closing>>

\* I drives to the target; the old one is kept if the new one is out of reach.
KeyI == /\ Press
        /\ flag' = 2 /\ err' \in 0..MaxErr /\ late' = Punctual
        /\ UNCHANGED <<done, joinable, sim, mpc, execVars, closing>>

CloseWindow == /\ mpc = "poll" /\ ~closing /\ closing' = TRUE
               /\ UNCHANGED <<flag, done, joinable, sim, mpc, execVars, err, keys, late>>

PollReturn == /\ MainGoto("poll", "loop")
              /\ UNCHANGED <<flag, done, joinable, sim, execVars, err, keys, closing, late>>

Main == \/ LoopTest \/ SimTest \/ SimStep \/ Reached \/ FlagTest \/ DoneTest \/ Join
        \/ StartThread \/ PollReturn \/ ExitJoin
User == KeyS \/ KeyJoint \/ KeyG \/ KeyI \/ CloseWindow

-----------------------------------------------------------------------------
(* The execution thread *)

ThreadGoto(from, to) == xpc = from /\ xpc' = to

Parse == /\ ThreadGoto("parse", "cmd")
         /\ ci' = 1
         /\ UNCHANGED <<flag, done, joinable, mainVars, file, rem, v, err, late>>

\* One turn of ExecuteGCodeStep()'s loop: load the flag and begin the command.
\* A smooth move of no length returns at once, a checked one of none too.
BeginCommand ==
  /\ IF ci > Len(file) \/ flag # 1
     THEN ThreadGoto("cmd", "setdone") /\ UNCHANGED <<ci, rem, v>>
     ELSE LET c == file[ci] IN
          CASE c.kind = "unknown" -> ThreadGoto("cmd", "setdone") /\ UNCHANGED <<ci, rem, v>>
            [] c.kind = "instant" \/ c.n = 0 ->
                 ThreadGoto("cmd", "cmd") /\ ci' = ci + 1 /\ UNCHANGED <<rem, v>>
            [] OTHER ->
                 /\ ThreadGoto("cmd", IF c.kind = "smooth" THEN "smooth" ELSE "load")
                 /\ rem' = c.n /\ v' = 0 /\ UNCHANGED ci
  /\ UNCHANGED <<flag, done, joinable, mainVars, file, err, late>>

\* The thread moves the arm: away from the manual target, if there is one.  The
\* late steps are counted to two: LateMove asks whether there is more than one.
ArmStep ==
  /\ err' \in IF flag = 2 THEN 0..MaxErr ELSE {err}
  /\ late' = IF flag = 1 THEN late
             ELSE [cmds |-> late.cmds \cup {ci}, steps |-> IF late.steps = 0 THEN 1 ELSE 2]

\* Mutant: the loop of a checked move does not load the flag.
CheckedLoad_Never ==
  /\ ThreadGoto("load", IF rem = 0 THEN "cmd" ELSE "move")
  /\ ci' = IF rem = 0 THEN ci + 1 ELSE ci
  /\ UNCHANGED <<flag, done, joinable, mainVars, file, rem, v, err, late>>

\* Mutant: the move pauses in manual mode.
CheckedLoad_Pauses ==
  /\ rem = 0 \/ flag = 1
  /\ ThreadGoto("load", IF rem = 0 THEN "cmd" ELSE "move")
  /\ ci' = IF rem = 0 THEN ci + 1 ELSE ci
  /\ UNCHANGED <<flag, done, joinable, mainVars, file, rem, v, err, late>>

\* moveLinear(), moveArcCW(), moveArcCCW() and dwell() load the flag before
\* each step and return, to the next command, if it is not 1.
CheckedLoad ==
  /\ LET over == rem = 0 \/ flag # 1 IN
       /\ ThreadGoto("load", IF over THEN "cmd" ELSE "move")
       /\ ci' = IF over THEN ci + 1 ELSE ci
  /\ UNCHANGED <<flag, done, joinable, mainVars, file, rem, v, err, late>>

CheckedMove == /\ ThreadGoto("move", "load")
               /\ rem' = rem - 1
               /\ ArmStep
               /\ UNCHANGED <<flag, done, joinable, mainVars, file, ci, v>>

\* moveLinearSmooth() never loads the flag.  Speeds are in units a step, so
\* that the stopping distance v^2 / (2 * decel) compares as below.
Capped(s) == IF s > file[ci].speed THEN file[ci].speed ELSE s
MustBrake(s, d) == s * s >= 2 * Accel * d
Braked(s) == IF s > Accel THEN s - Accel ELSE 0
NextSpeed == LET s == Capped(v + Accel) IN IF MustBrake(s, rem) THEN Braked(s) ELSE s

\* Mutant: the last step is not cut to what remains.
SmoothStep_Uncut ==
  /\ rem > 0
  /\ ThreadGoto("smooth", "smooth")
  /\ v' = NextSpeed
  /\ rem' = rem - v'
  /\ ArmStep
  /\ UNCHANGED <<flag, done, joinable, mainVars, file, ci>>

SmoothStep ==
  /\ rem > 0
  /\ ThreadGoto("smooth", "smooth")
  /\ v' = NextSpeed
  /\ rem' = IF v' > rem THEN 0 ELSE rem - v'
  /\ ArmStep
  /\ UNCHANGED <<flag, done, joinable, mainVars, file, ci>>

SmoothEnd == /\ rem = 0
             /\ ThreadGoto("smooth", "final")
             /\ UNCHANGED <<flag, done, joinable, mainVars, file, ci, rem, v, err, late>>

FinalMove == /\ ThreadGoto("final", "cmd")
             /\ ci' = ci + 1 /\ v' = 0
             /\ ArmStep
             /\ UNCHANGED <<flag, done, joinable, mainVars, file, rem>>

SetDone == /\ ThreadGoto("setdone", "check")
           /\ done' = TRUE
           /\ UNCHANGED <<flag, joinable, mainVars, file, ci, rem, v, err, late>>

\* Mutant: the flag is cleared whatever it is.
CheckFlag_Unasked ==
  /\ ThreadGoto("check", "clear")
  /\ UNCHANGED <<flag, done, joinable, mainVars, file, ci, rem, v, err, late>>

\* if (flag_impl.load() == 1) flag_impl.store(0): a load and a store.
CheckFlag ==
  /\ ThreadGoto("check", IF flag = 1 THEN "clear" ELSE "ended")
  /\ UNCHANGED <<flag, done, joinable, mainVars, file, ci, rem, v, err, late>>

ClearFlag == /\ ThreadGoto("clear", "ended")
             /\ flag' = 0
             /\ UNCHANGED <<done, joinable, mainVars, file, ci, rem, v, err, late>>

Thread == \/ Parse \/ BeginCommand \/ CheckedLoad \/ CheckedMove
          \/ SmoothStep \/ SmoothEnd \/ FinalMove \/ SetDone \/ CheckFlag \/ ClearFlag

-----------------------------------------------------------------------------
RNext == Main \/ User \/ Thread

\* Both threads run; a user need not press anything.
RSpec == RInit /\ [][RNext]_rvars /\ WF_rvars(Main) /\ WF_rvars(Thread)

-----------------------------------------------------------------------------
(* Properties *)

\* The file is executed by one thread at a time: execThread is assigned only
\* when it is not joinable (std::terminate() otherwise), and the join before
\* that never freezes the window for longer than the thread's last test.
OneExecutor ==
  /\ mpc = "start" => ~joinable /\ xpc = "none"
  /\ mpc = "join" => joinable /\ xpc \in {"check", "clear", "ended"}

\* After key I the thread begins no further command, and takes one more step at
\* most of a move that loads the flag.  Only a smooth move goes on to its end.
LateMove ==
  /\ Cardinality(late.cmds) <= 1
  /\ late.steps <= 1 \/ \E i \in late.cmds : file[i].kind = "smooth"

\* A smooth move whose remainder is within the stopping distance of its top
\* speed brakes to a standstill before the end and never gets there.
Stuck == /\ xpc = "smooth" /\ rem > 0 /\ v = 0
         /\ NextSpeed = 0

\* A closed window ends the program, once the file has been executed, except
\* when a smooth move stands still short of its end.
ProgramEnds == closing ~> (mpc = "end" \/ Stuck)

\* Manual mode, with the simulation on and no more keys, arrives at its target,
\* except against a stuck move, which keeps pulling the arm back, and except in
\* two gaps: the thread has seen a G-code flag and is about to clear it, and
\* main() has seen the arm arrive and is about to, while a late step moves it.
ManualArrives ==
  (flag = 2 /\ sim /\ keys = 0 /\ xpc # "clear" /\ mpc # "reached")
    ~> (err = 0 \/ closing \/ Stuck)
=============================================================================
