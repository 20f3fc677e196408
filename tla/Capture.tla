------------------------------ MODULE Capture ------------------------------
(***************************************************************************)
(* The programs of base_cam_img_process/get_frame_by_v4l2 and the camera   *)
(* driver they talk to.  capture_frame.c ("one") saves one frame through   *)
(* one buffer, capture_frame2.c ("many") one through several buffers,      *)
(* capture_two_frames.c ("two") two through one buffer, after skipping     *)
(* three.  The driver (external) writes frames into the buffers queued     *)
(* with it, the program reads a buffer through its own mapping.            *)
(***************************************************************************)
EXTENDS Integers, Sequences, FiniteSets

CONSTANTS MaxBuffers,   \* buffers capture_frame2.c asks for, 4 in the code
          Skipped       \* frames capture_two_frames.c skips, 3 in the code

VARIABLES prog,       \* which program runs
          at,         \* its step, "exit" when it has returned
          turn,       \* rounds of queueing and dequeueing behind it ("two")
          count,      \* buffers the driver has granted
          shape,      \* "vga" (640x480) or the other format the driver has chosen
          mapped,     \* buffers mapped into the program
          streaming, incoming, filled,   \* the driver: its state and its two queues
          filling,                       \* it writes into the first incoming buffer
          frames,     \* frames it has begun
          content,    \* what is in each buffer: the frame, and whether all of it
          held,       \* the buffer DQBUF has returned, 0 if none
          failed,     \* some call has failed
          saved,      \* what the program has copied or converted, in order
          raw         \* the file frame.raw, if there is one

capVars == <<prog, at, turn, count, shape, mapped, streaming, incoming, filled, filling,
             frames, content, held, failed, saved, raw>>
driverVars == <<streaming, incoming, filled, filling, frames, content>>

Nothing == [frame |-> 0, whole |-> FALSE]

\* A file: the frame in it, its format, and how much of it has been written.
RawFile(of, format, part) == <<[of |-> of, shape |-> format, part |-> part]>>
\* What an earlier run may have left.
Old(part) == RawFile([frame |-> 0, whole |-> TRUE], "vga", part)

Init ==
  /\ prog \in {"one", "many", "two"} /\ at = "setup" /\ turn = 0
  /\ count = 0 /\ shape = "vga" /\ mapped = {}
  /\ streaming = FALSE /\ incoming = <<>> /\ filled = <<>> /\ filling = FALSE /\ frames = 0
  /\ content = [b \in 1..MaxBuffers |-> Nothing]
  /\ held = 0 /\ failed = FALSE /\ saved = <<>>
  /\ raw \in {<<>>, Old("none"), Old("some"), Old("all")}

Goto(from, to) == at = from /\ at' = to

\* The process returns: the kernel unmaps its buffers and stops the stream.
Released ==
  /\ mapped' = {} /\ streaming' = FALSE /\ incoming' = <<>> /\ filled' = <<>>
  /\ filling' = FALSE

\* A call fails and the program returns 1, or it uses the NULL that a call has
\* returned and dies.
GiveUp(step) ==
  /\ Goto(step, "exit") /\ failed' = TRUE
  /\ Released
  /\ UNCHANGED <<prog, turn, count, shape, frames, content, held, saved, raw>>

-----------------------------------------------------------------------------
(* Set-up *)

\* open(), QUERYCAP, S_FMT, which may change the format, and REQBUFS, which may
\* grant fewer buffers; capture_frame2.c wants two at least.
Setup ==
  /\ Goto("setup", "map")
  /\ shape' \in {"vga", "other"}
  /\ count' \in IF prog = "many" THEN 2..MaxBuffers ELSE {1}
  /\ UNCHANGED <<prog, turn, mapped, driverVars, held, failed, saved, raw>>

\* QUERYBUF and mmap() of each buffer.
Map ==
  /\ at = "map"
  /\ IF Cardinality(mapped) = count
     THEN at' = "queue" /\ UNCHANGED mapped
     ELSE mapped' = mapped \cup {Cardinality(mapped) + 1} /\ UNCHANGED at
  /\ UNCHANGED <<prog, turn, count, shape, driverVars, held, failed, saved, raw>>

\* QBUF of each buffer.
Queue ==
  /\ at = "queue"
  /\ IF Len(incoming) = count
     THEN at' = "on" /\ UNCHANGED incoming
     ELSE incoming' = Append(incoming, Len(incoming) + 1) /\ UNCHANGED at
  /\ UNCHANGED <<prog, turn, count, shape, mapped, streaming, filled, filling, frames, content,
                 held, failed, saved, raw>>

StreamOn ==
  /\ Goto("on", IF prog = "two" THEN "requeue" ELSE "dequeue")
  /\ streaming' = TRUE
  /\ UNCHANGED <<prog, turn, count, shape, mapped, incoming, filled, filling, frames, content,
                 held, failed, saved, raw>>

SetupFails == \E step \in {"setup", "map", "queue", "on"} : GiveUp(step)

-----------------------------------------------------------------------------
(* Frames *)

\* Mutant: the buffer is read as soon as the stream is on.
Dequeue_NoWait ==
  /\ at = "dequeue" /\ at' = "save" /\ held' = 1
  /\ UNCHANGED <<prog, turn, count, shape, mapped, driverVars, failed, saved, raw>>

AfterDequeue == IF prog # "two" THEN "save" ELSE IF turn < Skipped THEN "requeue" ELSE "save"

\* DQBUF blocks until a buffer is filled.
Dequeue ==
  /\ Goto("dequeue", AfterDequeue)
  /\ filled # <<>>
  /\ held' = Head(filled) /\ filled' = Tail(filled)
  /\ turn' = IF prog = "two" THEN turn + 1 ELSE turn
  /\ UNCHANGED <<prog, count, shape, mapped, streaming, incoming, filling, frames, content,
                 failed, saved, raw>>

\* capture_frame2.c cleans up and returns 0, capture_two_frames.c does not look.
DequeueFails ==
  /\ prog # "one"
  /\ Goto("dequeue", IF prog = "many" THEN "off" ELSE AfterDequeue)
  /\ failed' = TRUE
  /\ turn' = IF prog = "two" THEN turn + 1 ELSE turn
  /\ UNCHANGED <<prog, count, shape, mapped, driverVars, held, saved, raw>>

Mine == IF prog = "many" THEN held ELSE 1

\* capture_frame2.c converts the buffer it holds, capture_two_frames.c copies its
\* only one.
Save ==
  /\ prog # "one"
  /\ Goto("save", IF Len(saved) = 1 THEN "off" ELSE "requeue")
  /\ saved' = Append(saved, content[Mine])
  /\ UNCHANGED <<prog, turn, count, shape, mapped, driverVars, held, failed, raw>>

\* capture_frame.c: fopen() empties frame.raw, whatever is in it.
OpenRaw ==
  /\ prog = "one"
  /\ Goto("save", "write")
  /\ raw' = RawFile(Nothing, shape, "none")
  /\ UNCHANGED <<prog, turn, count, shape, mapped, driverVars, held, failed, saved>>

\* fwrite() and fclose(): nobody looks how much they have written.  The buffer is
\* converted, too.
WriteRaw ==
  /\ Goto("write", "off")
  /\ \E part \in {"none", "some", "all"} : raw' = RawFile(content[1], shape, part)
  /\ saved' = Append(saved, content[1])
  /\ UNCHANGED <<prog, turn, count, shape, mapped, driverVars, held, failed>>

\* fopen() or malloc() returns NULL, and neither capture_frame.c nor
\* capture_two_frames.c looks; or the program is killed while it writes.
SaveFails == prog # "many" /\ \E step \in {"save", "write", "off"} : GiveUp(step)

\* malloc() fails in capture_frame2.c: nothing is converted.
NoMemory ==
  /\ prog = "many"
  /\ Goto("save", "requeue")
  /\ failed' = TRUE
  /\ UNCHANGED <<prog, turn, count, shape, mapped, driverVars, held, saved, raw>>

InDriver == {incoming[i] : i \in DOMAIN incoming} \cup {filled[i] : i \in DOMAIN filled}

\* QBUF of a buffer that is with the driver already is refused; the first round
\* of capture_two_frames.c does that, and no round looks.
Requeue ==
  /\ Goto("requeue", IF prog = "two" THEN "dequeue" ELSE "off")
  /\ incoming' = IF Mine \in InDriver THEN incoming ELSE Append(incoming, Mine)
  /\ UNCHANGED <<prog, turn, count, shape, mapped, streaming, filled, filling, frames, content,
                 held, failed, saved, raw>>

\* Refused for another reason: capture_frame2.c cleans up.
RequeueFails ==
  /\ Goto("requeue", IF prog = "two" THEN "dequeue" ELSE "off")
  /\ failed' = TRUE
  /\ UNCHANGED <<prog, turn, count, shape, mapped, driverVars, held, saved, raw>>

\* STREAMOFF, munmap() and close(), whether STREAMOFF succeeds or not.
CleanUp ==
  /\ Goto("off", "exit")
  /\ Released
  /\ UNCHANGED <<prog, turn, count, shape, frames, content, held, failed, saved, raw>>

Program == \/ Setup \/ Map \/ Queue \/ StreamOn \/ SetupFails
           \/ Dequeue \/ DequeueFails \/ (prog = "one" /\ GiveUp("dequeue"))
           \/ Save \/ OpenRaw \/ WriteRaw \/ SaveFails \/ NoMemory
           \/ Requeue \/ RequeueFails \/ CleanUp

-----------------------------------------------------------------------------
(* The driver *)

BeginFrame ==
  /\ streaming /\ ~filling /\ incoming # <<>>
  /\ filling' = TRUE /\ frames' = frames + 1
  /\ content' = [content EXCEPT ![Head(incoming)] = [frame |-> frames + 1, whole |-> FALSE]]
  /\ UNCHANGED <<prog, at, turn, count, shape, mapped, streaming, incoming, filled, held,
                 failed, saved, raw>>

EndFrame ==
  /\ filling
  /\ filling' = FALSE
  /\ content' = [content EXCEPT ![Head(incoming)].whole = TRUE]
  /\ filled' = Append(filled, Head(incoming)) /\ incoming' = Tail(incoming)
  /\ UNCHANGED <<prog, at, turn, count, shape, mapped, streaming, frames, held, failed,
                 saved, raw>>

Driver == BeginFrame \/ EndFrame

Next == Program \/ Driver

-----------------------------------------------------------------------------
\* A saved frame is a whole one, and the two of capture_two_frames.c are not the
\* same one twice, out of order or among the skipped; that program promises this
\* as long as no call fails, the others even then.
SavedIsWhole ==
  prog # "two" \/ ~failed =>
    /\ \A i \in DOMAIN saved : saved[i].whole
    /\ \A i, j \in DOMAIN saved : i < j => saved[i].frame < saved[j].frame
    /\ prog = "two" => \A i \in DOMAIN saved : saved[i].frame > Skipped
=============================================================================
