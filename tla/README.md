# c_driver_stream: models, checks and proofs

TLA+ models of the concurrent and communicating programs of the repository
`c_driver_stream`, the TLC configurations that check them on small instances, and
TLAPS proofs of the properties that matter most. All paths below are relative to the
repository's root.

The modules are translated from the source, definition by definition; `PROJECT.json`
maps each one to the lines it stands for.

    tlc -workers 2 -config QueuePad.cfg MCQueuePad      # check one instance
    tlapm ThreadProofs.tla                              # check the proofs

## The system

The repository is a collection of programs, most of them small. These have state
that several threads or processes share:

| component | source | state | operations | hard because |
|---|---|---|---|---|
| QueuePad | `pipeline_and_plugin_system/lib_v1.0.0/core/component/queue_pad` | queue, mutex, condition variable, `running`, `next` | `push`, `run` (worker), `set_next`, destructor | wake-ups, stop flag written without the mutex |
| Pipeline, elements, plugins | `lib_v1.0.0/core`, `plugins`, `plugin_test`, `app/main.cpp` | elements, links, one worker per QueuePad | build, `init`/`link`, `push_frame`, `stop`, `shutdown`, destruction | frames change threads; objects die under running workers |
| PluginRegistry | `lib_v1.0.0/core/plugin_registry.cpp` | names to library handles | `scan`, `create`, destructor | duplicates, unknown names, libraries closed under live objects |
| Smart file description | `helper_cpp_v0.0.1/smart_file_description` | lock-free table of reference counts, a mutex per slot | construct, wrap, copy, move, `reset`, `lock` | atomics one at a time, linear probing, reuse of numbers |
| Shared memory channels | `sharememory_POSIX/2_full_duplex` | two ring buffers, six semaphores | `channel_init/send/recv`, processes A and B | two processes, wrap-around, restart |
| Chat server | `socket_UNIX/sample/3_chat_server_multi_client` | table of descriptors, mutex, a thread per client | accept, forward, stop | shared argument, reuse of descriptors, clients that leave |
| Publisher and subscribers | `pipe_POSIX/c/3_mpa_request_control` | subscriber list, FIFOs, data file | register, acknowledge, notify, unregister | retries, concatenated requests, blocking opens, SIGPIPE |
| Robot simulator | `robot2dof/initSimp/src` | control flag, execution thread, the arm | key callbacks, main loop, G-code executor | flag and `thread_done` are two atomics, loaded and stored one at a time |
| Imaging | `h264_learning/base`, `base_cam_img_process` | Huffman tree and file, driver queues, `frame.raw`, PNG files | encode, decode, capture, convert, save | queue of nodes, a driver that writes into shared buffers, failing calls, stored blocks of limited length |
| Pipeline prototype | `pipeline_and_plugin_system/1_Buffer_ElementsInterface` | first draft of the engine | as above | superseded |
| Samples | other `pipe_POSIX`, `socket_UNIX`, `sharememory_POSIX/1_base` | - | one system call after the other | - |
| Numeric and display code | `helper_DSA`, `math_*`, `bitwise_perf`, `cpp_modern_embedded`, `pj_Test`, `graphic`, the rest of `h264_learning`, ... | - | sequential computation | - |

`third_party`, `gtest-system`, the vendored parser under `math_matplotlib`, the
vendored loaders `glad` and `stb_image.h`, editor set-ups and notes are not part of
the system.

In the engine the application builds a Pipeline from a configuration with elements
that the PluginRegistry creates; each element owns pads; a QueuePad hands frames
from one thread to the next. `capture_frame.c` leaves the file `frame.raw` from
which `rgb2pngNocompress.c` makes two PNG files, and the JPEG encoder leaves
`output.huff` for its decoder. The other programs stand alone.

What makes each component correct:

* **QueuePad**: a FIFO that loses, duplicates and reorders nothing; the worker never
  sleeps over work; the destructor returns and leaves no thread behind.
* **Pipeline**: every frame reaches the sink once, in order and processed by every
  filter; a worker never touches an object that is being or has been destroyed; the
  program ends.
* **PluginRegistry**: the code of an element stays mapped as long as the element
  lives, and every library that is in use is closed in the end.
* **Smart file description**: a descriptor is closed exactly when its last handle is
  gone; sessions on one descriptor exclude each other.
* **Channels**: a bounded FIFO with atomic operations, across wrap-around; the two
  processes stay in step and end.
* **Chat server**: one handler per client, a table that lists who is connected, and
  everybody hears everybody else, once and in order.
* **Publisher and subscribers**: who was acknowledged is listed, once, until it asks
  to be removed; a woken subscriber finds its line; everybody ends.
* **Robot**: one execution of the file at a time; after the user takes over, the
  thread gives up the arm; a manual target is reached; a closed window ends the
  program.
* **Imaging**: what is encoded can be decoded, in the shortest prefix code; a saved
  frame is a whole one; a finished PNG file shows as much of it as has been written.

## Modules

| module | models | used by |
|---|---|---|
| `BufferFifo` | what a pad promises: accept, pass on, drop, shut | `QueuePad` (refinement) |
| `QueuePad` | the pad, one step between two points at which threads can see each other | `MCQueuePad`, `ThreadProofs` |
| `Pipeline` | a whole run of the application | `MCPipeline`, `PipelineProofs` |
| `PipelineProofs` | theorems about `Pipeline` | |
| `SharedDescriptor` | what shared ownership promises | `FdRegistry` (refinement) |
| `FdRegistry` | handles, the lock-free registry, sessions | `MCFdRegistry`, `FdRegistryProofs` |
| `FdRegistryProofs` | theorems about `FdRegistry` | |
| `BoundedFifo` | a bounded FIFO with atomic put and get | `Channel` (refinement) |
| `Channel` | one channel, one semaphore operation at a time | `MCChannel`, `ChannelProofs`, `FullDuplex` (two instances) |
| `ChannelProofs` | theorems about `Channel`, that it implements `BoundedFifo` among them | |
| `FullDuplex` | processes A and B on two channels, interruption and restart of A | `MCFullDuplex`, `FullDuplexProofs` |
| `FullDuplexProofs` | theorems about `FullDuplex` | |
| `ChatServer` | accept loop, handler threads, clients | `MCChatServer`, `ChatServerProofs` |
| `ChatServerProofs` | theorems about `ChatServer` | |
| `MpaPubSub` | publisher, subscribers, their FIFOs | `MCMpaPubSub`, `MpaPubSubProofs` |
| `MpaPubSubProofs` | theorems about `MpaPubSub` | |
| `RobotApp` | main loop, keys and execution thread of the robot | `MCRobotApp`, `ThreadProofs` |
| `ThreadProofs` | theorems about `QueuePad` and `RobotApp` | |
| `JpegHuffman` | zigzag scan, run lengths, Huffman tree, encoder, decoder | `Imaging` |
| `Capture` | the three capture programs and the camera driver | `Imaging` |
| `PngWriter` | checksums, stored blocks and chunks of the two PNG files | `Imaging` |
| `Imaging` | the three above composed: `frame.raw` is what they share | `MCImaging`, `ImagingProofs` |
| `ImagingProofs` | theorems about `Imaging` | |

Definitions named `X_Something` below a comment "Mutant:" are not part of a model:
each is a plausible bug in `X` that the run must catch.

### QueuePad

`pc` and `arg` are the producers in `push()`, `wpc` and `hand` the worker in
`run()`, `opc` the owner. The condition variable is the wait set, here one Boolean,
`inWait`, because only the worker waits. `RunEval` evaluates the predicate of
`cv.wait()` and `RunBlock` enters the wait: between the two the mutex is held, but
the destructor writes `running` and notifies without it. `SpuriousWakeup` may come
at any time. `pushed`, `dropped` and `delivered` are histories that the properties
relate; `dropped` are the buffers popped while `next` was empty.

Callers respect the object's lifetime (no `push()` during the destructor); that they
do is a matter of `Pipeline`. `set_next()` does not run while the worker calls
`next`: in the code it runs in `init()`, before the first frame.

### Pipeline

`main()` begins with `PluginRegistry::scan()`, one file of the directory (`dir`) per
step: a file that is no library, or has no `create()`, leaves nothing behind; a type
that is there already is overwritten, and the library it came from stays open
(`libs`). `~PluginRegistry()`, which closes the libraries in `plugins`, comes last,
after the pipeline is destroyed: `LibrariesOutliveElements` says that nothing lives
then, and its mutant destroys the registry first.

A frame hops from pad to pad, in the thread of the QueuePad that popped it last.
`EnterPad` and `EnterElement` are the hops; they die of a null pad (`null_deref`), a
pad or element that is freed (`use_after_free`), or a virtual call into an element
whose derived part is gone (`pure_virtual`), which is what the vtable of `Element`
holds then. `main()` is `mpc`: build, init with linking, push, sleep, stop,
shutdown, then per element the derived destructor, the sink pad and the src pad (the
members in reverse order of their declaration, `element.hpp:32-33`). `drains` says
whether the sleep of `main()` outlasts the work. Chains in `Reversed` live in local
variables and die from the last to the first, as in the second `main()` of
`app/main.cpp`. Both macros that select a `main()` are undefined names, so that
`#if` compares 0 with 0 and the first one is what is built; the second one is
modelled as it is written. A queue is the FIFO that `QueuePad` is shown to be, flaw
included. Between the test of a worker's predicate and its sleep lies the gap of
`DtorReturns`: when `StopPad` comes to a worker that waits with an empty queue, the
worker hears of it or has missed it (`missed`), and which of the two is open. A
worker that has missed it does not leave (`WorkerQuit`) unless a spurious wake-up
comes (`WorkerStirs`), which nothing obliges to come. Only the destructor's notify
can be lost: `push()` stores under the mutex. `MainEnds` excepts the state in which
`main()` is in the `join()` of such a worker (`StuckInGap`) by name, and says that it
is the only one: with frames in flight, with queues that are abandoned, and in any
chain, every other join finds its worker on the way out.

A finding without a run: `app/main.cpp:49` sleeps "for close all thread before
shutdown", but no element overrides `stop()` and every worker is still running when
`shutdown()` is called; the threads end in the destructors of their pads. Two more
about `scan()`: when a second library names a type that is there already, the first
handle is never closed; and the element it creates to ask for the name starts and
stops the worker of its QueuePad, so that the lost notification of `QueuePad` can
hang the program there as well.

### FdRegistry

A slot is the pair of atomics; an action is one of them, a system call, or an
operation on a mutex. Threads run one operation at a time (`th`); a handle is not
changed while another thread uses it, and a thread that holds a session begins no
other operation. The atomics are taken as sequentially consistent, although many are
relaxed. `use_count()` is not modelled: it loads with `memory_order_acq_rel`, which
C++ does not allow for a load. A conversion from `UniqueFileDescription` hands over
an open descriptor to `retain()` and is `Open`. Assignment operators are `reset()`
followed by a copy or a move and appear as these.

The registry is correct only within limits, which the constants name: `CopyFds` are
descriptors whose handles are copied, `WrapsRace` allows two threads to wrap one
number at once, and there are no more descriptors than slots. The run
`fd_registry_hole` exhibits what happens outside the first. Two findings are without
a run. With `WrapsRace` TRUE, TLC finds `CountIsExact` violated: the thread that has
claimed a slot stores the count 1 afterwards and overwrites the increment of a
second one (`sfd_static_registry.h:93-100`). With more descriptors than slots
`retain()` registers nothing and returns nothing that would say so (line 103): the
descriptor is never closed.

### Channel and FullDuplex

`ch` is the `channel_t` in shared memory, `op` each process's progress in its call.
`w` and `r` wrap at `Width` (2^32 in the code), the buffer index is their remainder;
the assumption `Width % BufSize = 0` holds for 2^32 and 256 and
`CountMatchesSemaphores` needs it. `FullDuplex` instantiates the channel twice.
`Kill` and `Restart` are a user's; a restarted A runs `channel_init()` again.
`sem_init()` on a semaphore somebody sleeps on is undefined: B may stay asleep for
ever (`ForgetB`). The comment at `process_a.c:19` says "Init ONLY ONCE"; the
initialisation runs at every start of A, under a B that may be at work, and
`RepliesMatch` and `BothEnd` except the runs in which that happens (`disturbed`).

### ChatServer

Connections are numbered in the order `accept()` returns them. `conn` is the
kernel's table: the lowest free number is used next, so that a number closed by a
handler returns before its entry is removed from `clients` (`doubled`). A handler
blocked in `recv()` keeps the connection it entered with (`sock`). A message is two
pieces, and `RecvReturn` takes any beginning of what has come: several messages at
once, or a part of one, as `recv()` does with its 1023 bytes and as a stream may
deliver it. "stop chat" behind another message, or cut in two, is forwarded as text.
Each `send()` is a step, since clients leave, and handlers close
descriptors, without the lock; a critical section that only touches the table is one
action. A client that hangs up keeps its entry and its descriptor; the first
`send()` to it provokes a reset, a later one SIGPIPE (`fault`).

`main()` passes `&new_socket` to each handler, and nothing keeps the next `accept()`
from overwriting it before the handler has read it. `rushed` records that this has
happened. `OneHandlerEach` does not survive it (`chat_server_rush`), and
`OneHandlerUnlessRushed` says that nothing else breaks it; the other properties make
no claim about what comes after it either. With the constant `Overtakes` FALSE TLC
leaves those behaviours out, which the properties say nothing about; the theorems
are about all behaviours and have no such hypothesis.

What the model shows beside its properties: with an entry listed twice a client
hears a message twice (the reason for `~doubled` in `HeardOnceInOrder`), and the
table has no bound check (`fault = "overflow"`).

### MpaPubSub

`pub` and `sub` are program counters with the variables of their loops; which end of
which FIFO a process holds open follows from them (`PubReads`, `Reading`,
`HeldByPub`). `open()` of a FIFO for writing waits for a reader; the last `close()`
discards what is in it (`CtlClosed`); a `write()` without a reader is SIGPIPE
(`dead`, `killed`). `req` is the request FIFO, read as a whole and parsed up to the
first line. Of the messages in a control FIFO only the first matters, since each
`read()` of a subscriber takes more than the few bytes that wait.

`calm` is chosen at the start of a behaviour. In calm behaviours the clocks are
kind: the acknowledgement, if one comes, beats the timeout; subscribers react within
the publisher's `sleep(1)`; nobody closes a FIFO between the publisher's `open()`
and `write()`, which are adjacent. The first is close in the code: the timeout is
1000 ms (the comment at `mpa_sub_full.c:49` says 5000) and the publisher's round a
little more. In the other behaviours timers and races are arbitrary: subscribers are
listed twice, the publisher dies of SIGPIPE or waits for ever in `open()` for one
that has given up. That an acknowledged subscriber is listed (`RegisteredIsListed`,
first part) holds in all of them.

A finding without a run: each round of the publisher reads once and parses the first
line only (`mpa_pub_full.c:38`). When two subscribers ask to be removed between two
reads, the second request is lost with the rest of the buffer, the table never
becomes empty and the publisher goes on for ever.

### RobotApp

One action is one load or store of `flag_impl` (`flag`), `thread_done` (`done`) or
the arm; `joinable` and `sim` belong to the main loop. `mpc` is the main loop, `xpc`
the execution thread. The keys arrive in `PollEvents()`, so only at `mpc = "poll"`.
The arm is kept as `err`, the number of simulation steps to the manual target; a
step of the thread in manual mode changes it to any value. A command is of one of
four kinds: `checked` moves load the flag before each step, `smooth` ones (G0, G1)
never do, `instant` ones only set a mode, and an unknown code ends the execution.
`v` and `rem` are the speed and the remaining way of a smooth move, in integers,
with the code's acceleration, cap, braking distance and cut. `late` is a history:
the steps the thread has taken since the last key I, and in which commands.
`ThreadProofs` extends this module and `QueuePad`, hence the names `RInit`, `RNext`,
`RSpec`, `RTypeOK` and `rvars`.

What the model shows beside its properties, and why they have their exceptions:

* A smooth move whose remainder is within the stopping distance of its top speed
  brakes to a standstill, and its loop then waits for ever for the remainder to
  shrink (`Stuck`). The thread does not end, and the join at the exit of `main()`
  neither: hence `~Stuck` in `ProgramEnds`.
* The comment at `application.h:12` says "1: gcode; 2: manual"; a smooth move, which
  does not load the flag, moves the arm in manual mode to its end (`LateMove`).
* `if(flag_impl.load() == 1) { flag_impl.store(0); }` (`application.cpp:116`) is a
  load and a store: key I in between is lost. Likewise a late step between the
  arrival test and `flag_impl.store(0)` (lines 97-98) leaves the arm away from its
  target. `ManualArrives` excepts both. Key G in the first gap is lost too.

### Imaging

A behaviour of `Imaging` runs one program, chosen by `prog`: a JPEG exercise, or a
capture program, and after `capture_frame.c` the PNG writer. The three modules are
instantiated; variables of programs that do not run are empty.

`JpegHuffman`: an image is the sequence of its quantised blocks. The encoder's two
passes go block by block, its tree is built from the sorted queue (`hq`) one pair of
nodes a step, as in `huffmanBase.c` with its unsorted one; the decoder reads the
lines of the code book into its `trie` and then the stream, one character a step.
The encoder may be interrupted, and the file is then what it has written.
The loops over a block (`Runs`, `runLengthEncode`), over its pairs (`CountPairs`) and
over the table (`Push`) are recursive functions of the value they have come to.
`RoundTrip` compares the decoded blocks with the image and the rows of step 3 with
theirs; `OptimalCode` compares the codes with every assignment of lengths that obeys
Kraft's inequality, which is the reference definition.

`Capture`: the driver is external and has two queues; it fills the first incoming
buffer in two steps, so that a program that does not wait would read half a frame.
Every call may fail; each program then does what it does: ends, cleans up, or does
not look. `S_FMT` may change the format and `REQBUFS` grant fewer buffers.
`SavedIsWhole` states the promise of each.

`frame.raw` is a record: the frame in it, its format, and whether none, some or all
of it has been written. At the start it may be absent, or left by an earlier run in
each of these states. `capture_frame.c` saves in steps: `fopen()` empties the file
(`OpenRaw`), `fwrite()` and `fclose()` write nothing, a part or all of the frame and
nobody looks (`WriteRaw`); `fopen()` and `malloc()` may return NULL, which kills the
program at its next use, or it is killed in between (`SaveFails`).

`PngWriter`: a word of the checksum is the set of its bits, so that xor and shift
are set operations. `crc_table` and `update_crc` are checked against the bit-by-bit
definition by a reader of PNG files, which also undoes the stored blocks, one after
the other (`ReadBlock`, `Inflate`); `PngHoldsFrame` says what it finds. The reader is
a lenient one: a zlib stream ends with an Adler-32 of its data, which the code never
writes, and this reader takes the stream to end with its last block. A strict one
refuses every file. `fopen()` and `malloc()` may fail, and `fwrite()` may fail unseen:
a file then has its first chunks only (`Written`), and with no `frame.raw`, or none
that can be opened, none is written (`ReadFails`).

`PngShowsFrame` is about the two programs one after the other. `rgb2pngNocompress.c`
does not look how much it has read: the pixels that are not in `frame.raw` are those
that `malloc()` has put into its buffer (`Begun`, `Converted`). A finished
`output.png` shows the saved frame from its first pixel on, as far as it has reached
the file, and behind it what was in the buffer; all of it only if all of it was
written. If nothing was saved it is the frame of an earlier run, or none.

What the models show beside their properties:

* An image of equal blocks that are one run each has one pair, whose code is empty:
  the decoder rejects the file ("bad S line", `decode.c:79`). `RoundTrip` excepts
  it.
* The run lengths of step 3 skip the DC value, although the example in its `doc.md`
  begins with one, and the program takes the header of a PGM file for pixels
  (`jpeg_step3_rle.c:144-146`).
* `save_png1` writes one block whatever its length, and the length modulo 65536,
  where the comment at line 328 says "followed by LEN bytes data": at 640 by 480
  `output1.png` is corrupt. Neither file has the Adler-32 checksum that ends a zlib
  stream, so that neither is a valid PNG file. A failed save is reported as "Saved".
* `capture_frame2.c` returns 0 without a file when DQBUF fails.
  `capture_two_frames.c` does not look at the results of QBUF and DQBUF (185-199)
  and then saves what its buffer holds, whole or not. `rgb2pngNocompress.c` takes
  `frame.raw` for 640 by 480 whatever the driver has chosen, and for whole whatever
  `capture_frame.c` has managed to write.

## Runs

| run | instance | result |
|---|---|---|
| `queue_pad` | two producers, three buffers | all properties hold |
| `queue_pad_dtor` | same | `DtorReturns` violated: the destructor hangs |
| `pipeline` | ten chains of up to four elements, two plugin directories, three frames, with and without a draining sleep, with and without a lost notification | all properties hold |
| `fd_registry` | three threads, three handles, three descriptors, four slots | all properties hold |
| `fd_registry_hole` | one thread, three handles, two descriptors with one home, copied | `NeverClosedWhileOwned` violated |
| `channel` | two senders, two receivers, two cells, counters modulo 4 | all properties hold |
| `full_duplex` | letters a to e, two cells, counters modulo 4, A started up to twice | all properties hold |
| `chat_server` | three connections, a message and each one's "stop chat", `recv()` cutting anywhere, each handler starts before the next accept returns | all properties hold |
| `chat_server_rush` | the same without that order | `OneHandlerEach` violated |
| `mpa_pub_sub` | two subscribers, two retries, two updates, a table of two, calm or not | all properties hold |
| `robot` | five G-code files, four keys, two simulation steps to a target | all properties hold |
| `imaging` | 32 images of five blocks, four frequency tables, three buffers, three skipped frames, five picture sizes, four states of an old `frame.raw` | all properties hold |

The violations are disagreements between the code and what its comments, tests or
predicates say; `PROJECT.json` lists them with the lines.

**Bounds.** Two producers and one worker give every interleaving of a notification
with the wait; three buffers let one be delivered, one be in hand and one be queued.
Four elements put a QueuePad before and after a SimplePad and a queue behind a
filter; three frames fill every queue of the chain at once. Three handles on one
slot and two on colliding ones are what a lost count, a wrong close or a contested
claim needs; the violations appear with fewer. Counters modulo 4 with two cells wrap
around several times in a run. Three connections let one stop, one reuse its number
and one talk to both. One message and a "stop chat" that is forwarded because it was
cut, two pieces each, give four pieces of one sender to keep in order, and every way
to cut and to join them. Two subscribers are what
concatenated requests need; with retries two entries are also too few for them, so
that the table is full. Two retries stand for five and two updates for ten: one more
of either repeats a loop whose every interleaving with the publisher's round has
been seen.

One plugin directory has every plugin once, the other lacks one and has files that
are no plugins and a second library of one type. Four keys are G, I, S and one more,
so that each can interrupt what the others began, and a second execution can follow
the first; the files have checked moves behind each other, a smooth move that
arrives and one that does not, a move of no length, an unknown command, and nothing.
The five blocks have from one run to four, and images of up to three blocks share
pairs; there are tables with equal and with unlike frequencies, and one with a
single symbol. With `LenBase` 3 a stored block holds 8 bytes, and the sizes give
less than one block, exactly one, exactly two, and more; in the code the base is
256, and two digits of it are written in the same way.

**Symmetry** is not used: most runs check liveness.

**Deadlock** is checked in `fd_registry` and `channel`, where some operation can
always be started. The other systems may stop: nobody has to push, the program has
ended or died, the window is closed, B sleeps for ever, no client says anything
more, the publisher has ended.

**Fairness.** Always weak fairness of a thread's own steps: the kernel keeps
scheduling it. `Imaging` claims no liveness and has none. Nothing obliges a caller
to call, a client to talk, a spurious wake-up to come, or a user to press a key,
close the window or restart a process. A mutex needs no more than weak fairness
where its holders are finitely many (a bounded number of buffers, letters or
messages, or keys), and no liveness is claimed where they are not (sessions of
`FdRegistry`, processes of `Channel`).

## Proofs

`ThreadProofs` proves, for every set of producers and buffers, that each safety
property of the pad is an invariant of `Spec`. None of them is inductive alone. The
invariant

    IInv == TypeOK /\ Bookkeeping /\ MutexOwner /\ FrontIsDefined /\ NoMissedPush

adds `Bookkeeping`: what the program counters say of the wait set, of the worker's
hand and of `running`. `FrontIsDefined`, for instance, needs that the predicate was
evaluated under a mutex that the worker still holds, and `NoMissedPush` that a
producer with the mutex cannot be between the worker's predicate and its wait. The
invariance proof has one lemma per conjunct and in it one step per action.
`FifoOrder` is proved next to it: its step uses the invariant only to know that the
worker pops a non-empty queue, and otherwise the laws of concatenation.
`IsBufferFifo` proves the safety half of the refinement that the run checks: the
initial state maps to an initial state of `BufferFifo` and every step to one of its
steps or to none; the fairness of `BufferFifo` is left to TLC.

`PipelineProofs` proves the four safety properties of the application for pipelines
of any length, any plugin directory and any number of frames, from

    IInv == /\ TypeOK /\ Structure /\ Joined /\ Queues /\ Calls /\ Faults
            /\ Ordered /\ Conserved /\ Inversions

`Structure` says what is loaded, built, initialised and already destroyed at each
place of `main()`. The argument for `NeverDangles` is in `Joined` and `Calls`: a pad
is freed after its worker has been joined, and a call under way goes only
downstream, up to the next queue; the elements die in that order, so that who could
still call the one that dies next has been joined before. A chain in `Reversed` dies
the other way round, and there the property says nothing. `NoFaultIfWellFormed`
needs that all frames are through when the sleep ends: `Conserved` counts them,
`Faults` says that none is held any more. For the order, pads and elements are
numbered along the chain, three stages per element. `Ordered` says that the frames a
queue and its worker hold are earlier than those that are held upstream, and that
the worker's is earlier than those in its queue. `Inversions` counts the filters
that a frame has passed by the cardinality of a set.

`FdRegistryProofs` proves the registry right for any number of threads, handles and
descriptors, under the hypothesis `Roomy`: two threads do not wrap one number at
once, descriptors with shared handles do not collide with others, and where others
do, they are two and the next slot is nobody's home. The part about collisions holds
whenever all numbers are below `MaxSlots`, and the whole in the instance that the
run `fd_registry` checks, which has a collision. That it cannot be left out is what
`fd_registry_hole` and the finding about `WrapsRace` show. The invariant has two
halves,

    Handled == Frames /\ Exclusive /\ Held /\ FirstAlone /\ Solitary
    Tabled == Placed /\ (\A t \in Threads : Path(t)) /\ NoClash /\ Registered /\ Counted
    IInv == TypeOK /\ Handled /\ Tabled

The first is about handles: at most one thread works on a handle, what it holds is
open, and who registers a number for the first time is alone with it. The second is
about the table: a number stands only in its home or in the next slot (`Placed`), a
probe has seen what it has passed (`Path`), no two threads climb for colliding
numbers (`NoClash`). `Counted` is `CountIsExact` made inductive: counted are the
handles that are neither under construction nor given up, a set whose cardinality a
step changes by one. `SessionsExclude` follows since a slot stays the descriptor's
while a handle owns it, so that both sessions have locked the same mutex.
`IsSharedDescriptor` is the safety half of the refinement
`ImplementsSharedDescriptor`.

`ChannelProofs` proves for every number of processes, buffer size and width that the
mutex is binary, cells are conserved (free, full, or in the hands of a process at a
known point of its call) and `w - r` follows the semaphores modulo the width. The
invariant counts processes by their place in a call; lemmas say how a count changes
when one process moves. On top of it the module proves that the channel implements
`BoundedFifo`. The contents of the abstract FIFO are the cells from `r` to `w`, and
the counters wrap; what makes that right is a fact about remainders: positions less
than `BufSize` apart have different cells, also across the wrap, because `BufSize`
divides `Width`. The abstract put and get happen where the cell is written and read,
in the critical section, and a cell that is full is not written because the
semaphores leave `w - r` below `BufSize` there.

`FullDuplexProofs` proves for any alphabet, buffer size, width and number of
interruptions that replies match their letters and that nobody waits for a free
cell, both as long as A is not started again under a running B. The invariant is

    IInv == TypeOK /\ Synchrony

and `Synchrony` says that one letter is under way. `OneLetter` describes a channel
with at most one letter on it, as a function of where its sender and its receiver
are in their calls, and `Moment` who has the letter: it is in the channel to B or in
B's call, with B, or in the channel to A or in A's call. An interrupted A can stop
anywhere, also with a mutex in hand; `Frozen` says that there is a place, a letter
and two calls of A that explain what it has left behind, and the steps of B preserve
that for every such place. Hence B's half of `NeverWaitsForSpace` holds in front of
a dead A too. The steps on the channels are those of `Channel`, first brought to the
form of `Sends` and `Receives`, which say field by field what changes.

`ChatServerProofs` proves for any number of clients, table and messages that each
connected client has one handler, that the table is exact and that nobody hears
itself, or another client twice or out of order, in every behaviour up to the first
`accept()` that overtakes the start of a handler. The invariant is `~rushed => IInv`
with

    Inside == TypeOK /\ Arrivals /\ Connected /\ Locked /\ TableMatches /\ Listing
    IInv == Inside /\ Talk /\ OrderlyHearing

`main()` has at most one connection in hand that has no handler or whose handler has
not read its argument (`Arrivals`); a thread that serves has the number of its own
connection (`Connected`); the table stays as it is while a thread sends (`Locked`).
`TableMatches` counts places in a sequence, and the lemma about `TakeOut` says how
the count changes when the last entry moves to the place of the one removed. `Talk`
orders the pieces of messages: those in the inbox of a handler come after those in
its hand, and both after what has been heard by whoever is yet to be sent the chunk.
There is no hypothesis about the threads. `RushedStays` says that an early `accept()`
is not forgotten, so that each step of the proof begins where none has been. Type
correctness holds in the other behaviours, too: `Typed` asks of a handler only that
it has a descriptor of its own choice to read from, whoever else reads from it.

`MpaPubSubProofs` proves for every set of subscribers, table length and bounds that
`RegisteredIsListed` and `SeesWholeLine` hold. The invariant is

    IInv == TypeOK /\ Counts /\ Listed /\ AsksOnce /\ Lines

`Listed` carries the first property back to its causes: an OK that waits in a
control FIFO belongs to a listed subscriber, and a request to be removed comes only
from one that leaves. `AsksOnce` is what kind clocks give: a subscriber that has a
request under way is not listed, so that the table has no entry twice. `Lines` says
that between the publisher's sleep and its next notification nobody is on the way to
the data file, so that nobody reads it while it is truncated. Removing an entry
shifts the table; the lemmas on sequences say what stays in it.

`ThreadProofs` proves about the robot, for every set of files and all bounds, that
one thread executes the file at a time and that at most one command moves the arm
late. `ExecInv` ties `done` and `joinable` to the place of the thread, `MoveInv` its
kind of move to the command, and `LateInv` says which late steps there can be at
which place.

`ImagingProofs` proves that a saved frame is a whole one, for any number of buffers
and of frames skipped, and that the lenient reader finds in a finished `output.png`
as much of it as has reached `frame.raw`, whatever call has failed, for images of any
size and stored blocks of any length. The invariants are

    CameraInv == /\ prog \in {"one", "many", "two"}
                 /\ CameraTypes /\ DriverInv /\ SetupInv /\ HeldInv /\ TwoInv /\ SavedInv
    ShowInv == prog = "one" => CameraInv /\ FileInv /\ WriterInv

`DriverInv` is the argument for the first: a buffer is with the program, in one
queue of the driver or in the other, never in two of them, and what is in it is
whole unless the driver is filling it. `TwoInv` counts the frames that
`capture_two_frames.c` has seen. `FileInv` says what `frame.raw` can be: once a frame
is saved, a part of that frame, and before that nothing, an old frame or a part of
one, or an empty file. `WriterInv` says that the image in memory is one conversion of
that file (`Made`), and that the PNG files are beginnings of what is made of it.

What a reader finds in a finished file is a matter of four lemmas about the
operators of `PngWriter`, each for every input. `TableComputesCrc`: the checksum with
the table is the one bit by bit, because a round is linear, so that eight rounds on
the low byte, which the table has done beforehand, can be added to the rest.
`BlocksInflate`: each block says how long it is in two digits of base `LenBase`, the
reader is at the head of a block before each of its rounds, and the pieces put
together are the data. `LinesMakeThePicture`: the bytes behind the filter byte of each
line are the image. `FileShowsPicture` puts them together. Sums, folds and
concatenations are recursive functions, and what is said of them is proved by
induction on the set of numbers for which it holds (`Induction`, `InductionTo`, from
the library's fact that the order of the natural numbers is well-founded).

`DecodesWhatItEncodes` proves `RoundTrip` for any images and however many pairs they
have. The invariant has a part for each exercise,

    JpegInv == /\ prog = "pipe" => PipeInv /\ csv = <<>>
               /\ prog = "csv" => CsvInv
               /\ prog = "base" => BaseInv
    PipeInv == ... /\ Counted /\ Written /\ Decoder

`Counted` is about the pairs: those of every block counted so far are in the table
(`Known`); the nodes in the queue have different leaves and between them all of them
(`Forest`, `Cover`), and no path of a node begins another (`Apart`), so that the
codes are prefix-free, which `NoCodeBeginsAnother` states for `huffmanBase.c` too.
`Written` is about the file: there are places `off` at which the blocks end, and in
each block places at which its codes end (`Placed`), where the stream has the bits
of the code as far as the stream goes; an interrupted encoder leaves a beginning of
it. `Decoder` says that the trie has the codes of the lines read (`TrieOf`). The
decoder is inside one code of one block (`AtCode`): its path is a beginning of that
code, its values are those of the runs before it. Where the code ends, prefix-freeness
says that the leaf in the trie is its own, and 64 values end the block and not
before, because the runs add up to 64 (`Ends`). `RunsMakeTheBlock`, `Unzigzag` and
`RowsOfBlock` are the lemmas about the pure operators.

The assumptions are those the modules name (`WorkerAssumption`,
`NoThreadAssumption`, `NFramesAssumption`, `ChainsAssumption`,
`DirectoriesAssumption`, `ReversedAssumption`, `SlotsAssumption`,
`CountModAssumption`, `HandlesAssumption`, `BufSizeAssumption`, `WidthAssumption`,
`ProcsAssumption`, `LettersAssumption`, `SizesAssumption`, `ProcessesAssumption`,
`NClientsAssumption`, `FdsAssumption`, `BoundsAssumption`, `FilesAssumption`,
`CameraAssumption`, `WriterAssumption`, `ImagesAssumption`, `TablesAssumption`); TLC evaluates each of them in a run.

Only model-checked: all liveness, and with it what fairness adds to the refinements
of `QueuePad` and `FdRegistry` (the prover has no rules for fairness; `BoundedFifo`
has none, and its refinement is proved whole), and `OptimalCode` of `Imaging`. Its
first half is `NoCodeBeginsAnother`. That no prefix code is shorter is an exchange
argument by induction over the number of symbols, about sums over sets of numbers
that the library has no facts about; TLC compares the codes with every assignment of
lengths, and `Kraft` counts in units of 2^-8, enough for the tables of the run.

## Not modelled

The greater part of the repository's C and C++ is not its own: of about 75,000 lines
some 62,000 are vendored headers (`exprtk.hpp`, `stb_image.h`, `glad.h`, `glad.c`).
Most of the remaining 13,000 are floating-point arithmetic, drawing, terminal menus,
language exercises and straight-line samples, where there is no state that threads,
processes or failures could disturb. The models cover the programs that have it,
some 2 percent of all lines.

* Loggers, caps and metadata: formatting and plain data.
* `Pipeline::run_once()` and `process()`: nothing calls them.
* Weak memory: the atomics of the registry are sequentially consistent here.
* The chat client's terminal, and blocking `send()` to a client that does not read.
* Interrupted subscribers, and requests that together exceed the publisher's buffer.
* The earlier draft of the publisher in `1_2_pipe_mpa_pid`, `server_multi_basic.c`
  and `chat_client.c`.
* The robot's kinematics and parser, and drawing; the race on the vector
  `pathPoints`, which the thread extends while the main loop draws it
  (`robot2Dof.cpp:101`), is undefined behaviour that changes nothing the models
  speak of.
* The transforms, quantisation and colour conversion (floating point), `frame.png`
  (written by libpng).
* The prototype of the engine (superseded by `lib_v1.0.0`), shared memory one way (a
  special case of the channel) and the samples.

## Plan

Done: `QueuePad`, `Pipeline` with the registry, `FdRegistry`, `Channel`,
`FullDuplex`, `ChatServer`, `MpaPubSub`, `RobotApp`, `Imaging`, each with its
abstract specification where it has one; proofs of every safety invariant but
`OptimalCode`, and of the refinements of `QueuePad`, `FdRegistry` and `Channel`.
