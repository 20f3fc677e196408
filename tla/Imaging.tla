------------------------------ MODULE Imaging ------------------------------
(***************************************************************************)
(* The imaging programs together: a behaviour runs one of the JPEG         *)
(* exercises, or one of the programs that capture frames, and after        *)
(* capture_frame.c, whether it has succeeded or not, the program that      *)
(* turns frame.raw into PNG files.                                         *)
(***************************************************************************)
EXTENDS Integers, FiniteSets, Sequences

CONSTANTS Images, Tables, MaxBuffers, Skipped, Sizes, LenBase

ASSUME ImagesAssumption == Images \subseteq Seq([1..64 -> Int])
ASSUME TablesAssumption == Tables \subseteq Seq(Nat)
ASSUME CameraAssumption == MaxBuffers \in Nat \ {0} /\ Skipped \in Nat
ASSUME WriterAssumption == /\ Sizes \subseteq (Nat \ {0}) \X (Nat \ {0})
                           /\ LenBase \in Nat \ {0, 1}

VARIABLES prog,
          pc, image, bi, pairs, hq, file, pos, trie, cur, zz, out, csv,
          at, turn, count, shape, mapped, streaming, incoming, filled, filling, frames,
          content, held, failed, saved, raw,
          step, size, rgb, png1, png

jpegVars == <<pc, image, bi, pairs, hq, file, pos, trie, cur, zz, out, csv>>
captureVars == <<at, turn, count, shape, mapped, streaming, incoming, filled, filling,
                 frames, content, held, failed, saved>>
writerVars == <<step, size, rgb, png1, png>>

Jpeg == INSTANCE JpegHuffman
Camera == INSTANCE Capture
Writer == INSTANCE PngWriter

\* What a program leaves alone is empty.
NoJpeg ==
  /\ pc = <<>> /\ image = <<>> /\ bi = <<>> /\ pairs = <<>> /\ hq = <<>> /\ file = <<>>
  /\ pos = <<>> /\ trie = <<>> /\ cur = <<>> /\ zz = <<>> /\ out = <<>> /\ csv = <<>>
NoCapture ==
  /\ at = <<>> /\ turn = <<>> /\ count = <<>> /\ shape = <<>> /\ mapped = <<>>
  /\ streaming = <<>> /\ incoming = <<>> /\ filled = <<>> /\ filling = <<>>
  /\ frames = <<>> /\ content = <<>> /\ held = <<>> /\ failed = <<>> /\ saved = <<>>
  /\ raw = <<>>
NoWriter == step = <<>> /\ size = <<>> /\ rgb = <<>> /\ png1 = <<>> /\ png = <<>>

Init ==
  \/ Jpeg!Init /\ NoCapture /\ NoWriter
  \/ Camera!Init /\ NoJpeg /\ IF prog = "one" THEN Writer!Init ELSE NoWriter

JpegNext == /\ prog \in {"pipe", "base", "csv"}
            /\ Jpeg!Next
            /\ UNCHANGED <<captureVars, raw, writerVars>>

CaptureNext == /\ prog \in {"one", "many", "two"}
               /\ Camera!Next
               /\ UNCHANGED <<jpegVars, writerVars>>

WriterNext == /\ prog = "one" /\ at = "exit"
              /\ Writer!Next
              /\ UNCHANGED <<prog, jpegVars, captureVars>>

Next == JpegNext \/ CaptureNext \/ WriterNext

Spec == Init /\ [][Next]_<<prog, jpegVars, captureVars, raw, writerVars>>

-----------------------------------------------------------------------------
JpegRuns == prog \in {"pipe", "base", "csv"}

RoundTrip == JpegRuns => Jpeg!RoundTrip
OptimalCode == JpegRuns => Jpeg!OptimalCode
SavedIsWhole == ~JpegRuns => Camera!SavedIsWhole

\* When the camera takes 640 by 480, a finished output.png shows the frame that
\* capture_frame.c has just saved, or the one of an earlier run if it has saved
\* none: as many pixels, from the first one on, as have reached frame.raw, and
\* behind them what was in the buffer.  Only a frame that was written in full is
\* seen in full; nothing in the PNG file tells the two apart.
PngShowsFrame ==
  prog = "one" =>
    /\ Writer!PngHoldsFrame
    /\ Writer!Finished(png) /\ raw[1].shape = "vga" =>
         \E n \in Writer!Held(raw[1].part) :
           Writer!Pixels(png) = Writer!Begun(IF saved = <<>> THEN 0 ELSE saved[1].frame, n)
=============================================================================
