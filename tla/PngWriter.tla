----------------------------- MODULE PngWriter -----------------------------
(***************************************************************************)
(* base_cam_img_process/rgb_2_png/rgb2pngNocompress.c: reads frame.raw and *)
(* writes it as output1.png, in one stored block, and as output.png, in    *)
(* blocks of at most 65535 bytes.  The length of a stored block is written *)
(* in two digits of base 256; the base is a parameter, so that a small     *)
(* image needs several blocks.  The colours are floating-point arithmetic: *)
(* a frame is converted to bytes that differ from those of other frames.   *)
(***************************************************************************)
EXTENDS Integers, FiniteSetsExt, SequencesExt

CONSTANTS Sizes,    \* images: <<width, height>>; 640 by 480 in the code
          LenBase   \* 256 in the code: a block holds LenBase^2 - 1 bytes at most

VARIABLES step,       \* where main() is, "end" when it has returned
          size,       \* WIDTH and HEIGHT
          raw,        \* the file frame.raw, if there is one
          rgb,        \* rgb_buffer
          png1, png   \* output1.png and output.png: their chunks

pngVars == <<step, size, raw, rgb, png1, png>>

Init == /\ step = "read" /\ size \in Sizes
        /\ rgb = <<>> /\ png1 = <<>> /\ png = <<>>

width == size[1]
height == size[2]
RowBytes == 3 * width

\* yuyv_to_rgb(): the bytes of a frame of the expected format.  A file of another
\* format is as long as it is, and its bytes are taken for something else.
Rgb(frame) == [k \in 1..RowBytes * height |-> (31 * k + 7 * frame) % 256]

\* What malloc() has put into the buffer, and the bytes of another format.
Fresh == -1
Other == -2

\* The first n pixels are those of the frame, the others are what the buffer held.
Begun(frame, n) == [k \in 1..RowBytes * height |-> IF k <= 3 * n THEN Rgb(frame)[k]
                                                                 ELSE Rgb(Fresh)[k]]
\* How many pixels of a frame there are in a file that holds this part of it.
Held(part) == [none |-> {0},
               some |-> 0..width * height - 1,
               all  |-> {width * height}][part]

Converted(f) == IF f.part = "none" \/ (f.shape = "vga" /\ f.of.whole)
                THEN {Begun(f.of.frame, n) : n \in Held(f.part)}
                ELSE {Rgb(Other)}

\* fopen(), and one fread(): nobody looks how much it has read.
ReadRaw ==
  /\ step = "read" /\ step' = "save1"
  /\ raw # <<>> /\ rgb' \in Converted(raw[1])
  /\ UNCHANGED <<size, raw, png1, png>>

\* There is no file, or fopen() fails; or malloc() does, and nobody looks.
ReadFails ==
  /\ step = "read" /\ step' = "end"
  /\ UNCHANGED <<size, raw, rgb, png1, png>>

-----------------------------------------------------------------------------
(* Chunks.  A word is the set of its bits that are 1. *)

Word == 0..31
Bits(n) == {i \in 0..7 : (n \div 2^i) % 2 = 1}
Xor(a, b) == (a \ b) \cup (b \ a)
ShiftRight(w, n) == {i - n : i \in {j \in w : j >= n}}

\* 0xedb88320
Polynomial == {31, 30, 29, 27, 26, 24, 23, 21, 20, 19, 15, 9, 8, 5}
Round(c) == IF 0 \in c THEN Xor(Polynomial, ShiftRight(c, 1)) ELSE ShiftRight(c, 1)
Rounds(c) == IF c = {} THEN {}
             ELSE LET r[k \in 0..8] == IF k = 0 THEN c ELSE Round(r[k - 1]) IN r[8]

crc_table == [byte \in SUBSET (0..7) |-> Rounds(byte)]

update_crc(c, buf) ==
  LET Next8(w, byte) == Xor(crc_table[Xor(w, Bits(byte)) \cap (0..7)], ShiftRight(w, 8))
      r[k \in 0..Len(buf)] == IF k = 0 THEN c ELSE Next8(r[k - 1], buf[k])
  IN  r[Len(buf)]

crc(buf) == Xor(update_crc(Word, buf), Word)

write_chunk(type, data) ==
  [length |-> Len(data), type |-> type, data |-> data, crc |-> crc(type \o data)]

IHDR == <<73, 72, 68, 82>>
IDAT == <<73, 68, 65, 84>>
IEND == <<73, 69, 78, 68>>

BigEndian(n) == <<n \div 2^24, (n \div 2^16) % 256, (n \div 2^8) % 256, n % 256>>

\* Eight bits a colour, three colours, no other option.
Header == BigEndian(width) \o BigEndian(height) \o <<8, 2, 0, 0, 0>>

\* Each row behind a filter type of 0.
RawData == FlattenSeq([y \in 1..height |-> <<0>> \o SubSeq(rgb, (y - 1) * RowBytes + 1, y * RowBytes)])

Low(n) == n % LenBase
High(n) == (n \div LenBase) % LenBase
Not(digit) == LenBase - 1 - digit

\* A stored block: the final flag, its length, the complement of it, the bytes.
Stored(final, data) ==
  LET n == Len(data)
  IN  <<final, Low(n), High(n), Not(Low(n)), Not(High(n))>> \o data

MaxBlock == LenBase * LenBase - 1

Blocks(data) == (Len(data) + MaxBlock - 1) \div MaxBlock
Block(data, k) == SubSeq(data, (k - 1) * MaxBlock + 1, Min({k * MaxBlock, Len(data)}))

\* Mutant: a block that ends with the data is not the final one.
create_zlib_no_compression_blocks_NotFinal(data) ==
  <<120, 1>> \o FlattenSeq([k \in 1..Blocks(data) |->
                  Stored(IF k * MaxBlock > Len(data) THEN 1 ELSE 0, Block(data, k))])

create_zlib_no_compression_blocks(data) ==
  <<120, 1>> \o FlattenSeq([k \in 1..Blocks(data) |->
                  Stored(IF k * MaxBlock >= Len(data) THEN 1 ELSE 0, Block(data, k))])

File(idat) == <<write_chunk(IHDR, Header), write_chunk(IDAT, idat), write_chunk(IEND, <<>>)>>

\* fopen() fails, or an allocation after the header has been written, and the
\* function returns; or the disk is full, and nobody looks at what fwrite() says.
\* The file has the chunks before that place; main() goes on.
Written(f) == {SubSeq(f, 1, n) : n \in 0..3}

save_png1 ==
  /\ step = "save1" /\ step' = "save"
  /\ png1' \in Written(File(<<120, 1>> \o Stored(1, RawData)))
  /\ UNCHANGED <<size, raw, rgb, png>>

save_png ==
  /\ step = "save" /\ step' = "end"
  /\ png' \in Written(File(create_zlib_no_compression_blocks(RawData)))
  /\ UNCHANGED <<size, raw, rgb, png1>>

Next == ReadRaw \/ ReadFails \/ save_png1 \/ save_png

-----------------------------------------------------------------------------
(* A reader of PNG files.  It is a lenient one: a zlib stream has to end    *)
(* with an Adler-32 of its data, which this code never writes and which    *)
(* this reader does not look for.  One that does refuses every file.       *)

Bad == <<-1>>

\* The check of a chunk, bit by bit.
CrcOf(buf) ==
  LET r[k \in 0..Len(buf)] == IF k = 0 THEN Word ELSE Rounds(Xor(r[k - 1], Bits(buf[k])))
  IN  Xor(r[Len(buf)], Word)

Sound(chunk) == /\ chunk.length = Len(chunk.data)
                /\ chunk.crc = CrcOf(chunk.type \o chunk.data)

\* One stored block, from the byte behind s.at on.
ReadBlock(d, s) ==
  LET n == d[s.at + 2] + LenBase * d[s.at + 3]
      cut == Len(d) - s.at < 5
      wrong == d[s.at + 4] # Not(d[s.at + 2]) \/ d[s.at + 5] # Not(d[s.at + 3])
  IN  IF ~s.more THEN s
      ELSE IF cut \/ wrong \/ n > Len(d) - s.at - 5
           THEN [at |-> s.at, data |-> Bad, more |-> FALSE]
           ELSE [at |-> s.at + 5 + n, data |-> s.data \o SubSeq(d, s.at + 6, s.at + 5 + n),
                 more |-> d[s.at + 1] # 1]

\* The bytes in the blocks up to the final one: no more blocks than bytes.
Inflate(d) ==
  LET read[k \in 0..Len(d)] == IF k = 0 THEN [at |-> 0, data |-> <<>>, more |-> TRUE]
                               ELSE ReadBlock(d, read[k - 1])
  IN  IF read[Len(d)].more THEN Bad ELSE read[Len(d)].data

Row(data, y) == SubSeq(data, (y - 1) * (RowBytes + 1) + 2, y * (RowBytes + 1))

\* The pixels of a file with this header, for a reader that takes the stream to
\* end with its last block.
Pixels(f) ==
  LET data == Inflate(SubSeq(f[2].data, 3, f[2].length))
  IN  IF /\ \A c \in DOMAIN f : Sound(f[c])
         /\ [c \in DOMAIN f |-> f[c].type] = <<IHDR, IDAT, IEND>>
         /\ f[1].data = Header
         /\ Len(data) = (RowBytes + 1) * height
         /\ \A y \in 1..height : data[(y - 1) * (RowBytes + 1) + 1] = 0
      THEN FlattenSeq([y \in 1..height |-> Row(data, y)])
      ELSE Bad

\* The file has its last chunk.
Finished(f) == Len(f) = 3

\* The lenient reader finds the converted bytes in a finished output.png, whatever
\* their number, and in a finished output1.png if they fit into one stored block.
PngHoldsFrame ==
  /\ Finished(png) => Pixels(png) = rgb
  /\ Finished(png1) /\ Len(RawData) <= MaxBlock => Pixels(png1) = rgb
=============================================================================
