---------------------------- MODULE JpegHuffman ----------------------------
(***************************************************************************)
(* The lossless half of the JPEG exercises of h264_learning/base: zigzag   *)
(* scan, run lengths, Huffman codes and the file output.huff, written by   *)
(* 5_pipeHuffmanJPEG/compressHuffman.c and read by its decode.c; the tree  *)
(* of 4_HuffmanTree/huffmanBase.c and the rows of 3_ZigzagScan_RLE.  The   *)
(* transform and the quantisation before them are floating-point           *)
(* arithmetic: an image is the sequence of its quantised blocks.           *)
(***************************************************************************)
EXTENDS Integers, FiniteSetsExt, SequencesExt

CONSTANTS Images,   \* images: sequences of blocks of 64 integers, row by row
          Tables    \* frequency tables for huffmanBase.c: sequences of numbers > 0

VARIABLES prog,    \* "pipe": encoder and decoder; "base": huffmanBase.c; "csv": step 3
          pc,
          image,
          bi,      \* blocks coded so far
          pairs,   \* the pair table of the encoder, the symbols of huffmanBase.c
          hq,      \* the nodes without a parent
          file,    \* output.huff
          pos,     \* lines, then characters of the stream, that the decoder has read
          trie,    \* its trie: from paths to the index of a leaf, 0 in an inner node
          cur,     \* its path from the root
          zz,      \* its block
          out,     \* the blocks it has decoded
          csv      \* zigzag_rle.csv: the rows of each block

vars == <<prog, pc, image, bi, pairs, hq, file, pos, trie, cur, zz, out, csv>>
decVars == <<pos, trie, cur, zz, out>>

\* n is the number in the first line, whole says that the encoder has closed it.
EmptyFile == [n |-> 0, book |-> <<>>, marker |-> FALSE, stream |-> <<>>, whole |-> FALSE]

Init ==
  /\ \/ /\ prog \in {"pipe", "csv"} /\ pc = "pass1" /\ image \in Images /\ pairs = <<>>
     \/ /\ prog = "base" /\ pc = "push" /\ image = <<>>
        /\ \E t \in Tables : pairs = [i \in DOMAIN t |-> [val |-> i, cnt |-> 1, freq |-> t[i],
                                                          code |-> <<>>]]
  /\ bi = 0 /\ hq = <<>> /\ file = EmptyFile
  /\ pos = 0 /\ trie = [p \in { <<>> } |-> 0] /\ cur = <<>> /\ zz = <<>> /\ out = <<>>
  /\ csv = <<>>

Goto(from, to) == pc = from /\ pc' = to

-----------------------------------------------------------------------------
(* Blocks *)

\* The k-th entry is 8x + y + 1, the place of the block that comes k-th.
zigzagOrder ==
  << 1,  2,  9, 17, 10,  3,  4, 11, 18, 25, 33, 26, 19, 12,  5,  6,
    13, 20, 27, 34, 41, 49, 42, 35, 28, 21, 14,  7,  8, 15, 22, 29,
    36, 43, 50, 57, 58, 51, 44, 37, 30, 23, 16, 24, 31, 38, 45, 52,
    59, 60, 53, 46, 39, 32, 40, 47, 54, 61, 62, 55, 48, 56, 63, 64 >>

zigzagScan(b) == [k \in 1..64 |-> b[zigzagOrder[k]]]
InverseZigzag(z) == [p \in 1..64 |-> z[CHOOSE k \in 1..64 : zigzagOrder[k] = p]]

\* One pair for each longest run of equal values among the first i: the last run
\* goes on or another begins.
Runs(z) ==
  LET runs[i \in 1..64] ==
        LET one == <<[val |-> z[i], cnt |-> 1]>>
        IN  IF i = 1 THEN one
            ELSE LET rp == runs[i - 1]
                 IN  IF z[i] = z[i - 1] THEN [rp EXCEPT ![Len(rp)].cnt = @ + 1] ELSE rp \o one
  IN  runs

\* Mutant: the last value is not counted.
doRLE_Short(z) == Runs(z)[63]

doRLE(z) == Runs(z)[64]

\* Step 3: the AC values other than 0, each with the zeros before it.
runLengthEncode(z) ==
  LET coded[i \in 1..64] ==
        IF i = 1 THEN [run |-> 0, rows |-> <<>>]
        ELSE LET c == coded[i - 1]
             IN  IF z[i] = 0 THEN [c EXCEPT !.run = @ + 1]
                 ELSE [run |-> 0, rows |-> Append(c.rows, [run |-> c.run, val |-> z[i]])]
  IN  coded[64].rows

CsvBlock ==
  /\ prog = "csv" /\ bi < Len(image)
  /\ Goto("pass1", IF bi + 1 = Len(image) THEN "done" ELSE "pass1")
  /\ csv' = Append(csv, runLengthEncode(zigzagScan(image[bi + 1])))
  /\ bi' = bi + 1
  /\ UNCHANGED <<prog, image, pairs, hq, file, decVars>>

-----------------------------------------------------------------------------
(* The tree.  A node stands for the leaves below it and their codes. *)

IndexOf(ps, p) == {i \in DOMAIN ps : ps[i].val = p.val /\ ps[i].cnt = p.cnt}

\* find_or_add_pair() and freq++.
CountPair(ps, p) ==
  IF IndexOf(ps, p) = {}
  THEN Append(ps, [val |-> p.val, cnt |-> p.cnt, freq |-> 1, code |-> <<>>])
  ELSE [ps EXCEPT ![Min(IndexOf(ps, p))].freq = @ + 1]

CountPairs(ps, rp) ==
  LET counted[k \in 0..Len(rp)] == IF k = 0 THEN ps ELSE CountPair(counted[k - 1], rp[k])
  IN  counted[Len(rp)]

Pass1 ==
  /\ prog = "pipe"
  /\ IF bi = Len(image)
     THEN Goto("pass1", "push") /\ bi' = 0 /\ UNCHANGED pairs
     ELSE /\ Goto("pass1", "pass1") /\ bi' = bi + 1
          /\ pairs' = CountPairs(pairs, doRLE(zigzagScan(image[bi + 1])))
  /\ UNCHANGED <<prog, image, hq, file, decVars, csv>>

\* Mutant: the node goes in front.
hpush_Front(q, n) == <<n>> \o q

\* compressHuffman.c keeps the queue sorted: a node goes behind the last one that is
\* not greater.  huffmanBase.c appends and searches.
hpush(q, n) ==
  IF prog = "base" THEN Append(q, n)
  ELSE LET last == Max({0} \cup {i \in DOMAIN q : q[i].freq <= n.freq})
       IN  InsertAt(q, last + 1, n)

\* extractMin() takes the first of the least.
Least(q) ==
  IF prog = "pipe" THEN 1
  ELSE Min({i \in DOMAIN q : \A j \in DOMAIN q : q[i].freq <= q[j].freq})

Leaf(i) == [freq |-> pairs[i].freq, leaves |-> {[idx |-> i, code |-> <<>>]}]

Push ==
  /\ Goto("push", "merge")
  /\ hq' = LET pushed[i \in 0..Len(pairs)] ==
                 IF i = 0 THEN <<>> ELSE hpush(pushed[i - 1], Leaf(i))
           IN  pushed[Len(pairs)]
  /\ UNCHANGED <<prog, image, bi, pairs, file, decVars, csv>>

Below(bit, node) == {[l EXCEPT !.code = <<bit>> \o @] : l \in node.leaves}

Merge ==
  /\ pc = "merge" /\ Len(hq) > 1
  /\ LET l == Least(hq)
         q1 == RemoveAt(hq, l)
         r == Least(q1)
         parent == [freq |-> hq[l].freq + q1[r].freq,
                    leaves |-> Below(0, hq[l]) \cup Below(1, q1[r])]
     IN  hq' = hpush(RemoveAt(q1, r), parent)
  /\ UNCHANGED <<prog, pc, image, bi, pairs, file, decVars, csv>>

\* build_codes() and printCodes().
Codes ==
  /\ Len(hq) = 1
  /\ Goto("merge", "book")
  /\ hq' = <<>>
  /\ pairs' = [i \in DOMAIN pairs |->
                [pairs[i] EXCEPT !.code = (CHOOSE l \in hq[1].leaves : l.idx = i).code]]
  /\ UNCHANGED <<prog, image, bi, file, decVars, csv>>

-----------------------------------------------------------------------------
(* output.huff *)

WriteBook ==
  /\ Goto("book", IF prog = "pipe" THEN "pass2" ELSE "done")
  /\ file' = IF prog = "pipe" THEN [file EXCEPT !.n = Len(pairs), !.book = pairs, !.marker = TRUE]
             ELSE file
  /\ UNCHANGED <<prog, image, bi, pairs, hq, decVars, csv>>

\* The code of a pair that is not found would be that of the first one.
CodeOf(p) == LET i == IndexOf(pairs, p) IN pairs[IF i = {} THEN 1 ELSE Min(i)].code

Pass2 ==
  /\ IF bi = Len(image)
     THEN Goto("pass2", "lines") /\ file' = [file EXCEPT !.whole = TRUE] /\ UNCHANGED bi
     ELSE /\ Goto("pass2", "pass2") /\ bi' = bi + 1
          /\ LET rp == doRLE(zigzagScan(image[bi + 1]))
             IN  file' = [file EXCEPT !.stream =
                            @ \o FlattenSeq([k \in DOMAIN rp |-> CodeOf(rp[k])])]
  /\ UNCHANGED <<prog, image, pairs, hq, decVars, csv>>

\* The encoder is interrupted: what it had not flushed is lost, from some line
\* of the codebook or from some bit of the stream on.
Interrupt ==
  /\ Goto("pass2", "lines")
  /\ file' \in {[file EXCEPT !.book = SubSeq(@, 1, k), !.marker = FALSE, !.stream = <<>>]
                  : k \in 0..Len(file.book)}
               \cup {[file EXCEPT !.stream = SubSeq(@, 1, k)] : k \in 0..Len(file.stream)}
  /\ UNCHANGED <<prog, image, bi, pairs, hq, decVars, csv>>

-----------------------------------------------------------------------------
(* The decoder *)

Fail == pc' = "failed" /\ UNCHANGED decVars

\* add_code(): the nodes on the way are made, the last one becomes a leaf.
add_code(t, code, i) ==
  [p \in DOMAIN t \cup {SubSeq(code, 1, k) : k \in 0..Len(code)} |->
     IF p = code THEN i ELSE IF p \in DOMAIN t THEN t[p] ELSE 0]

\* sscanf() finds no third field when the code is empty.
ReadLine ==
  /\ pc = "lines" /\ pos < file.n
  /\ IF pos = Len(file.book) \/ file.book[pos + 1].code = <<>>
     THEN Fail
     ELSE /\ trie' = add_code(trie, file.book[pos + 1].code, pos + 1)
          /\ pos' = pos + 1
          /\ UNCHANGED <<pc, cur, zz, out>>
  /\ UNCHANGED <<prog, image, bi, pairs, hq, file, csv>>

ReadMarker ==
  /\ pc = "lines" /\ pos = file.n
  /\ IF file.marker
     THEN pc' = "bits" /\ pos' = 0 /\ UNCHANGED <<trie, cur, zz, out>>
     ELSE Fail
  /\ UNCHANGED <<prog, image, bi, pairs, hq, file, csv>>

More == pos < Len(file.stream) /\ Len(out) < Len(image)

Expand(z, p) == [k \in 1..Min({64, Len(z) + p.cnt}) |-> IF k <= Len(z) THEN z[k] ELSE p.val]

ReadBit ==
  /\ pc = "bits" /\ More
  /\ LET node == Append(cur, file.stream[pos + 1]) IN
     IF node \notin DOMAIN trie THEN Fail
     ELSE LET i == trie[node]
              z == IF i = 0 THEN zz ELSE Expand(zz, file.book[i])
          IN  /\ cur' = IF i = 0 THEN node ELSE <<>>
              /\ zz' = IF Len(z) = 64 THEN <<>> ELSE z
              /\ out' = IF Len(z) = 64 THEN Append(out, InverseZigzag(z)) ELSE out
              /\ pos' = pos + 1
              /\ UNCHANGED <<pc, trie>>
  /\ UNCHANGED <<prog, image, bi, pairs, hq, file, csv>>

WriteImage ==
  /\ ~More
  /\ Goto("bits", "done")
  /\ UNCHANGED <<prog, image, bi, pairs, hq, file, decVars, csv>>

Next == \/ CsvBlock \/ Pass1 \/ Push \/ Merge \/ Codes \/ WriteBook \/ Pass2 \/ Interrupt
        \/ ReadLine \/ ReadMarker \/ ReadBit \/ WriteImage

Spec == Init /\ [][Next]_vars

-----------------------------------------------------------------------------
(* Properties *)

\* The decoder decodes nothing that was not encoded, and all of it unless the
\* encoder was interrupted or found a single pair, whose code has no bits.
DecodesWhatWasEncoded ==
  /\ IsPrefix(out, image)
  /\ prog = "pipe" /\ pc = "done" /\ file.whole => out = image
  /\ pc = "failed" => ~file.whole \/ Len(pairs) = 1

\* The rows of a block say what its AC values are.
RowsHoldBlocks ==
  \A b \in DOMAIN csv :
    LET z == zigzagScan(image[b])
        place[k \in 0..Len(csv[b])] == IF k = 0 THEN 1 ELSE place[k - 1] + csv[b][k].run + 1
    IN  \A i \in 2..64 :
          IF z[i] = 0 THEN \A k \in DOMAIN csv[b] : place[k] # i
          ELSE \E k \in DOMAIN csv[b] : place[k] = i /\ csv[b][k].val = z[i]

\* What is written can be read.
RoundTrip == DecodesWhatWasEncoded /\ RowsHoldBlocks

Weight(length) == MapThenSumSet(LAMBDA i : pairs[i].freq * length[i], DOMAIN pairs)
Kraft(length) == MapThenSumSet(LAMBDA i : 2 ^ (8 - length[i]), DOMAIN pairs) <= 2 ^ 8

\* No code begins another one, and no prefix code makes the stream shorter: a
\* prefix code has lengths that obey Kraft's inequality, of less than the number
\* of its codes where it is best.
OptimalCode ==
  pc = "book" /\ Len(pairs) > 1 =>
    /\ \A i, j \in DOMAIN pairs : i # j => ~IsPrefix(pairs[i].code, pairs[j].code)
    /\ \A length \in [DOMAIN pairs -> 1..Len(pairs) - 1] :
         Kraft(length) => Weight([i \in DOMAIN pairs |-> Len(pairs[i].code)]) <= Weight(length)
=============================================================================
