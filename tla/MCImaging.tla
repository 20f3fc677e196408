----------------------------- MODULE MCImaging -----------------------------
EXTENDS Imaging

Grey == [p \in 1..64 |-> 0]
Flat == [Grey EXCEPT ![1] = 5]
Rows == [Flat EXCEPT ![3] = -1]
Corner == [Grey EXCEPT ![64] = 3, ![9] = -1]
Bright == [p \in 1..64 |-> 7]
MCBlocks == {Grey, Flat, Rows, Corner, Bright}

\* Images of one block code to one to four pairs, images of several to more, some
\* of which are shared.
MCImages == UNION {[1..n -> MCBlocks] : n \in 1..2}
            \cup {<<Flat, Grey, Flat>>, <<Rows, Rows, Corner>>}

\* The first table is the one of huffmanBase.c.
MCTables == { <<1, 1, 5, 1, 1, 1>>, <<1>>, <<2, 3, 3, 5>>, <<1, 1, 2, 3, 5>> }

\* With LenBase = 3 a block holds 8 bytes: less than one block, exactly one, exactly
\* two, and more.
MCSizes == { <<1, 1>>, <<1, 2>>, <<1, 4>>, <<2, 2>>, <<2, 3>> }
=============================================================================
