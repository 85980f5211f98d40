--------------------------- MODULE MCSparseImage ---------------------------
(* Instances of SparseImage for TLC: blocks of 64 bytes and a limit of 448, *)
(* so that a piece holds up to six blocks.                                  *)
EXTENDS SparseImage

CONSTANTS MaxChunks, MaxRaw

\* The contents of n blocks of data, no two alike in an image.
Data(i, n) == [j \in 1..n |-> 100 * i + j]

Shapes(i) == {Raw(n, Data(i, n)) : n \in {1, 5, 6, 13}}
                \cup {Fill(2, 7), Fill(1, Zero), Skip(3), Crc}

Total(chunks) == Len(Contents(chunks))

\* Built images: every sequence of chunks, whole, or cut off in the payload of
\* a last RAW chunk.
Sparse ==
    UNION {{[i \in 1..n |-> f[i]] : f \in {g \in [1..n -> UNION {Shapes(i) : i \in 1..n}] :
                                            \A i \in 1..n : g[i] \in Shapes(i)}} : n \in 1..MaxChunks}

CutOff(s) == [s EXCEPT ![Len(s)] = [@ EXCEPT !.short = 16]]

SparseImages ==
    {[sparse |-> TRUE, total |-> Total(s), chunks |-> s] : s \in Sparse}
    \cup {[sparse |-> TRUE, total |-> Total(s), chunks |-> CutOff(s)] :
            s \in {t \in Sparse : t[Len(t)].type = "RAW"}}

\* Raw files of up to MaxRaw blocks, the last of them whole or not.
RawImages ==
    {[sparse |-> FALSE, total |-> Len(d), chunks |-> <<Chunk("FILE", Len(d), d, Len(d) * BlockSize - less, 0)>>] :
        d \in {[i \in 1..MaxRaw |-> IF i \in z THEN Zero ELSE i] : z \in SUBSET (1..MaxRaw)},
        less \in {0, 16}}
    \cup {[sparse |-> FALSE, total |-> 3, chunks |-> <<Chunk("FILE", 3, Data(1, 3), 180, 0)>>]}

AllImages == SparseImages \cup RawImages

\* A block pattern in front of more data than the bootloader takes at once.
FillImages ==
    {[sparse |-> TRUE, total |-> 12, chunks |-> <<Fill(2, 7), Raw(5, Data(1, 5)), Raw(5, Data(2, 5))>>]}
=============================================================================
