---------------------------- MODULE SparseImage ----------------------------
(***************************************************************************)
(* prepareForFlashing() of webfastboot/src/sparse.js: an image larger than *)
(* the bootloader takes at once becomes several sparse images, which are   *)
(* downloaded and flashed in order.  An image given as a Blob goes through *)
(* fromRaw() and splitBlob(), one given as a buffer through parseSparse()  *)
(* or rawToChunks() and resparse(); one step of the model is one turn of   *)
(* the loop over the chunks in either of them.                             *)
(*                                                                         *)
(* A block of data is one value, so a RAW chunk is a sequence of values,   *)
(* of which the last may stand for less than a block.  Sizes are in bytes. *)
(***************************************************************************)
EXTENDS Integers, SequencesExt

CONSTANTS
    FileHdr, ChunkHdr,  \* SPARSE_HEADER_SIZE, CHUNK_HEADER_SIZE
    FillBytes,          \* payload of a FILL or CRC32 chunk
    BlockSize,
    RawPart,            \* RAW_CHUNK_SIZE
    Limit,              \* max-download-size
    Images,             \* images the page may be given
    Paths,              \* a subset of {"blob", "buffer"}
    Zero,               \* the content of a block of zeros
    Keep, Old           \* "don't care"; what the partition held before

ASSUME SizeAssumption ==
    /\ {FileHdr, ChunkHdr, FillBytes, BlockSize, RawPart, Limit} \subseteq Nat \ {0}
    /\ FillBytes <= BlockSize
    /\ BlockSize <= (Limit * 7) \div 8
    /\ FileHdr + 2 * ChunkHdr <= Limit - (Limit * 7) \div 8
    /\ RawPart % BlockSize = 0
ASSUME PathAssumption == Paths \subseteq {"blob", "buffer"}
ASSUME ValueAssumption == Zero # Keep

VARIABLES
    image, path,  \* what prepareForFlashing() was called with
    pc,
    rest,         \* chunks (or what is left of one) still to be packed
    cur,          \* splitChunks, currentChunks
    size,         \* bytes of the header and of cur
    cursor,       \* blocks of the partition that lie behind
    pieces,       \* the images to flash: [chunks, bytes, bare]
    disk          \* the partition: [1..image.total -> contents]

pvars == <<image, path, pc, rest, cur, size, cursor, pieces, disk>>

-----------------------------------------------------------------------------
(* Chunks                                                                  *)

\* data: the contents of a RAW chunk's blocks, or the value of a FILL.  bytes:
\* the payload its header announces; short: how much of that is missing.  What
\* is still unread of a raw file is a chunk of type "FILE".
Chunk(type, blocks, data, bytes, short) ==
    [type |-> type, blocks |-> blocks, data |-> data, bytes |-> bytes, short |-> short]

Raw(n, data) == Chunk("RAW", n, data, n * BlockSize, 0)
Fill(n, v)   == Chunk("FILL", n, <<v>>, FillBytes, 0)
Skip(n)      == Chunk("DONT_CARE", n, <<>>, 0, 0)
Crc          == Chunk("CRC32", 0, <<>>, FillBytes, 0)

\* What a chunk adds to an image behind its header (calcChunksSize, chunkBytes).
Payload(c) == IF c.type = "RAW" THEN c.bytes - c.short
              ELSE IF c.type = "FILL" THEN FillBytes ELSE 0

BytesOf(chunks) ==
    LET upTo[n \in 0..Len(chunks)] ==
          IF n = 0 THEN FileHdr ELSE upTo[n - 1] + ChunkHdr + Payload(chunks[n])
    IN  upTo[Len(chunks)]

FileBytes(img) ==
    IF img.sparse
    THEN FoldSeq(LAMBDA c, sum : sum + ChunkHdr + c.bytes - c.short, FileHdr, img.chunks)
    ELSE img.chunks[1].bytes

\* The blocks an image declares, one content each.
Expand(c) == CASE c.type \in {"RAW", "FILE"} -> c.data
               [] c.type = "FILL" -> [i \in 1..c.blocks |-> c.data[1]]
               [] c.type = "DONT_CARE" -> [i \in 1..c.blocks |-> Keep]
               [] OTHER -> <<>>

Contents(chunks) == FlattenSeq([i \in DOMAIN chunks |-> Expand(chunks[i])])

\* The format (sparse.js:20-37): RAW data of whole blocks, of which a part may
\* be missing; one value to FILL with; no blocks behind a checksum.
WellFormed(c) ==
    /\ {c.blocks, c.bytes, c.short} \subseteq Nat
    /\ c.type \in {"RAW", "FILL", "DONT_CARE", "CRC32"}
    /\ c.type = "RAW" => c.bytes = c.blocks * BlockSize /\ Len(c.data) = c.blocks
    /\ c.type # "RAW" => c.short = 0
    /\ c.type \in {"FILL", "CRC32"} => c.bytes = FillBytes
    /\ c.type = "FILL" => Len(c.data) = 1
    /\ c.type = "DONT_CARE" => c.bytes = 0
    /\ c.type = "CRC32" => c.blocks = 0

\* The bytes of a raw file end in its last block.
RawFile(c) ==
    /\ c.type = "FILE" /\ c.short = 0 /\ c.bytes \in Nat /\ c.blocks \in Nat
    /\ Len(c.data) = c.blocks
    /\ (c.blocks - 1) * BlockSize < c.bytes /\ c.bytes <= c.blocks * BlockSize

ASSUME ImageAssumption ==
    \A img \in Images :
        /\ img.sparse \in BOOLEAN /\ img.total \in Nat
        /\ img.chunks \in Seq({img.chunks[i] : i \in DOMAIN img.chunks})
        /\ \A i \in DOMAIN img.chunks :
             /\ img.chunks[i].data \in
                    Seq({img.chunks[i].data[j] : j \in DOMAIN img.chunks[i].data} \ {Keep})
             /\ img.sparse => WellFormed(img.chunks[i])
             /\ ~img.sparse => RawFile(img.chunks[i])
        /\ ~img.sparse => Len(img.chunks) = 1
        /\ img.total = Len(Contents(img.chunks))

\* The first bytes of a RAW chunk, and what is behind them: whole blocks count.
FirstBytes(c, n) ==
    Chunk("RAW", n \div BlockSize, SubSeq(c.data, 1, n \div BlockSize), n, 0)

RestBehind_again(c, n) ==
    Chunk("RAW", (c.bytes - n) \div BlockSize,
          SubSeq(c.data, 1, Len(c.data) - n \div BlockSize), c.bytes - n, c.short)

RestBehind(c, n) ==
    Chunk("RAW", (c.bytes - n) \div BlockSize,
          SubSeq(c.data, n \div BlockSize + 1, Len(c.data)), c.bytes - n, c.short)

-----------------------------------------------------------------------------
(* Reading the image                                                       *)

Truncated(img) == \E i \in DOMAIN img.chunks : img.chunks[i].short > 0

\* resparse() needs room for a block, its header and a skip on either side.
TooSmall == Limit - FileHdr <= 3 * ChunkHdr + BlockSize

Whole == FileBytes(image) <= Limit

Start(chunks) == /\ rest' = chunks /\ pc' = "pack"
                 /\ UNCHANGED <<image, path, cur, size, cursor, pieces, disk>>

Stop(l) == pc' = l /\ UNCHANGED <<image, path, rest, cur, size, cursor, pieces, disk>>

\* An image the bootloader takes at once is left as it is.
KeepWhole ==
    /\ pc = "given" /\ Whole
    /\ pieces' = <<[chunks |-> image.chunks, bytes |-> FileBytes(image), bare |-> TRUE]>>
    /\ pc' = "flash"
    /\ UNCHANGED <<image, path, rest, cur, size, cursor, disk>>

Read ==
    /\ pc = "given" /\ ~Whole
    /\ IF path = "buffer" /\ (TooSmall \/ Truncated(image)) THEN Stop("threw")
       ELSE Start(image.chunks)

Packing == pc = "pack" /\ rest # <<>>
First == Head(rest)

\* How many blocks of a raw file make the next chunk: fromRaw() takes RawPart
\* bytes, rawToChunks() a run of whole zero blocks or of anything else.
Run(c, j) ==
    LET IsZero(i) == c.data[i] = Zero /\ i * BlockSize <= c.bytes IN
    IF path = "blob" THEN j = RawPart \div BlockSize \/ (j = c.blocks /\ j * BlockSize <= RawPart)
    ELSE /\ \A i \in 1..j : IsZero(i) = IsZero(1)
         /\ j < c.blocks => IsZero(j + 1) # IsZero(1)

\* fromRaw() leaves the last block unpadded, rawToChunks() pads it and leaves
\* out the zeros.
ReadFile ==
    /\ Packing /\ First.type = "FILE"
    /\ \E j \in 1..First.blocks :
        /\ Run(First, j)
        /\ LET c     == First
               data  == SubSeq(c.data, 1, j)
               chunk == IF path = "blob"
                        THEN Chunk("RAW", j, data,
                                   IF j = c.blocks THEN c.bytes ELSE j * BlockSize, 0)
                        ELSE IF c.data[1] = Zero /\ BlockSize <= c.bytes THEN Skip(j)
                        ELSE Raw(j, data)
               behind == Chunk("FILE", c.blocks - j, SubSeq(c.data, j + 1, c.blocks),
                               c.bytes - j * BlockSize, 0)
           IN  rest' = <<chunk>> \o (IF j = c.blocks THEN <<>> ELSE <<behind>>) \o Tail(rest)
    /\ UNCHANGED <<image, path, pc, cur, size, cursor, pieces, disk>>

\* parseSparse() keeps everything but the checksums.
DropChecksum ==
    /\ path = "buffer" /\ Packing /\ First.type = "CRC32"
    /\ rest' = Tail(rest)
    /\ UNCHANGED <<image, path, pc, cur, size, cursor, pieces, disk>>

-----------------------------------------------------------------------------
(* Packing the chunks                                                      *)

\* A RAW chunk with more than Most bytes is cut into parts of Step bytes: 7/8
\* of the limit in whole blocks, or what fits between two skips.
Most == IF path = "blob" THEN (Limit * 7) \div 8
        ELSE ((Limit - FileHdr - 3 * ChunkHdr) \div BlockSize) * BlockSize
Step == (Most \div BlockSize) * BlockSize

CutUp(c) == c.type = "RAW" /\ c.bytes > Most

NextPart == IF CutUp(First) THEN FirstBytes(First, Step) ELSE First

Fits_noReserve(c) ==
    IF path = "blob" THEN c.bytes + ChunkHdr <= Limit - size
    ELSE cur = <<>> \/ size + ChunkHdr + Payload(c) <= Limit

\* splitBlob() reserves nothing for the trailing DONT_CARE chunk.
Fits(c) ==
    IF path = "blob" THEN c.bytes + ChunkHdr <= Limit - size
    ELSE cur = <<>> \/ size + ChunkHdr + Payload(c) <= Limit - ChunkHdr

\* createImageBlob() writes chunk.fill, which the chunks of splitBlob() do not
\* have, and the header alone of a checksum.
Written(c) == IF path = "buffer" THEN c
              ELSE IF c.type = "FILL" THEN [c EXCEPT !.data = <<Zero>>]
              ELSE IF c.type = "CRC32" THEN [c EXCEPT !.bytes = 0] ELSE c

Piece_noTrailer ==
    [chunks |-> [i \in DOMAIN cur |-> Written(cur[i])], bytes |-> size, bare |-> FALSE]

\* The piece that cur makes: what lies behind the cursor is skipped.
Piece ==
    LET more == cursor < image.total
        all  == IF more THEN Append(cur, Skip(image.total - cursor)) ELSE cur
    IN  [chunks |-> [i \in DOMAIN all |-> Written(all[i])],
         bytes |-> IF more THEN size + ChunkHdr ELSE size, bare |-> FALSE]

\* A chunk, or the next part of one, that is ready to be packed.
Ready == Packing /\ First.type # "FILE" /\ ~(path = "buffer" /\ First.type = "CRC32")

Place(lead) ==
    /\ cur' = Append(lead, NextPart)
    /\ cursor' = cursor + NextPart.blocks
    /\ rest' = (IF CutUp(First) THEN <<RestBehind(First, Step)>> ELSE <<>>) \o Tail(rest)
    /\ UNCHANGED <<image, path, pc, disk>>

Push ==
    /\ Ready /\ Fits(NextPart)
    /\ Place(cur)
    /\ size' = size + ChunkHdr + Payload(NextPart)
    /\ UNCHANGED pieces

\* A piece is complete; the next begins with a skip to the cursor.
Yield ==
    /\ Ready /\ ~Fits(NextPart)
    /\ pieces' = Append(pieces, Piece)
    /\ LET lead == IF path = "buffer" /\ cursor = 0 THEN <<>> ELSE <<Skip(cursor)>> IN
       /\ Place(lead)
       /\ size' = FileHdr + (Len(lead) + 1) * ChunkHdr + Payload(NextPart)

\* A last piece of nothing but a skip is dropped by splitBlob(); resparse()
\* answers one when there is no other.
WorthSending == IF path = "blob" THEN Len(cur) > 1 \/ (cur # <<>> /\ cur[1].type # "DONT_CARE")
                ELSE cur # <<>>

Empty == [chunks |-> <<Skip(image.total)>>, bytes |-> FileHdr + ChunkHdr, bare |-> FALSE]

Finish ==
    /\ pc = "pack" /\ rest = <<>>
    /\ pieces' = IF WorthSending THEN Append(pieces, Piece)
                 ELSE IF path = "buffer" /\ pieces = <<>> THEN <<Empty>> ELSE pieces
    /\ pc' = "flash"
    /\ UNCHANGED <<image, path, rest, cur, size, cursor, disk>>

-----------------------------------------------------------------------------
(* The bootloader (external), as liblp/libsparse/sparse_read.cpp reads     *)

ChunkOk(c) ==
    CASE c.type = "RAW" -> c.short = 0 /\ c.bytes = c.blocks * BlockSize
      [] c.type = "CRC32" -> c.bytes = FillBytes
      [] OTHER -> TRUE

\* It takes Limit bytes at once, and a sparse image whose chunks are sound and
\* cover the partition.
Accepts(p) ==
    /\ p.bare \/ BytesOf(p.chunks) <= Limit
    /\ ~(p.bare /\ ~image.sparse) =>
         /\ \A i \in DOMAIN p.chunks : ChunkOk(p.chunks[i])
         /\ Len(Contents(p.chunks)) = image.total

FlashPiece ==
    /\ pc = "flash" /\ pieces # <<>> /\ Accepts(Head(pieces))
    /\ disk' = LET new == Contents(Head(pieces).chunks)
               IN  [b \in 1..image.total |-> IF new[b] = Keep THEN disk[b] ELSE new[b]]
    /\ pieces' = Tail(pieces)
    /\ UNCHANGED <<image, path, pc, rest, cur, size, cursor>>

Refuse == pc = "flash" /\ pieces # <<>> /\ ~Accepts(Head(pieces)) /\ Stop("refused")

Done == pc = "flash" /\ pieces = <<>> /\ Stop("done")

-----------------------------------------------------------------------------
Init ==
    /\ image \in Images /\ path \in Paths
    /\ pc = "given" /\ rest = <<>> /\ cur = <<>> /\ size = FileHdr /\ cursor = 0
    /\ pieces = <<>> /\ disk = [b \in 1..image.total |-> Old]

Next ==
    \/ KeepWhole \/ Read \/ ReadFile \/ DropChecksum \/ Push \/ Yield \/ Finish
    \/ FlashPiece \/ Refuse \/ Done

Spec == Init /\ [][Next]_pvars

-----------------------------------------------------------------------------
\* Blocks of a FILL chunk on the way through splitBlob().
FillLost(b) ==
    /\ path = "blob" /\ ~Whole
    /\ LET of == FlattenSeq([i \in DOMAIN image.chunks |->
                               [j \in 1..image.chunks[i].blocks |-> image.chunks[i].type]])
       IN  of[b] = "FILL"

\* Whole blocks of zeros, which rawToChunks() does not write.
ZeroKept(b) == /\ path = "buffer" /\ ~Whole /\ ~image.sparse
               /\ Contents(image.chunks)[b] = Zero /\ b * BlockSize <= image.chunks[1].bytes

\* "Flashing them to the same partition in order reproduces the original image"
\* (sparse.js resparse): once flashBlob() resolves the partition holds the image.
Reproduces ==
    pc = "done" => \A b \in DOMAIN disk :
        Contents(image.chunks)[b] # Keep => disk[b] = Contents(image.chunks)[b]

\* What does hold: of an image that was flashed every block is in its place and
\* no other block is touched, but FILL blocks of a split Blob become zeros and
\* zero blocks of a split raw buffer keep what was there.
WritesImage ==
    pc = "done" =>
        /\ ~Truncated(image)
        /\ \A b \in DOMAIN disk :
             disk[b] = IF Contents(image.chunks)[b] = Keep \/ ZeroKept(b) THEN Old
                       ELSE IF FillLost(b) THEN Zero ELSE Contents(image.chunks)[b]

\* "Smaller sparse Blobs within splitSize limit" (sparse.js splitBlob): no
\* piece is over the limit by more than the header of the trailing skip, and
\* none of resparse() at all.
PiecesWithinLimit ==
    \A i \in DOMAIN pieces :
        pieces[i].bytes <= Limit + (IF path = "blob" /\ ~pieces[i].bare THEN ChunkHdr ELSE 0)

\* The bootloader refuses only what is damaged: a truncated image, a raw Blob
\* that ends within a block, a checksum that splitBlob() passed on, or a piece
\* that grew over the limit.
RefusesOnlyDamaged ==
    pc = "refused" =>
        \/ Truncated(image)
        \/ path = "blob" /\ ~image.sparse /\ image.chunks[1].bytes % BlockSize # 0
        \/ path = "blob" /\ \E i \in DOMAIN image.chunks : image.chunks[i].type = "CRC32"
        \/ path = "blob" /\ Head(pieces).bytes > Limit
=============================================================================
