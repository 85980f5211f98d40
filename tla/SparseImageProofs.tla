-------------------------- MODULE SparseImageProofs --------------------------
(***************************************************************************)
(* For any image, limit and block size: no piece is larger than the        *)
(* bootloader takes, but for the header that splitBlob() forgets; when all *)
(* pieces are flashed the partition holds the image, block for block; and  *)
(* the bootloader refuses only what is damaged.                            *)
(*                                                                         *)
(* Sizes come first (SizeInv).  Then what the functions that walk a list   *)
(* of chunks answer, by induction on its length; from it, that the piece   *)
(* under construction and the rest always make up the partition (PackInv)  *)
(* and that every block is on the disk, in a piece, under construction or  *)
(* still to be packed (PlacedInv).  A damaged image is followed to the     *)
(* piece that is refused (BadInv).                                         *)
(***************************************************************************)
EXTENDS SparseImage, SequenceTheorems, WellFoundedInduction, TLAPS

\* What the loop relies on of a chunk it is still to pack.
Sound(c) ==
    /\ c.bytes \in Int /\ c.short \in Nat /\ c.blocks \in Int
    /\ c.type \in {"RAW", "FILL", "DONT_CARE", "CRC32", "FILE"}
    /\ c.type \in {"FILL", "CRC32"} => c.bytes = FillBytes
    /\ c.type = "DONT_CARE" => c.bytes = 0

SoundSeq(s) == \E S : s \in Seq(S) /\ \A c \in S : Sound(c)

\* What an image under construction may hold when it is not to go over the
\* limit with the header of the last skip.
Room == IF path = "blob" THEN Limit ELSE Limit - ChunkHdr

SizeInv ==
    /\ path \in {"blob", "buffer"} /\ image \in Images
    /\ SoundSeq(rest)
    /\ size \in Int /\ cursor \in Int
    /\ size <= Room
    /\ cur = <<>> => size = FileHdr
    /\ rest # <<>> /\ path = "buffer" => ~TooSmall
    /\ PiecesWithinLimit
    /\ \E S : pieces \in Seq(S)

\* The constants as numbers.
LEMMA Numbers ==
    /\ FileHdr \in Nat \ {0} /\ ChunkHdr \in Nat \ {0} /\ FillBytes \in Nat \ {0}
    /\ BlockSize \in Nat \ {0} /\ RawPart \in Nat \ {0} /\ Limit \in Nat \ {0}
    /\ FillBytes <= BlockSize
    /\ BlockSize <= (Limit * 7) \div 8
    /\ FileHdr + 2 * ChunkHdr <= Limit - (Limit * 7) \div 8
  BY SizeAssumption

\* Rounding down to whole blocks.
LEMMA Rounding ==
    ASSUME NEW a \in Nat, NEW b \in Nat \ {0}
    PROVE  (a \div b) * b \in Nat /\ (a \div b) * b <= a /\ a \div b \in Nat
  OBVIOUS

\* A part of a RAW chunk leaves room for a header and a skip on either side.
LEMMA PartsFit ==
    ASSUME path \in {"blob", "buffer"}, path = "buffer" => ~TooSmall
    PROVE  /\ Most \in Nat /\ Step \in Nat /\ Step <= Most
           /\ FileHdr + 2 * ChunkHdr + Most <= Room
           /\ FileHdr + 2 * ChunkHdr + FillBytes <= Room
<1>1. CASE path = "blob"
  <2>1. Most = (Limit * 7) \div 8 /\ Room = Limit
    BY <1>1 DEF Most, Room
  <2>2. Most \in Nat
    BY <2>1, Numbers
  <2>3. Step \in Nat /\ Step <= Most
    BY <2>2, Numbers, Rounding DEF Step
  <2>4. QED
    BY <2>1, <2>2, <2>3, Numbers
<1>2. CASE path = "buffer"
  <2> DEFINE a == Limit - FileHdr - 3 * ChunkHdr
  <2>1. a \in Nat /\ BlockSize < a
    BY <1>2, Numbers DEF TooSmall
  <2>2. Most = (a \div BlockSize) * BlockSize /\ Room = Limit - ChunkHdr
    BY <1>2 DEF Most, Room
  <2> HIDE DEF a
  <2>3. Most \in Nat /\ Most <= a
    BY <2>1, <2>2, Numbers, Rounding
  <2>4. Step \in Nat /\ Step <= Most
    BY <2>3, Numbers, Rounding DEF Step
  <2>5. QED
    BY <2>1, <2>2, <2>3, <2>4, Numbers DEF a
<1>3. QED
  BY <1>1, <1>2

\* The chunks of an image, the rest of them, and a chunk put before the rest.
LEMMA ImageChunks == \A img \in Images : SoundSeq(img.chunks) /\ img.total \in Nat
<1>1. SUFFICES ASSUME NEW img \in Images PROVE SoundSeq(img.chunks) /\ img.total \in Nat
  OBVIOUS
<1> DEFINE S == {img.chunks[i] : i \in DOMAIN img.chunks}
<1>2. img.chunks \in Seq(S) /\ img.total \in Nat
  BY ImageAssumption
<1>3. ASSUME NEW c \in S PROVE Sound(c)
  <2>1. PICK i \in DOMAIN img.chunks : c = img.chunks[i]
    OBVIOUS
  <2>2. WellFormed(c) \/ RawFile(c)
    BY <2>1, ImageAssumption
  <2>3. QED
    BY <2>2 DEF Sound, WellFormed, RawFile
<1>4. QED
  BY <1>2, <1>3 DEF SoundSeq

\* Its first chunk, and what is behind it.
LEMMA SoundHeadTail ==
    ASSUME NEW s, SoundSeq(s), s # <<>>
    PROVE  Sound(Head(s)) /\ SoundSeq(Tail(s))
<1>1. PICK S : s \in Seq(S) /\ \A c \in S : Sound(c)
  BY DEF SoundSeq
<1>2. Head(s) \in S /\ Tail(s) \in Seq(S)
  BY <1>1
<1>3. QED
  BY <1>1, <1>2 DEF SoundSeq

\* A sound chunk in front of sound ones.
LEMMA SoundCons ==
    ASSUME NEW s, SoundSeq(s), NEW c, Sound(c)
    PROVE  SoundSeq(<<c>> \o s)
<1>1. PICK S : s \in Seq(S) /\ \A d \in S : Sound(d)
  BY DEF SoundSeq
<1> DEFINE T == S \cup {c}
<1>2. s \in Seq(T) /\ <<c>> \in Seq(T)
  BY <1>1
<1>3. <<c>> \o s \in Seq(T)
  BY <1>2
<1>4. \A d \in T : Sound(d)
  BY <1>1
<1>5. QED
  BY <1>3, <1>4 DEF SoundSeq

\* Nothing in front of them.
LEMMA EmptyCons == ASSUME NEW s, SoundSeq(s) PROVE <<>> \o s = s
<1>1. PICK S : s \in Seq(S)
  BY DEF SoundSeq
<1>2. QED
  BY <1>1

\* Chunks the loop makes are sound.
LEMMA MadeSound ==
    ASSUME NEW type \in {"RAW", "FILE", "DONT_CARE"}, NEW n \in Int, NEW data,
           NEW bytes \in Int, NEW short \in Nat, type = "DONT_CARE" => bytes = 0
    PROVE  Sound(Chunk(type, n, data, bytes, short))
  BY DEF Sound, Chunk

\* The part that is packed next is sound, announces no less than it holds, and
\* leaves room for its header and a skip.
LEMMA NextPartFits ==
    ASSUME SizeInv, Ready
    PROVE  /\ Sound(NextPart) /\ Payload(NextPart) \in Int
           /\ Payload(NextPart) <= NextPart.bytes
           /\ FileHdr + 2 * ChunkHdr + Payload(NextPart) <= Room
           /\ NextPart.blocks \in Int
           /\ SoundSeq(Tail(rest))
           /\ CutUp(First) => Sound(RestBehind(First, Step))
<1>1. Sound(First) /\ SoundSeq(Tail(rest))
  BY SoundHeadTail DEF SizeInv, Ready, Packing, First
<1>2. /\ Most \in Nat /\ Step \in Nat /\ Step <= Most
      /\ FileHdr + 2 * ChunkHdr + Most <= Room
      /\ FileHdr + 2 * ChunkHdr + FillBytes <= Room
  BY PartsFit DEF SizeInv, Ready, Packing
<1>3. Step \div BlockSize \in Int /\ Room \in Int
  BY <1>2, Numbers DEF Room
<1>4. CASE CutUp(First)
  <2>1. NextPart = Chunk("RAW", Step \div BlockSize,
                         SubSeq(First.data, 1, Step \div BlockSize), Step, 0)
    BY <1>4 DEF NextPart, FirstBytes
  <2>2. Sound(NextPart)
    BY <2>1, <1>2, <1>3, MadeSound
  <2>3. NextPart.bytes = Step /\ Payload(NextPart) = Step
    BY <2>1, <1>2 DEF Chunk, Payload
  <2>4. (First.bytes - Step) \div BlockSize \in Int /\ First.bytes - Step \in Int /\ First.short \in Nat
    BY <1>1, <1>2, Numbers DEF Sound
  <2>5. Sound(RestBehind(First, Step))
    BY <2>4, MadeSound DEF RestBehind
  <2>6. QED
    BY <1>1, <1>2, <1>3, <2>2, <2>3, <2>5, Numbers DEF Sound
<1>5. CASE ~CutUp(First)
  <2>1. NextPart = First
    BY <1>5 DEF NextPart
  <2>2. First.type = "RAW" => First.bytes <= Most
    BY <1>1, <1>2, <1>5 DEF CutUp, Sound
  <2>3. /\ Payload(First) \in Int
        /\ Payload(First) <= First.bytes
        /\ FileHdr + 2 * ChunkHdr + Payload(First) <= Room
    <3>1. CASE First.type = "RAW"
      <4>1. Payload(First) = First.bytes - First.short /\ First.bytes <= Most
        BY <2>2, <3>1 DEF Payload
      <4>2. First.bytes \in Int /\ First.short \in Nat
        BY <1>1 DEF Sound
      <4>3. QED
        BY <1>2, <1>3, <4>1, <4>2, Numbers
    <3>2. CASE First.type = "FILL"
      <4>1. Payload(First) = FillBytes /\ First.bytes = FillBytes
        BY <1>1, <3>2 DEF Payload, Sound
      <4>2. QED
        BY <1>2, <4>1, Numbers
    <3>3. CASE First.type \in {"DONT_CARE", "CRC32"}
      <4>1. Payload(First) = 0 /\ First.bytes \in {0, FillBytes}
        BY <1>1, <3>3 DEF Payload, Sound
      <4>2. QED
        BY <1>2, <1>3, <4>1, Numbers
    <3>4. First.type \in {"RAW", "FILL", "DONT_CARE", "CRC32"}
      BY <1>1 DEF Sound, Ready
    <3>5. QED
      BY <3>1, <3>2, <3>3, <3>4
  <2>4. QED
    BY <1>1, <1>3, <1>5, <2>1, <2>3 DEF Sound
<1>6. QED
  BY <1>4, <1>5

-----------------------------------------------------------------------------
(* The steps                                                               *)

\* At the start nothing has a size.
LEMMA InitSizes == Init => SizeInv
<1>1. SUFFICES ASSUME Init PROVE SizeInv
  OBVIOUS
<1>0. /\ rest = <<>> /\ pieces = <<>> /\ cur = <<>> /\ size = FileHdr /\ cursor = 0
      /\ pc = "given" /\ image \in Images /\ path \in Paths
  BY <1>1, Zenon DEF Init
<1>2. rest \in Seq({}) /\ pieces \in Seq({})
  BY <1>0
<1>3. SoundSeq(rest) /\ \E S : pieces \in Seq(S)
  BY <1>2 DEF SoundSeq
<1>4. PiecesWithinLimit
  <2>1. DOMAIN pieces = {}
    BY <1>0
  <2>2. QED
    BY <2>1 DEF PiecesWithinLimit
<1>5. FileHdr <= Limit - ChunkHdr /\ FileHdr <= Limit
  <2>1. (Limit * 7) \div 8 \in Nat
    BY Numbers
  <2>2. QED
    BY <2>1, Numbers
<1>6. QED
  BY <1>0, <1>3, <1>4, <1>5, PathAssumption, Numbers DEF SizeInv, Room

\* A piece put behind the others.
LEMMA AppendPiece ==
    ASSUME SizeInv, NEW p, path' = path,
           p.bytes <= Limit + (IF path = "blob" /\ ~p.bare THEN ChunkHdr ELSE 0),
           pieces' = Append(pieces, p)
    PROVE  PiecesWithinLimit' /\ \E S : pieces' \in Seq(S)
<1>1. PICK S : pieces \in Seq(S)
  BY DEF SizeInv
<1>2. pieces \in Seq(S \cup {p})
  BY <1>1
<1>3. pieces' \in Seq(S \cup {p})
  BY <1>2
<1>4. ASSUME NEW i \in DOMAIN pieces'
      PROVE  pieces'[i].bytes <= Limit + (IF path = "blob" /\ ~pieces'[i].bare THEN ChunkHdr ELSE 0)
  <2>1. CASE i \in DOMAIN pieces
    <3>1. pieces'[i] = pieces[i]
      BY <1>2, <2>1
    <3>2. QED
      BY <2>1, <3>1 DEF SizeInv, PiecesWithinLimit
  <2>2. CASE i \notin DOMAIN pieces
    <3>1. pieces'[i] = p
      BY <1>2, <1>4, <2>2
    <3>2. QED
      BY <3>1
  <2>3. QED
    BY <2>1, <2>2
<1>5. QED
  BY <1>3, <1>4 DEF PiecesWithinLimit

\* The piece under construction keeps within the limit but for the last skip.
LEMMA PieceFits ==
    ASSUME SizeInv
    PROVE  Piece.bytes <= Limit + (IF path = "blob" /\ ~Piece.bare THEN ChunkHdr ELSE 0)
<1>1. Piece.bytes \in {size, size + ChunkHdr} /\ Piece.bare = FALSE
  BY DEF Piece
<1>2. QED
  BY <1>1, Numbers DEF SizeInv, Room

\* So does a piece that is one skip.
LEMMA EmptyFits == Empty.bytes <= Limit + (IF path = "blob" /\ ~Empty.bare THEN ChunkHdr ELSE 0)
<1>1. Empty.bytes = FileHdr + ChunkHdr
  BY DEF Empty
<1>2. (Limit * 7) \div 8 \in Nat
  BY Numbers
<1>3. QED
  BY <1>1, <1>2, Numbers

\* Steps that leave the piece under construction alone.
LEMMA KeepsSizes ==
    ASSUME SizeInv, UNCHANGED <<image, path, cur, size, cursor>>,
           SoundSeq(rest'), rest' # <<>> /\ path = "buffer" => ~TooSmall,
           PiecesWithinLimit', (\E S : pieces \in Seq(S))'
    PROVE  SizeInv'
<1>1. Room' = Room
  BY DEF Room
<1>2. (rest # <<>> /\ path = "buffer" => ~TooSmall)'
  BY DEF TooSmall
<1>3. /\ path' \in {"blob", "buffer"} /\ image' \in Images
      /\ size' \in Int /\ cursor' \in Int /\ size' <= Room'
      /\ (cur = <<>> => size = FileHdr)'
  BY <1>1 DEF SizeInv
<1>4. QED
  BY <1>2, <1>3 DEF SizeInv

\* The pieces there are stay within the limit.
LEMMA SamePieces ==
    ASSUME SizeInv, UNCHANGED <<path, pieces>>
    PROVE  PiecesWithinLimit' /\ (\E S : pieces \in Seq(S))'
<1>1. PiecesWithinLimit'
  BY DEF SizeInv, PiecesWithinLimit
<1>2. (\E S : pieces \in Seq(S))'
  BY DEF SizeInv
<1>3. QED
  BY <1>1, <1>2

\* A part that fits goes into the piece under construction.
LEMMA PushSizes == ASSUME SizeInv, Push PROVE SizeInv'
<1>1. pc = "pack" /\ Ready
  BY DEF Push, Ready, Packing
<1>2. /\ Sound(NextPart) /\ Payload(NextPart) \in Int
      /\ Payload(NextPart) <= NextPart.bytes
      /\ FileHdr + 2 * ChunkHdr + Payload(NextPart) <= Room
      /\ NextPart.blocks \in Int
      /\ SoundSeq(Tail(rest))
      /\ CutUp(First) => Sound(RestBehind(First, Step))
  BY <1>1, NextPartFits
<1>3. /\ size' = size + ChunkHdr + Payload(NextPart)
      /\ cursor' = cursor + NextPart.blocks
      /\ cur' = Append(cur, NextPart)
      /\ rest' = (IF CutUp(First) THEN <<RestBehind(First, Step)>> ELSE <<>>) \o Tail(rest)
      /\ UNCHANGED <<image, path, pc, disk, pieces>>
      /\ Fits(NextPart)
  BY DEF Push, Place
<1>4. SoundSeq(rest')
  BY <1>2, <1>3, SoundCons, EmptyCons
<1>5. size' <= Room /\ size' \in Int
  <2>1. size \in Int /\ (cur = <<>> => size = FileHdr) /\ path \in {"blob", "buffer"}
        /\ NextPart.bytes \in Int
    BY <1>2 DEF SizeInv, Sound
  <2>2. CASE path = "blob"
    <3>1. NextPart.bytes + ChunkHdr <= Limit - size /\ Room = Limit
      BY <1>3, <2>2 DEF Fits, Room
    <3>2. QED
      BY <1>2, <1>3, <2>1, <3>1, Numbers
  <2>3. CASE path = "buffer"
    <3>1. Room = Limit - ChunkHdr
          /\ (cur = <<>> \/ size + ChunkHdr + Payload(NextPart) <= Limit - ChunkHdr)
      BY <1>3, <2>3 DEF Fits, Room
    <3>2. QED
      BY <1>2, <1>3, <2>1, <3>1, Numbers
  <2>4. QED
    BY <2>1, <2>2, <2>3
<1>6. cursor' \in Int /\ cur' # <<>>
  BY <1>2, <1>3 DEF SizeInv
<1>7. PiecesWithinLimit' /\ (\E S : pieces \in Seq(S))'
  BY <1>3 DEF SizeInv, PiecesWithinLimit
<1>8. (path = "buffer" => ~TooSmall)' /\ Room' = Room
  BY <1>1, <1>3 DEF SizeInv, TooSmall, Room, Ready, Packing
<1>9. QED
  BY <1>3, <1>4, <1>5, <1>6, <1>7, <1>8 DEF SizeInv

\* The next piece begins with a skip and a part.
LEMMA YieldSizes == ASSUME SizeInv, Yield PROVE SizeInv'
<1>1. pc = "pack" /\ Ready
  BY DEF Yield, Ready, Packing
<1>2. /\ Sound(NextPart) /\ Payload(NextPart) \in Int
      /\ FileHdr + 2 * ChunkHdr + Payload(NextPart) <= Room
      /\ NextPart.blocks \in Int
      /\ SoundSeq(Tail(rest))
      /\ CutUp(First) => Sound(RestBehind(First, Step))
  BY <1>1, NextPartFits
<1> DEFINE lead == IF path = "buffer" /\ cursor = 0 THEN <<>> ELSE <<Skip(cursor)>>
<1>3. /\ pieces' = Append(pieces, Piece)
      /\ size' = FileHdr + (Len(lead) + 1) * ChunkHdr + Payload(NextPart)
      /\ cursor' = cursor + NextPart.blocks
      /\ cur' = Append(lead, NextPart)
      /\ rest' = (IF CutUp(First) THEN <<RestBehind(First, Step)>> ELSE <<>>) \o Tail(rest)
      /\ UNCHANGED <<image, path, pc, disk>>
  BY DEF Yield, Place
<1>4. SoundSeq(rest')
  BY <1>2, <1>3, SoundCons, EmptyCons
<1>5. lead = <<>> \/ lead = <<Skip(cursor)>>
  OBVIOUS
<1> HIDE DEF lead
<1>6. Len(lead) \in {0, 1} /\ lead \in Seq({Skip(cursor)})
  <2>1. <<>> \in Seq({Skip(cursor)}) /\ Len(<<>>) = 0
    OBVIOUS
  <2>2. <<Skip(cursor)>> \in Seq({Skip(cursor)}) /\ Len(<<Skip(cursor)>>) = 1
    OBVIOUS
  <2>3. QED
    BY <1>5, <2>1, <2>2
<1>7. size' <= Room /\ size' \in Int
  <2>1. (Len(lead) + 1) * ChunkHdr <= 2 * ChunkHdr /\ (Len(lead) + 1) * ChunkHdr \in Int
    <3>1. CASE Len(lead) = 0
      BY <3>1, Numbers
    <3>2. CASE Len(lead) = 1
      BY <3>2, Numbers
    <3>3. QED
      BY <1>6, <3>1, <3>2
  <2>2. Room \in Int
    BY Numbers DEF Room
  <2>3. QED
    BY <1>2, <1>3, <2>1, <2>2, Numbers
<1>8. cursor' \in Int /\ cur' # <<>>
  <2>1. cursor' \in Int
    BY <1>2, <1>3 DEF SizeInv
  <2>2. Append(lead, NextPart) # <<>>
    BY <1>6
  <2>3. QED
    BY <1>3, <2>1, <2>2
<1>9. PiecesWithinLimit' /\ (\E S : pieces \in Seq(S))'
  BY <1>3, AppendPiece, PieceFits
<1>10. (path = "buffer" => ~TooSmall)' /\ Room' = Room
  BY <1>1, <1>3 DEF SizeInv, TooSmall, Room, Ready, Packing
<1>11. QED
  BY <1>3, <1>4, <1>7, <1>8, <1>9, <1>10 DEF SizeInv

\* The last piece.
LEMMA FinishSizes == ASSUME SizeInv, Finish PROVE SizeInv'
<1>1. UNCHANGED <<image, path, rest, cur, size, cursor>> /\ pc' = "flash" /\ rest = <<>>
  BY DEF Finish
<1>2. \/ pieces' = Append(pieces, Piece)
      \/ pieces' = <<Empty>>
      \/ pieces' = pieces
  BY DEF Finish
<1>3. PiecesWithinLimit' /\ (\E S : pieces \in Seq(S))'
  <2>1. CASE pieces' = Append(pieces, Piece)
    BY <1>1, <2>1, AppendPiece, PieceFits
  <2>2. CASE pieces' = <<Empty>>
    <3>1. <<Empty>> \in Seq({Empty}) /\ DOMAIN <<Empty>> = {1} /\ <<Empty>>[1] = Empty
      OBVIOUS
    <3>2. QED
      BY <1>1, <2>2, <3>1, EmptyFits DEF PiecesWithinLimit
  <2>3. CASE pieces' = pieces
    BY <1>1, <2>3 DEF SizeInv, PiecesWithinLimit
  <2>4. QED
    BY <1>2, <2>1, <2>2, <2>3
<1>4. QED
  BY <1>1, <1>3 DEF SizeInv, Room, SoundSeq

\* Reading the image, and the next chunk of a raw file.
LEMMA ReadSizes == ASSUME SizeInv, Read \/ ReadFile \/ DropChecksum PROVE SizeInv'
<1>1. UNCHANGED <<image, path, cur, size, cursor, pieces>>
  BY DEF Read, ReadFile, DropChecksum, Start, Stop
<1>2. CASE Read
  <2>1. \/ rest' = rest
        \/ rest' = image.chunks /\ ~(path = "buffer" /\ TooSmall)
    BY <1>2 DEF Read, Start, Stop
  <2>2. image \in Images
    BY DEF SizeInv
  <2>3. QED
    <3>1. SoundSeq(rest') /\ (rest' # <<>> /\ path = "buffer" => ~TooSmall)
      BY <2>1, <2>2, ImageChunks DEF SizeInv
    <3>2. QED
      BY <1>1, <3>1, KeepsSizes, SamePieces
<1>3. CASE ReadFile
  <2>1. /\ pc = "pack" /\ rest # <<>> /\ pc' = pc
    BY <1>3 DEF ReadFile, Packing
  <2>2. Sound(First) /\ SoundSeq(Tail(rest))
    BY <2>1, SoundHeadTail DEF SizeInv, First
  <2> DEFINE
      c == First
      data(j) == SubSeq(c.data, 1, j)
      chunk(j) == IF path = "blob"
                  THEN Chunk("RAW", j, data(j), IF j = c.blocks THEN c.bytes ELSE j * BlockSize, 0)
                  ELSE IF c.data[1] = Zero /\ BlockSize <= c.bytes THEN Skip(j)
                  ELSE Raw(j, data(j))
      behind(j) == Chunk("FILE", c.blocks - j, SubSeq(c.data, j + 1, c.blocks),
                         c.bytes - j * BlockSize, 0)
  <2>3. PICK j \in 1..First.blocks :
          rest' = <<chunk(j)>> \o (IF j = c.blocks THEN <<>> ELSE <<behind(j)>>) \o Tail(rest)
    BY <1>3 DEF ReadFile
  <2>4. /\ j \in Int /\ j * BlockSize \in Int
        /\ First.bytes \in Int /\ First.blocks \in Int /\ First.bytes - j * BlockSize \in Int
    BY <2>2, Numbers DEF Sound
  <2>5. Sound(chunk(j))
    BY <2>4, MadeSound DEF Skip, Raw
  <2>6. Sound(behind(j))
    BY <2>4, MadeSound
  <2> HIDE DEF chunk, behind
  <2>7. \/ rest' = <<chunk(j)>> \o Tail(rest)
        \/ rest' = <<chunk(j)>> \o (<<behind(j)>> \o Tail(rest))
    <3>1. PICK S : Tail(rest) \in Seq(S)
      BY <2>2 DEF SoundSeq
    <3>2. /\ <<chunk(j)>> \o <<>> = <<chunk(j)>>
          /\ (<<chunk(j)>> \o <<behind(j)>>) \o Tail(rest)
               = <<chunk(j)>> \o (<<behind(j)>> \o Tail(rest))
      BY <3>1
    <3>3. QED
      BY <2>3, <3>2
  <2>8. SoundSeq(rest')
    BY <2>2, <2>5, <2>6, <2>7, SoundCons
  <2>9. QED
    <3>1. rest' # <<>> /\ path = "buffer" => ~TooSmall
      BY <2>1 DEF SizeInv
    <3>2. QED
      BY <1>1, <2>8, <3>1, KeepsSizes, SamePieces
<1>4. CASE DropChecksum
  <2>1. rest # <<>> /\ rest' = Tail(rest) /\ pc' = pc /\ pc = "pack"
    BY <1>4 DEF DropChecksum, Packing
  <2>2. SoundSeq(rest')
    BY <2>1, SoundHeadTail DEF SizeInv
  <2>3. QED
    <3>1. rest' # <<>> /\ path = "buffer" => ~TooSmall
      BY <2>1 DEF SizeInv
    <3>2. QED
      BY <1>1, <2>2, <3>1, KeepsSizes, SamePieces
<1>5. QED
  BY <1>2, <1>3, <1>4

\* Every step keeps to the sizes.
LEMMA NextSizes == SizeInv /\ [Next]_pvars => SizeInv'
<1>1. SUFFICES ASSUME SizeInv, [Next]_pvars PROVE SizeInv'
  OBVIOUS
<1>2. CASE KeepWhole
  <2> DEFINE p == [chunks |-> image.chunks, bytes |-> FileBytes(image), bare |-> TRUE]
  <2>1. pieces' = <<p>> /\ FileBytes(image) <= Limit /\ path' = path
    BY <1>2 DEF KeepWhole, Whole
  <2>2. p.bytes <= Limit + 0 /\ p.bare
    BY <2>1, Numbers
  <2> HIDE DEF p
  <2>3. <<p>> \in Seq({p}) /\ DOMAIN <<p>> = {1} /\ <<p>>[1] = p
    OBVIOUS
  <2>4. PiecesWithinLimit' /\ (\E S : pieces \in Seq(S))'
    BY <2>1, <2>2, <2>3 DEF PiecesWithinLimit
  <2>5. UNCHANGED <<image, path, rest, cur, size, cursor>>
    BY <1>2 DEF KeepWhole
  <2>6. SoundSeq(rest') /\ (rest' # <<>> /\ path = "buffer" => ~TooSmall)
    BY <1>1, <2>5 DEF SizeInv
  <2>7. QED
    BY <1>1, <2>4, <2>5, <2>6, KeepsSizes
<1>3. CASE FlashPiece
  <2>1. UNCHANGED <<image, path, pc, rest, cur, size, cursor>> /\ pieces # <<>> /\ pieces' = Tail(pieces)
    BY <1>3 DEF FlashPiece
  <2>2. PICK S : pieces \in Seq(S)
    BY <1>1 DEF SizeInv
  <2>3. pieces' \in Seq(S) /\ \A i \in DOMAIN pieces' : i + 1 \in DOMAIN pieces /\ pieces'[i] = pieces[i + 1]
    BY <2>1, <2>2
  <2>4. PiecesWithinLimit'
    <3>1. \A i \in DOMAIN pieces :
            pieces[i].bytes <= Limit + (IF path = "blob" /\ ~pieces[i].bare THEN ChunkHdr ELSE 0)
      BY <1>1 DEF SizeInv, PiecesWithinLimit
    <3>2. ASSUME NEW i \in DOMAIN pieces'
          PROVE  pieces'[i].bytes <= Limit + (IF path' = "blob" /\ ~pieces'[i].bare THEN ChunkHdr ELSE 0)
      <4>1. i + 1 \in DOMAIN pieces /\ pieces'[i] = pieces[i + 1] /\ path' = path
        BY <2>1, <2>3
      <4>2. QED
        BY <3>1, <4>1
    <3>3. QED
      BY <3>2 DEF PiecesWithinLimit
  <2>5. SoundSeq(rest') /\ (rest' # <<>> /\ path = "buffer" => ~TooSmall)
    BY <1>1, <2>1 DEF SizeInv
  <2>6. QED
    BY <1>1, <2>1, <2>3, <2>4, <2>5, KeepsSizes
<1>4. CASE Refuse \/ Done \/ UNCHANGED pvars
  <2>1. UNCHANGED <<image, path, rest, cur, size, cursor, pieces>>
    BY <1>4 DEF Refuse, Done, Stop, pvars
  <2>2. SoundSeq(rest') /\ (rest' # <<>> /\ path = "buffer" => ~TooSmall)
    BY <1>1, <2>1 DEF SizeInv
  <2>3. QED
    BY <1>1, <2>1, <2>2, KeepsSizes, SamePieces
<1>5. QED
  BY <1>1, <1>2, <1>3, <1>4, PushSizes, YieldSizes, FinishSizes, ReadSizes, Zenon DEF Next

\* No piece is larger than max-download-size, but for the header of the skip
\* that splitBlob() appends without looking (sparse.js:238, 243).
THEOREM PiecesStayWithinLimit == Spec => []PiecesWithinLimit
<1>1. SizeInv => PiecesWithinLimit
  BY DEF SizeInv
<1>2. QED
  BY <1>1, InitSizes, NextSizes, PTL DEF Spec

-----------------------------------------------------------------------------
-----------------------------------------------------------------------------
(* Sums over the chunks of an image                                        *)

\* Induction on numbers, for a set instead of a predicate.
LEMMA Induction ==
    ASSUME NEW T, 0 \in T, \A n \in Nat : n \in T => n + 1 \in T
    PROVE  Nat \subseteq T
<1> SUFFICES ASSUME Nat \ T # {} PROVE FALSE
  OBVIOUS
<1>1. PICK x \in Nat \ T : \A y \in Nat \ T : ~(<<y, x>> \in OpToRel(<, Nat))
  BY WFMin, NatLessThanWellFounded
<1>2. \A y \in Nat \ T : ~(y < x)
  BY <1>1 DEF OpToRel
<1>3. x # 0 /\ x \in Nat
  BY <1>1
<1>4. x - 1 \in Nat /\ x - 1 < x
  BY <1>3
<1>5. x - 1 \in T
  BY <1>2, <1>4
<1>6. (x - 1) + 1 \in T
  BY <1>4, <1>5
<1>7. (x - 1) + 1 = x
  BY <1>3
<1>8. QED
  BY <1>1, <1>6, <1>7

\* f is what the steps of a recursion over 1..n make of a value.
Runs(n, V, v, step, f) ==
    /\ f \in [0..n -> V] /\ f[0] = v
    /\ \A i \in 1..n : f[i] = step[i][f[i - 1]]

\* There is such a function.
LEMMA Recursion ==
    ASSUME NEW N \in Nat, NEW V, NEW v \in V, NEW step \in [1..N -> [V -> V]]
    PROVE  \E f : Runs(N, V, v, step, f)
<1> DEFINE T == {n \in Nat : n <= N => \E f : Runs(n, V, v, step, f)}
<1>1. 0 \in T
  <2>1. Runs(0, V, v, step, [i \in 0..0 |-> v])
    BY DEF Runs
  <2>2. QED
    BY <2>1
<1>2. ASSUME NEW n \in Nat, n \in T PROVE n + 1 \in T
  <2>1. SUFFICES ASSUME n + 1 <= N PROVE \E f : Runs(n + 1, V, v, step, f)
    OBVIOUS
  <2>2. PICK f : Runs(n, V, v, step, f)
    BY <1>2, <2>1
  <2> DEFINE w == step[n + 1][f[n]]
             g == [i \in 0..(n + 1) |-> IF i = n + 1 THEN w ELSE f[i]]
  <2>3. w \in V
    <3>1. n + 1 \in 1..N /\ n \in 0..n
      BY <2>1
    <3>2. f[n] \in V /\ step[n + 1] \in [V -> V]
      BY <2>2, <3>1 DEF Runs
    <3>3. QED
      BY <3>2
  <2>4. \A i \in 0..(n + 1) : i = n + 1 \/ (i \in 0..n /\ i # n + 1)
    OBVIOUS
  <2>5. g \in [0..(n + 1) -> V] /\ g[0] = v
    BY <2>2, <2>3, <2>4 DEF Runs
  <2>6. ASSUME NEW i \in 1..(n + 1) PROVE g[i] = step[i][g[i - 1]]
    <3>1. i \in 0..(n + 1) /\ i - 1 \in 0..n /\ i - 1 # n + 1 /\ i - 1 \in 0..(n + 1)
      OBVIOUS
    <3>2. g[i - 1] = f[i - 1]
      BY <3>1
    <3>3. CASE i = n + 1
      <4>1. g[i] = w /\ i - 1 = n
        BY <3>1, <3>3
      <4>2. QED
        BY <3>2, <3>3, <4>1
    <3>4. CASE i # n + 1
      <4>1. i \in 1..n /\ g[i] = f[i]
        BY <3>1, <3>4
      <4>2. QED
        BY <2>2, <3>2, <4>1 DEF Runs
    <3>5. QED
      BY <3>3, <3>4
  <2>7. QED
    <3> HIDE DEF g
    <3>1. QED
      BY <2>5, <2>6 DEF Runs
<1>3. N \in T
  <2> HIDE DEF T
  <2>1. QED
    BY <1>1, <1>2, Induction
<1>4. QED
  BY <1>3

\* FlattenSeq() joins its arguments from the left.
LEMMA Flattening ==
    ASSUME NEW S, NEW p \in Seq(Seq(S))
    PROVE  \E f : /\ f \in [0..Len(p) -> Seq(S)] /\ f[0] = <<>>
                  /\ \A i \in 1..Len(p) : f[i] = f[i - 1] \o p[i]
                  /\ FlattenSeq(p) = f[Len(p)]
<1> DEFINE N == Len(p)
           step == [i \in 1..N |-> [x \in Seq(S) |-> x \o p[i]]]
           Body(h) == [i \in 1..N |-> IF i = 1 THEN p[i] ELSE h[i - 1] \o p[i]]
           flat == CHOOSE h : h = Body(h)
<1>0. N \in Nat /\ p \in [1..N -> Seq(S)] /\ <<>> \in Seq(S)
  OBVIOUS
<1>1. step \in [1..N -> [Seq(S) -> Seq(S)]]
  <2>1. ASSUME NEW i \in 1..N, NEW x \in Seq(S) PROVE x \o p[i] \in Seq(S)
    <3>1. p[i] \in Seq(S)
      BY <1>0
    <3>2. QED
      BY <3>1, ConcatProperties, Zenon
  <2>2. QED
    BY <2>1
<1>2. PICK f : Runs(N, Seq(S), <<>>, step, f)
  <2> HIDE DEF step, N
  <2>1. QED
    BY <1>0, <1>1, Recursion
<1>3. f \in [0..N -> Seq(S)] /\ f[0] = <<>>
  BY <1>2 DEF Runs
<1>4. ASSUME NEW i \in 1..N PROVE f[i] = f[i - 1] \o p[i]
  <2>1. i - 1 \in 0..N
    OBVIOUS
  <2>2. f[i - 1] \in Seq(S) /\ f[i] = step[i][f[i - 1]]
    BY <1>2, <2>1 DEF Runs
  <2>3. QED
    BY <2>2
<1> HIDE DEF step
<1>5. CASE N = 0
  <2>1. p = <<>>
    BY <1>5
  <2>2. FlattenSeq(p) = p
    BY <1>5 DEF FlattenSeq
  <2>3. QED
    BY <1>3, <1>4, <1>5, <2>1, <2>2
<1>6. CASE N # 0
  <2> DEFINE g == [i \in 1..N |-> f[i]]
  <2>1. \A i \in 1..N : g[i] = Body(g)[i]
    <3>1. SUFFICES ASSUME NEW i \in 1..N PROVE g[i] = Body(g)[i]
      BY Zenon
    <3>2. CASE i = 1
      <4>1. i - 1 = 0
        BY <3>2
      <4>2. <<>> \o p[i] = p[i]
        <5>1. p[i] \in Seq(S)
          BY <1>0
        <5>2. QED
          BY <5>1
      <4>3. f[i] = p[i]
        BY <1>3, <1>4, <4>1, <4>2
      <4>4. QED
        BY <3>2, <4>3
    <3>3. CASE i # 1
      <4>1. i - 1 \in 1..N
        BY <3>3
      <4>2. QED
        BY <1>4, <3>3, <4>1
    <3>4. QED
      BY <3>2, <3>3
  <2>2. g = Body(g)
    BY <2>1
  <2>3. flat = Body(flat)
    <3> HIDE DEF Body, g
    <3>1. QED
      BY <2>2
  <2>4. FlattenSeq(p) = flat[N]
    BY <1>6 DEF FlattenSeq
  <2> HIDE DEF flat
  <2>5. \A i \in 1..N : flat[i] = IF i = 1 THEN p[i] ELSE flat[i - 1] \o p[i]
    BY <2>3
  <2> DEFINE R == {n \in Nat : n + 1 <= N => flat[n + 1] = f[n + 1]}
  <2>6. 0 \in R
    <3>1. 1 \in 1..N /\ g[1] = f[1]
      BY <1>0, <1>6
    <3>2. g[1] = p[1]
      BY <2>2, <3>1
    <3>3. QED
      BY <2>5, <3>1, <3>2
  <2>7. ASSUME NEW n \in Nat, n \in R PROVE n + 1 \in R
    <3>1. SUFFICES ASSUME n + 2 <= N PROVE flat[n + 2] = f[n + 2]
      BY <1>0
    <3>2. n + 2 \in 1..N /\ n + 2 # 1 /\ (n + 2) - 1 = n + 1 /\ n + 1 <= N
      BY <1>0, <3>1
    <3>3. flat[n + 1] = f[n + 1]
      BY <2>7, <3>2
    <3>4. /\ flat[n + 2] = flat[(n + 2) - 1] \o p[n + 2]
          /\ f[n + 2] = f[(n + 2) - 1] \o p[n + 2]
      BY <1>4, <2>5, <3>2
    <3>5. QED
      BY <3>2, <3>3, <3>4, Zenon
  <2>8. N - 1 \in R
    <3> HIDE DEF R
    <3>1. N - 1 \in Nat
      BY <1>0, <1>6
    <3>2. QED
      BY <2>6, <2>7, <3>1, Induction
  <2>9. flat[N] = f[N]
    BY <1>0, <2>8
  <2>10. QED
    BY <1>3, <1>4, <2>4, <2>9
<1>7. QED
  BY <1>5, <1>6

\* Concatenation is associative.
LEMMA Regroup == \A S : \A a, b, c \in Seq(S) : (a \o b) \o c = a \o (b \o c)
  BY ConcatAssociative

\* What is joined is the one list behind the other.
LEMMA FlattenConcat ==
    ASSUME NEW S, NEW p \in Seq(Seq(S)), NEW q \in Seq(Seq(S))
    PROVE  /\ FlattenSeq(p \o q) = FlattenSeq(p) \o FlattenSeq(q)
           /\ FlattenSeq(p) \in Seq(S) /\ FlattenSeq(q) \in Seq(S)
<1> DEFINE r == p \o q
           m == Len(p)
           k == Len(q)
<1>1. /\ r \in Seq(Seq(S)) /\ m \in Nat /\ k \in Nat /\ Len(r) = m + k
      /\ \A i \in 1..m : r[i] = p[i]
      /\ \A i \in 1..k : r[m + i] = q[i]
  BY ConcatProperties
<1>2. PICK f : /\ f \in [0..m -> Seq(S)] /\ f[0] = <<>>
               /\ \A i \in 1..m : f[i] = f[i - 1] \o p[i]
               /\ FlattenSeq(p) = f[m]
  BY Flattening, Zenon
<1>3. PICK g : /\ g \in [0..k -> Seq(S)] /\ g[0] = <<>>
               /\ \A i \in 1..k : g[i] = g[i - 1] \o q[i]
               /\ FlattenSeq(q) = g[k]
  BY Flattening, Zenon
<1> HIDE DEF r, m, k
<1>4. PICK h : /\ h \in [0..Len(r) -> Seq(S)] /\ h[0] = <<>>
               /\ \A i \in 1..Len(r) : h[i] = h[i - 1] \o r[i]
               /\ FlattenSeq(r) = h[Len(r)]
  BY <1>1, Flattening, Zenon
<1> DEFINE T == {n \in Nat : n <= m => h[n] = f[n]}
           U == {n \in Nat : n <= k => h[m + n] = f[m] \o g[n]}
<1>5. 0 \in T
  BY <1>2, <1>4
<1>6. ASSUME NEW n \in Nat, n \in T PROVE n + 1 \in T
  <2>1. SUFFICES ASSUME n + 1 <= m PROVE h[n + 1] = f[n + 1]
    OBVIOUS
  <2>2. n + 1 \in 1..m /\ n + 1 \in 1..Len(r) /\ (n + 1) - 1 = n /\ n <= m
    BY <1>1, <2>1
  <2>3. h[n] = f[n]
    BY <1>6, <2>2
  <2>4. h[n + 1] = h[(n + 1) - 1] \o r[n + 1] /\ f[n + 1] = f[(n + 1) - 1] \o p[n + 1]
    BY <1>2, <1>4, <2>2, Zenon
  <2>5. r[n + 1] = p[n + 1]
    BY <1>1, <2>2
  <2>6. QED
    BY <2>2, <2>3, <2>4, <2>5, Zenon
<1>7. m \in T
  <2> HIDE DEF T
  <2>1. QED
    BY <1>1, <1>5, <1>6, Induction
<1>8. h[m] = f[m] /\ f[m] \in Seq(S)
  BY <1>1, <1>2, <1>7
<1>9. 0 \in U
  <2>1. f[m] \o <<>> = f[m] /\ m + 0 = m
    BY <1>1, <1>8
  <2>2. h[m + 0] = f[m] \o g[0]
    BY <1>3, <1>8, <2>1, Zenon
  <2>3. QED
    BY <2>2
<1>10. ASSUME NEW n \in Nat, n \in U PROVE n + 1 \in U
  <2>1. SUFFICES ASSUME n + 1 <= k PROVE h[m + (n + 1)] = f[m] \o g[n + 1]
    <3>1. n + 1 \in Nat
      OBVIOUS
    <3>2. QED
      BY <3>1, Zenon
  <2>2. /\ n + 1 \in 1..k /\ m + (n + 1) \in 1..Len(r) /\ (n + 1) - 1 = n
        /\ (m + (n + 1)) - 1 = m + n /\ n <= k /\ n \in 0..k
    BY <1>1, <2>1
  <2>3. h[m + n] = f[m] \o g[n]
    BY <1>10, <2>2
  <2>4. /\ h[m + (n + 1)] = h[(m + (n + 1)) - 1] \o r[m + (n + 1)]
        /\ g[n + 1] = g[(n + 1) - 1] \o q[n + 1]
    BY <1>3, <1>4, <2>2, Zenon
  <2>5. r[m + (n + 1)] = q[n + 1]
    BY <1>1, <2>2
  <2>6. g[n] \in Seq(S) /\ q[n + 1] \in Seq(S)
    <3>1. q \in [1..k -> Seq(S)]
      BY DEF k
    <3>2. QED
      BY <1>3, <2>2, <3>1
  <2>7. (f[m] \o g[n]) \o q[n + 1] = f[m] \o (g[n] \o q[n + 1])
    <3>1. PICK x, y, z : x = f[m] /\ y = g[n] /\ z = q[n + 1]
      BY Zenon
    <3>2. x \in Seq(S) /\ y \in Seq(S) /\ z \in Seq(S)
      BY <1>8, <2>6, <3>1, Zenon
    <3>3. (x \o y) \o z = x \o (y \o z)
      BY <3>2, Regroup
    <3>4. QED
      BY <3>1, <3>3, Zenon
  <2>8. QED
    BY <2>2, <2>3, <2>4, <2>5, <2>7, Zenon
<1>11. k \in U
  <2> HIDE DEF U
  <2>1. QED
    BY <1>1, <1>9, <1>10, Induction
<1>12. h[m + k] = f[m] \o g[k]
  <2>1. k <= k
    BY <1>1
  <2>2. QED
    BY <1>11, <2>1, Zenon
<1>13. f[m] \in Seq(S) /\ g[k] \in Seq(S)
  BY <1>1, <1>3, <1>8
<1>14. FlattenSeq(r) = FlattenSeq(p) \o FlattenSeq(q)
  BY <1>1, <1>2, <1>3, <1>4, <1>12, Zenon
<1>15. QED
  BY <1>2, <1>3, <1>13, <1>14, Zenon DEF r

\* A list of nothing, and of one sequence.
LEMMA FlattenOne ==
    ASSUME NEW S, NEW x \in Seq(S)
    PROVE  FlattenSeq(<<>>) = <<>> /\ FlattenSeq(<<x>>) = x
<1>1. FlattenSeq(<<>>) = <<>>
  BY DEF FlattenSeq
<1>2. <<x>> \in Seq(Seq(S)) /\ Len(<<x>>) = 1 /\ <<x>>[1] = x
  OBVIOUS
<1>3. PICK f : /\ f \in [0..1 -> Seq(S)] /\ f[0] = <<>>
               /\ \A i \in 1..1 : f[i] = f[i - 1] \o <<x>>[i]
               /\ FlattenSeq(<<x>>) = f[1]
  BY <1>2, Flattening, Zenon
<1>4. 1 \in 1..1 /\ 1 - 1 = 0
  OBVIOUS
<1>5. f[1] = <<>> \o x
  BY <1>2, <1>3, <1>4, Zenon
<1>6. <<>> \o x = x
  OBVIOUS
<1>7. QED
  BY <1>1, <1>3, <1>5, <1>6, Zenon

\* BytesOf() adds up a header and a payload for every chunk.
LEMMA Adding ==
    ASSUME NEW T, NEW s \in Seq(T), \A c \in T : Payload(c) \in Int
    PROVE  \E f : /\ f \in [0..Len(s) -> Int] /\ f[0] = FileHdr
                  /\ \A i \in 1..Len(s) : f[i] = f[i - 1] + ChunkHdr + Payload(s[i])
                  /\ BytesOf(s) = f[Len(s)]
<1> DEFINE N == Len(s)
           step == [i \in 1..N |-> [x \in Int |-> x + ChunkHdr + Payload(s[i])]]
           Body(h) == [n \in 0..N |-> IF n = 0 THEN FileHdr
                                      ELSE h[n - 1] + ChunkHdr + Payload(s[n])]
           upTo == CHOOSE h : h = Body(h)
<1>0. N \in Nat /\ s \in [1..N -> T] /\ FileHdr \in Int /\ ChunkHdr \in Int
  <2>1. N \in Nat /\ s \in [1..N -> T]
    OBVIOUS
  <2>2. QED
    BY <2>1, Numbers
<1>1. step \in [1..N -> [Int -> Int]]
  <2>1. ASSUME NEW i \in 1..N, NEW x \in Int PROVE x + ChunkHdr + Payload(s[i]) \in Int
    <3>1. s[i] \in T
      BY <1>0
    <3>2. Payload(s[i]) \in Int
      BY <3>1
    <3>3. QED
      BY <1>0, <3>2
  <2>2. QED
    BY <2>1
<1>2. PICK f : Runs(N, Int, FileHdr, step, f)
  <2> HIDE DEF step, N
  <2>1. QED
    BY <1>0, <1>1, Recursion
<1>3. f \in [0..N -> Int] /\ f[0] = FileHdr
  BY <1>2 DEF Runs
<1>4. ASSUME NEW i \in 1..N PROVE f[i] = f[i - 1] + ChunkHdr + Payload(s[i])
  <2>1. i - 1 \in 0..N
    OBVIOUS
  <2>2. f[i - 1] \in Int /\ f[i] = step[i][f[i - 1]]
    BY <1>2, <2>1 DEF Runs
  <2>3. QED
    BY <2>2
<1> HIDE DEF step
<1>5. upTo = Body(upTo)
  <2>1. \A i \in 0..N : f[i] = Body(f)[i]
    <3>1. \A i \in 0..N : i = 0 \/ i \in 1..N
      BY <1>0
    <3>2. QED
      BY <1>3, <1>4, <3>1
  <2>2. f = Body(f)
    BY <1>3, <2>1
  <2> HIDE DEF Body
  <2>3. QED
    BY <2>2
<1>6. BytesOf(s) = upTo[N]
  BY DEF BytesOf
<1> HIDE DEF upTo
<1>7. \A i \in 0..N : upTo[i] = IF i = 0 THEN FileHdr ELSE upTo[i - 1] + ChunkHdr + Payload(s[i])
  BY <1>5
<1> DEFINE R == {n \in Nat : n <= N => upTo[n] = f[n]}
<1>8. 0 \in R
  BY <1>0, <1>3, <1>7
<1>9. ASSUME NEW n \in Nat, n \in R PROVE n + 1 \in R
  <2>1. SUFFICES ASSUME n + 1 <= N PROVE upTo[n + 1] = f[n + 1]
    OBVIOUS
  <2>2. /\ n + 1 \in 1..N /\ n + 1 \in 0..N /\ n + 1 # 0 /\ (n + 1) - 1 = n /\ n <= N
    BY <1>0, <2>1
  <2>3. upTo[n] = f[n]
    BY <1>9, <2>2
  <2>4. /\ upTo[n + 1] = upTo[(n + 1) - 1] + ChunkHdr + Payload(s[n + 1])
        /\ f[n + 1] = f[(n + 1) - 1] + ChunkHdr + Payload(s[n + 1])
    BY <1>4, <1>7, <2>2, Zenon
  <2>5. QED
    BY <2>2, <2>3, <2>4, Zenon
<1>10. N \in R
  <2> HIDE DEF R, N
  <2>1. QED
    BY <1>0, <1>8, <1>9, Induction
<1>11. upTo[N] = f[N]
  BY <1>0, <1>10
<1>12. QED
  BY <1>3, <1>4, <1>6, <1>11

\* A chunk more makes an image larger by a header and its payload.
LEMMA BytesAppend ==
    ASSUME NEW T, NEW s \in Seq(T), NEW c \in T, \A d \in T : Payload(d) \in Int
    PROVE  BytesOf(Append(s, c)) = BytesOf(s) + ChunkHdr + Payload(c)
<1> DEFINE r == Append(s, c)
           m == Len(s)
<1>1. /\ r \in Seq(T) /\ m \in Nat /\ Len(r) = m + 1
      /\ \A i \in 1..m : r[i] = s[i]
      /\ r[m + 1] = c
  OBVIOUS
<1>2. PICK f : /\ f \in [0..m -> Int] /\ f[0] = FileHdr
               /\ \A i \in 1..m : f[i] = f[i - 1] + ChunkHdr + Payload(s[i])
               /\ BytesOf(s) = f[m]
  BY Adding, Zenon
<1> HIDE DEF r, m
<1>3. PICK h : /\ h \in [0..Len(r) -> Int] /\ h[0] = FileHdr
               /\ \A i \in 1..Len(r) : h[i] = h[i - 1] + ChunkHdr + Payload(r[i])
               /\ BytesOf(r) = h[Len(r)]
  BY <1>1, Adding, Zenon
<1> DEFINE R == {n \in Nat : n <= m => h[n] = f[n]}
<1>4. 0 \in R
  BY <1>2, <1>3
<1>5. ASSUME NEW n \in Nat, n \in R PROVE n + 1 \in R
  <2>1. SUFFICES ASSUME n + 1 <= m PROVE h[n + 1] = f[n + 1]
    OBVIOUS
  <2>2. n + 1 \in 1..m /\ n + 1 \in 1..Len(r) /\ (n + 1) - 1 = n /\ n <= m
    BY <1>1, <2>1
  <2>3. h[n] = f[n]
    BY <1>5, <2>2
  <2>4. /\ h[n + 1] = h[(n + 1) - 1] + ChunkHdr + Payload(r[n + 1])
        /\ f[n + 1] = f[(n + 1) - 1] + ChunkHdr + Payload(s[n + 1])
    BY <1>2, <1>3, <2>2, Zenon
  <2>5. r[n + 1] = s[n + 1]
    BY <1>1, <2>2
  <2>6. QED
    BY <2>2, <2>3, <2>4, <2>5, Zenon
<1>6. m \in R
  <2> HIDE DEF R
  <2>1. QED
    BY <1>1, <1>4, <1>5, Induction
<1>7. h[m] = f[m]
  BY <1>1, <1>6
<1>8. m + 1 \in 1..Len(r) /\ (m + 1) - 1 = m
  BY <1>1
<1>9. h[m + 1] = h[m] + ChunkHdr + Payload(c)
  BY <1>1, <1>3, <1>8, Zenon
<1>10. QED
  BY <1>1, <1>2, <1>3, <1>7, <1>9, Zenon DEF r

\* An image without chunks is its header.
LEMMA BytesOfNone == BytesOf(<<>>) = FileHdr
<1>1. SUFFICES ASSUME NEW s, s = <<>>, NEW T, T = {} PROVE BytesOf(s) = FileHdr
  BY Zenon
<1>2. s \in Seq(T) /\ Len(s) = 0 /\ \A c \in T : Payload(c) \in Int
  BY <1>1
<1>3. PICK f : /\ f \in [0..Len(s) -> Int] /\ f[0] = FileHdr
               /\ \A i \in 1..Len(s) : f[i] = f[i - 1] + ChunkHdr + Payload(s[i])
               /\ BytesOf(s) = f[Len(s)]
  BY <1>2, Adding, Zenon
<1>4. QED
  BY <1>2, <1>3, Zenon

-----------------------------------------------------------------------------
(* What becomes of the chunks                                              *)

\* The data of the image, and what a block of a piece may be.
Values == UNION {{image.chunks[i].data[j] : j \in DOMAIN image.chunks[i].data} :
                    i \in DOMAIN image.chunks}
Cells == Values \cup {Keep, Zero}

HasCrc == \E i \in DOMAIN image.chunks : image.chunks[i].type = "CRC32"

\* A chunk of an image that is neither cut off nor ends within a block.
Good(c) ==
    /\ Sound(c) /\ c.short = 0 /\ c.blocks \in Nat
    /\ c.data \in Seq(Values)
    /\ c.type = "RAW" => c.bytes = c.blocks * BlockSize /\ Len(c.data) = c.blocks
    /\ c.type = "FILL" => Len(c.data) = 1
    /\ c.type = "CRC32" => c.blocks = 0 /\ HasCrc
    /\ c.type = "FILE" => RawFile(c) /\ (path = "blob" => c.bytes = c.blocks * BlockSize)

GoodSeq(s) == \E T : s \in Seq(T) /\ \A c \in T : Good(c)

\* What the pieces make of a chunk: rawToChunks() leaves out whole blocks of
\* zeros, and splitBlob() writes zeros for the value of a FILL.
ZeroAt(c, i) == c.data[i] = Zero /\ i * BlockSize <= c.bytes

ToBe(c) ==
    IF c.type = "FILE" /\ path = "buffer"
    THEN [i \in 1..c.blocks |-> IF ZeroAt(c, i) THEN Keep ELSE c.data[i]]
    ELSE Expand(Written(c))

AllToBe(s) == [i \in DOMAIN s |-> ToBe(s[i])]
Pending(s) == FlattenSeq(AllToBe(s))

\* ToBe() by type of chunk.
LEMMA ToBeForms ==
    ASSUME NEW c, Good(c), path \in {"blob", "buffer"}
    PROVE  /\ c.type = "RAW" => ToBe(c) = c.data
           /\ c.type = "FILL" =>
                ToBe(c) = [i \in 1..c.blocks |-> IF path = "blob" THEN Zero ELSE c.data[1]]
           /\ c.type = "DONT_CARE" => ToBe(c) = [i \in 1..c.blocks |-> Keep]
           /\ c.type = "CRC32" => ToBe(c) = <<>>
           /\ c.type = "FILE" =>
                ToBe(c) = IF path = "blob" THEN c.data
                          ELSE [i \in 1..c.blocks |-> IF ZeroAt(c, i) THEN Keep ELSE c.data[i]]
<1>1. CASE c.type = "RAW"
  <2>1. Written(c) = c
    BY <1>1 DEF Written
  <2>2. ToBe(c) = c.data
    BY <1>1, <2>1 DEF ToBe, Expand
  <2>3. QED
    BY <1>1, <2>2
<1>2. CASE c.type = "FILL"
  <2>1. CASE path = "buffer"
    <3>1. Written(c) = c
      BY <2>1 DEF Written
    <3>2. ToBe(c) = [i \in 1..c.blocks |-> c.data[1]]
      BY <1>2, <3>1 DEF ToBe, Expand
    <3>3. QED
      BY <1>2, <2>1, <3>2
  <2>2. CASE path = "blob"
    <3>1. Written(c) = [c EXCEPT !.data = <<Zero>>]
      BY <1>2, <2>2 DEF Written
    <3>2. PICK d : d = Written(c)
      OBVIOUS
    <3>3. d.type = "FILL" /\ d.blocks = c.blocks /\ d.data = <<Zero>>
      BY <1>2, <3>1, <3>2
    <3>4. ToBe(c) = Expand(d)
      BY <2>2, <3>2 DEF ToBe
    <3>5. Expand(d) = [i \in 1..c.blocks |-> Zero]
      BY <3>3 DEF Expand
    <3>6. QED
      BY <1>2, <2>2, <3>4, <3>5
  <2>3. QED
    BY <2>1, <2>2
<1>3. CASE c.type = "DONT_CARE"
  <2>1. Written(c) = c
    BY <1>3 DEF Written
  <2>2. ToBe(c) = [i \in 1..c.blocks |-> Keep]
    BY <1>3, <2>1 DEF ToBe, Expand
  <2>3. QED
    BY <1>3, <2>2
<1>4. CASE c.type = "CRC32"
  <2>1. PICK d : d = Written(c)
    OBVIOUS
  <2>2. d.type = "CRC32"
    BY <1>4, <2>1 DEF Written
  <2>3. ToBe(c) = Expand(d) /\ Expand(d) = <<>>
    BY <1>4, <2>1, <2>2 DEF ToBe, Expand
  <2>4. QED
    BY <1>4, <2>3
<1>5. CASE c.type = "FILE"
  <2>1. Written(c) = c
    BY <1>5 DEF Written
  <2>2. path = "blob" => ToBe(c) = c.data
    BY <1>5, <2>1 DEF ToBe, Expand
  <2>3. QED
    BY <1>5, <2>2 DEF ToBe
<1>6. QED
  BY <1>1, <1>2, <1>3, <1>4, <1>5 DEF Good, Sound

\* It declares as many blocks as the chunk.
LEMMA ToBeTypes ==
    ASSUME NEW c, Good(c), path \in {"blob", "buffer"}
    PROVE  ToBe(c) \in Seq(Cells) /\ Len(ToBe(c)) = c.blocks
<1>1. c.blocks \in Nat /\ c.data \in Seq(Cells) /\ Keep \in Cells /\ Zero \in Cells
  BY DEF Good, Cells
<1>2. ASSUME NEW f, f \in [1..c.blocks -> Cells] PROVE f \in Seq(Cells) /\ Len(f) = c.blocks
  BY <1>1, <1>2
<1>3. CASE c.type = "RAW"
  BY <1>1, <1>3, ToBeForms DEF Good
<1>4. CASE c.type = "FILL"
  <2>1. c.data[1] \in Cells
    BY <1>1, <1>4 DEF Good
  <2>2. ToBe(c) \in [1..c.blocks -> Cells]
    BY <1>1, <1>4, <2>1, ToBeForms
  <2>3. QED
    BY <1>2, <2>2
<1>5. CASE c.type = "DONT_CARE"
  <2>1. ToBe(c) \in [1..c.blocks -> Cells]
    BY <1>1, <1>5, ToBeForms
  <2>2. QED
    BY <1>2, <2>1
<1>6. CASE c.type = "CRC32"
  <2>1. ToBe(c) = <<>> /\ c.blocks = 0
    BY <1>6, ToBeForms DEF Good
  <2>2. <<>> \in Seq(Cells) /\ Len(<<>>) = 0
    OBVIOUS
  <2>3. QED
    BY <2>1, <2>2
<1>7. CASE c.type = "FILE"
  <2>1. Len(c.data) = c.blocks
    BY <1>7 DEF Good, RawFile
  <2>2. \A i \in 1..c.blocks : c.data[i] \in Cells
    BY <1>1, <2>1
  <2>3. CASE path = "blob"
    BY <1>1, <1>7, <2>1, <2>3, ToBeForms
  <2>4. CASE path = "buffer"
    <3>1. ToBe(c) = [i \in 1..c.blocks |-> IF ZeroAt(c, i) THEN Keep ELSE c.data[i]]
      BY <1>7, <2>4, ToBeForms
    <3>2. ToBe(c) \in [1..c.blocks -> Cells]
      BY <1>1, <2>2, <3>1
    <3>3. QED
      BY <1>2, <3>2
  <2>5. QED
    BY <2>3, <2>4
<1>8. QED
  BY <1>3, <1>4, <1>5, <1>6, <1>7 DEF Good, Sound

\* Lists of good chunks behind each other.
LEMMA PendingConcat ==
    ASSUME path \in {"blob", "buffer"}, NEW s, GoodSeq(s), NEW t, GoodSeq(t)
    PROVE  /\ Pending(s \o t) = Pending(s) \o Pending(t)
           /\ Pending(s) \in Seq(Cells) /\ Pending(t) \in Seq(Cells)
           /\ Len(Pending(s \o t)) = Len(Pending(s)) + Len(Pending(t))
           /\ GoodSeq(s \o t)
<1>1. PICK S : s \in Seq(S) /\ \A c \in S : Good(c)
  BY DEF GoodSeq
<1>2. PICK T : t \in Seq(T) /\ \A c \in T : Good(c)
  BY DEF GoodSeq
<1> DEFINE U == S \cup T
<1>3. s \in Seq(U) /\ t \in Seq(U) /\ \A c \in U : Good(c)
  BY <1>1, <1>2
<1> HIDE DEF U
<1>4. \A c \in U : ToBe(c) \in Seq(Cells)
  BY <1>3, ToBeTypes
<1>5. /\ s \o t \in Seq(U) /\ Len(s) \in Nat /\ Len(t) \in Nat /\ Len(s \o t) = Len(s) + Len(t)
      /\ \A i \in 1..Len(s) : (s \o t)[i] = s[i]
      /\ \A i \in 1..Len(t) : (s \o t)[Len(s) + i] = t[i]
  BY <1>3, ConcatProperties
<1>6. ASSUME NEW q \in Seq(U)
      PROVE  /\ AllToBe(q) \in Seq(Seq(Cells)) /\ Len(AllToBe(q)) = Len(q)
             /\ \A i \in 1..Len(q) : AllToBe(q)[i] = ToBe(q[i])
  <2>1. DOMAIN q = 1..Len(q) /\ Len(q) \in Nat /\ \A i \in 1..Len(q) : q[i] \in U
    OBVIOUS
  <2>2. AllToBe(q) \in [1..Len(q) -> Seq(Cells)]
    BY <1>4, <2>1 DEF AllToBe
  <2>3. QED
    BY <2>1, <2>2 DEF AllToBe
<1>7. AllToBe(s \o t) = AllToBe(s) \o AllToBe(t)
  <2> DEFINE l == AllToBe(s \o t)
             r == AllToBe(s) \o AllToBe(t)
  <2>1. /\ r \in Seq(Seq(Cells)) /\ Len(r) = Len(s) + Len(t)
        /\ \A i \in 1..Len(s) : r[i] = AllToBe(s)[i]
        /\ \A i \in 1..Len(t) : r[Len(s) + i] = AllToBe(t)[i]
    <3>1. AllToBe(s) \in Seq(Seq(Cells)) /\ AllToBe(t) \in Seq(Seq(Cells))
          /\ Len(AllToBe(s)) = Len(s) /\ Len(AllToBe(t)) = Len(t)
      BY <1>3, <1>6
    <3>2. ASSUME NEW a \in Seq(Seq(Cells)), NEW b \in Seq(Seq(Cells))
          PROVE  /\ a \o b \in Seq(Seq(Cells)) /\ Len(a \o b) = Len(a) + Len(b)
                 /\ \A i \in 1..Len(a) : (a \o b)[i] = a[i]
                 /\ \A i \in 1..Len(b) : (a \o b)[Len(a) + i] = b[i]
      BY ConcatProperties
    <3>3. /\ r \in Seq(Seq(Cells)) /\ Len(r) = Len(AllToBe(s)) + Len(AllToBe(t))
          /\ \A i \in 1..Len(AllToBe(s)) : r[i] = AllToBe(s)[i]
          /\ \A i \in 1..Len(AllToBe(t)) : r[Len(AllToBe(s)) + i] = AllToBe(t)[i]
      BY <3>1, <3>2, Zenon
    <3> HIDE DEF r
    <3>4. QED
      BY <3>1, <3>3
  <2>2. l \in Seq(Seq(Cells)) /\ Len(l) = Len(s) + Len(t) /\ \A i \in 1..Len(l) : l[i] = ToBe((s \o t)[i])
    BY <1>5, <1>6
  <2> HIDE DEF l, r
  <2>3. ASSUME NEW i \in 1..Len(l) PROVE l[i] = r[i]
    <3>1. CASE i \in 1..Len(s)
      <4>1. r[i] = ToBe(s[i]) /\ (s \o t)[i] = s[i]
        BY <1>3, <1>5, <1>6, <2>1, <3>1
      <4>2. QED
        BY <2>2, <4>1
    <3>2. CASE i \notin 1..Len(s)
      <4>1. PICK j \in 1..Len(t) : i = Len(s) + j
        <5>1. i - Len(s) \in 1..Len(t) /\ i = Len(s) + (i - Len(s))
          BY <1>5, <2>2, <3>2
        <5>2. QED
          BY <5>1
      <4>2. r[Len(s) + j] = ToBe(t[j]) /\ (s \o t)[Len(s) + j] = t[j]
        BY <1>3, <1>5, <1>6, <2>1
      <4>3. QED
        BY <2>2, <4>1, <4>2
    <3>3. QED
      BY <3>1, <3>2
  <2>4. l = r
    BY <2>1, <2>2, <2>3, SeqEqual
  <2>5. QED
    BY <2>4 DEF l, r
<1>8. AllToBe(s) \in Seq(Seq(Cells)) /\ AllToBe(t) \in Seq(Seq(Cells))
  BY <1>3, <1>6
<1>9. /\ FlattenSeq(AllToBe(s) \o AllToBe(t)) = FlattenSeq(AllToBe(s)) \o FlattenSeq(AllToBe(t))
      /\ FlattenSeq(AllToBe(s)) \in Seq(Cells) /\ FlattenSeq(AllToBe(t)) \in Seq(Cells)
  BY <1>8, FlattenConcat, Zenon
<1>10. Pending(s \o t) = Pending(s) \o Pending(t) /\ Pending(s) \in Seq(Cells) /\ Pending(t) \in Seq(Cells)
  BY <1>7, <1>9, Zenon DEF Pending
<1>11. \A a, b \in Seq(Cells) : Len(a \o b) = Len(a) + Len(b)
  BY ConcatProperties
<1>12. GoodSeq(s \o t)
  BY <1>3, <1>5, Zenon DEF GoodSeq
<1>13. QED
  BY <1>10, <1>11, <1>12, Zenon

\* No chunk, and one chunk.
LEMMA PendingOne ==
    /\ Pending(<<>>) = <<>> /\ GoodSeq(<<>>)
    /\ \A c : Good(c) /\ path \in {"blob", "buffer"} =>
         GoodSeq(<<c>>) /\ Pending(<<c>>) = ToBe(c) /\ Len(ToBe(c)) = c.blocks
<1>0. PICK T : T = {}
  OBVIOUS
<1>1. <<>> \in Seq(T) /\ \A c \in T : Good(c)
  BY <1>0
<1>2. AllToBe(<<>>) = <<>>
  BY DEF AllToBe
<1>3. Pending(<<>>) = <<>>
  <2>1. FlattenSeq(<<>>) = <<>>
    BY DEF FlattenSeq
  <2>2. QED
    BY <1>2, <2>1, Zenon DEF Pending
<1>4. GoodSeq(<<>>)
  BY <1>1, Zenon DEF GoodSeq
<1>5. ASSUME NEW c, Good(c), path \in {"blob", "buffer"}
      PROVE  GoodSeq(<<c>>) /\ Pending(<<c>>) = ToBe(c) /\ Len(ToBe(c)) = c.blocks
  <2>1. PICK U : U = {c}
    OBVIOUS
  <2>2. GoodSeq(<<c>>)
    <3>1. <<c>> \in Seq(U) /\ \A d \in U : Good(d)
      BY <1>5, <2>1
    <3>2. QED
      BY <3>1, Zenon DEF GoodSeq
  <2>3. ToBe(c) \in Seq(Cells) /\ Len(ToBe(c)) = c.blocks
    BY <1>5, ToBeTypes
  <2>4. AllToBe(<<c>>) = <<ToBe(c)>>
    BY DEF AllToBe
  <2>5. FlattenSeq(<<ToBe(c)>>) = ToBe(c)
    BY <2>3, FlattenOne
  <2>6. QED
    BY <2>2, <2>3, <2>4, <2>5 DEF Pending
<1>6. QED
  BY <1>3, <1>4, <1>5

-----------------------------------------------------------------------------
(* Cutting chunks                                                          *)

\* Whole blocks and their bytes.
LEMMA Times ==
    ASSUME NEW a \in Int, NEW b \in Int, NEW m \in Nat \ {0}
    PROVE  /\ a * m \in Int /\ b * m \in Int
           /\ (a - b) * m = a * m - b * m /\ (a + b) * m = a * m + b * m
           /\ a * m < b * m => a < b
           /\ a <= b => a * m <= b * m
           /\ a * m = b * m => a = b
           /\ (a * m) \div m = a
           /\ (a * m) % m = 0
<1>1. (a * m) \div m = a
  OBVIOUS
<1>2. (a * m) % m = 0
  OBVIOUS
<1>3. a * m < b * m => a < b
  OBVIOUS
<1>4. a <= b => a * m <= b * m
  OBVIOUS
<1>5. QED
  BY <1>1, <1>2, <1>3, <1>4

\* Whole blocks.
LEMMA Divide ==
    ASSUME NEW a \in Int, NEW m \in Nat \ {0}, a % m = 0
    PROVE  a = (a \div m) * m /\ a \div m \in Int
  OBVIOUS

\* The part Step cuts off has whole blocks.
LEMMA StepBlocks ==
    ASSUME SizeInv, Ready
    PROVE  /\ Step \div BlockSize \in Nat /\ Step = (Step \div BlockSize) * BlockSize
           /\ Most \in Nat /\ Step \in Nat /\ Step <= Most
<1>1. Most \in Nat /\ Step \in Nat /\ Step <= Most
  BY PartsFit DEF SizeInv, Ready, Packing
<1>2. PICK k : k = Most \div BlockSize
  OBVIOUS
<1>3. k \in Nat
  BY <1>1, <1>2, Numbers
<1>4. Step = k * BlockSize
  BY <1>2 DEF Step
<1>5. Step \div BlockSize = k
  BY <1>3, <1>4, Times, Numbers
<1>6. QED
  BY <1>1, <1>3, <1>4, <1>5

\* The two sides of a sequence.
LEMMA Sides ==
    ASSUME NEW S, NEW s \in Seq(S), NEW k \in 0..Len(s)
    PROVE  /\ SubSeq(s, 1, k) \in Seq(S) /\ Len(SubSeq(s, 1, k)) = k
           /\ SubSeq(s, k + 1, Len(s)) \in Seq(S) /\ Len(SubSeq(s, k + 1, Len(s))) = Len(s) - k
           /\ \A i \in 1..k : SubSeq(s, 1, k)[i] = s[i]
           /\ \A i \in 1..(Len(s) - k) : SubSeq(s, k + 1, Len(s))[i] = s[k + i]
           /\ s = SubSeq(s, 1, k) \o SubSeq(s, k + 1, Len(s))
<1> DEFINE a == SubSeq(s, 1, k)
           b == SubSeq(s, k + 1, Len(s))
<1>0. Len(s) \in Nat /\ k \in Nat /\ k <= Len(s)
  OBVIOUS
<1>1. a \in Seq(S) /\ Len(a) = k /\ \A i \in 1..k : a[i] = s[i]
  BY <1>0
<1>2. b \in Seq(S) /\ Len(b) = Len(s) - k
  BY <1>0
<1>3. \A i \in 1..(Len(s) - k) : b[i] = s[k + i]
  BY <1>0
<1> HIDE DEF a, b
<1>4. /\ a \o b \in Seq(S) /\ Len(a \o b) = Len(a) + Len(b)
      /\ \A i \in 1..Len(a) : (a \o b)[i] = a[i]
      /\ \A i \in 1..Len(b) : (a \o b)[Len(a) + i] = b[i]
  <2>1. ASSUME NEW x \in Seq(S), NEW y \in Seq(S)
        PROVE  /\ x \o y \in Seq(S) /\ Len(x \o y) = Len(x) + Len(y)
               /\ \A i \in 1..Len(x) : (x \o y)[i] = x[i]
               /\ \A i \in 1..Len(y) : (x \o y)[Len(x) + i] = y[i]
    BY ConcatProperties
  <2>2. QED
    BY <1>1, <1>2, <2>1, Zenon
<1>5. ASSUME NEW i \in 1..Len(s) PROVE s[i] = (a \o b)[i]
  <2>1. CASE i <= k
    <3>1. i \in 1..Len(a) /\ i \in 1..k
      BY <1>1, <2>1
    <3>2. QED
      BY <1>1, <1>4, <3>1, Zenon
  <2>2. CASE ~(i <= k)
    <3>1. i - k \in 1..Len(b) /\ i - k \in 1..(Len(s) - k) /\ Len(a) + (i - k) = i /\ k + (i - k) = i
      BY <1>0, <1>1, <1>2, <2>2
    <3>2. (a \o b)[Len(a) + (i - k)] = b[i - k] /\ b[i - k] = s[k + (i - k)]
      BY <1>3, <1>4, <3>1, Zenon
    <3>3. QED
      BY <3>1, <3>2, Zenon
  <2>3. QED
    BY <2>1, <2>2
<1>6. Len(s) = Len(a \o b)
  BY <1>0, <1>1, <1>2, <1>4
<1>7. s = a \o b
  BY <1>4, <1>5, <1>6, SeqEqual, Zenon
<1>8. QED
  BY <1>1, <1>2, <1>3, <1>7 DEF a, b

\* A RAW chunk that is cut up stands for what its parts stand for.
LEMMA CutSplits ==
    ASSUME SizeInv, Ready, Good(First), CutUp(First)
    PROVE  /\ Good(NextPart) /\ NextPart.type = "RAW"
           /\ Good(RestBehind(First, Step))
           /\ ToBe(First) = ToBe(NextPart) \o ToBe(RestBehind(First, Step))
<1>1. PICK k : k = Step \div BlockSize
  OBVIOUS
<1>2. k \in Nat /\ Step = k * BlockSize /\ Most \in Nat /\ Step <= Most /\ Step \in Nat
  BY <1>1, StepBlocks
<1>3. PICK c : c = First
  OBVIOUS
<1>4. /\ c.type = "RAW" /\ c.bytes > Most /\ c.bytes = c.blocks * BlockSize /\ Len(c.data) = c.blocks
      /\ c.blocks \in Nat /\ c.bytes \in Int /\ c.data \in Seq(Values) /\ c.short = 0
  BY <1>3 DEF CutUp, Good, Sound
<1>5. k < c.blocks
  <2>1. k * BlockSize < c.blocks * BlockSize
    BY <1>2, <1>4, Times, Numbers
  <2>2. QED
    BY <1>2, <1>4, <2>1, Times, Numbers
<1>6. c.bytes - Step = (c.blocks - k) * BlockSize
  BY <1>2, <1>4, Times, Numbers
<1>7. (c.bytes - Step) \div BlockSize = c.blocks - k
  <2>1. c.blocks - k \in Int
    BY <1>2, <1>4
  <2>2. QED
    BY <1>6, <2>1, Times, Numbers
<1>8. k \in 0..Len(c.data)
  BY <1>2, <1>4, <1>5
<1> DEFINE a == SubSeq(c.data, 1, k)
           b == SubSeq(c.data, k + 1, Len(c.data))
<1>9. /\ a \in Seq(Values) /\ Len(a) = k /\ b \in Seq(Values) /\ Len(b) = c.blocks - k
      /\ c.data = a \o b
  <2>1. /\ a \in Seq(Values) /\ Len(a) = k /\ b \in Seq(Values) /\ Len(b) = Len(c.data) - k
        /\ c.data = a \o b
    <3>1. c.data \in Seq(Values)
      BY <1>4
    <3>2. QED
      BY <1>8, <3>1, Sides, ZenonT(60)
  <2> HIDE DEF a, b
  <2>2. QED
    BY <1>4, <2>1
<1> HIDE DEF a, b
<1>10. NextPart = Chunk("RAW", k, a, k * BlockSize, 0)
  BY <1>1, <1>2, <1>3 DEF NextPart, FirstBytes, a
<1>11. RestBehind(c, Step) = Chunk("RAW", c.blocks - k, b, (c.blocks - k) * BlockSize, 0)
  <2>1. RestBehind(c, Step) = Chunk("RAW", (c.bytes - Step) \div BlockSize, b, c.bytes - Step, c.short)
    BY <1>1 DEF RestBehind, b
  <2>2. QED
    BY <1>4, <1>6, <1>7, <2>1
<1>12. ASSUME NEW n \in Nat, NEW d \in Seq(Values), Len(d) = n
       PROVE  LET x == Chunk("RAW", n, d, n * BlockSize, 0)
              IN  Good(x) /\ ToBe(x) = d /\ x.type = "RAW"
  <2>1. PICK x : x = Chunk("RAW", n, d, n * BlockSize, 0)
    OBVIOUS
  <2>2. x.type = "RAW" /\ x.blocks = n /\ x.data = d /\ x.bytes = n * BlockSize /\ x.short = 0
    BY <2>1 DEF Chunk
  <2>3. n * BlockSize \in Int
    BY Numbers
  <2>4. Good(x)
    BY <1>12, <2>2, <2>3 DEF Good, Sound
  <2>5. ToBe(x) = d
    BY <2>2, <2>4, ToBeForms DEF SizeInv
  <2>6. QED
    BY <2>1, <2>2, <2>4, <2>5
<1>13. Good(NextPart) /\ ToBe(NextPart) = a /\ NextPart.type = "RAW"
  BY <1>2, <1>9, <1>10, <1>12
<1>14. Good(RestBehind(c, Step)) /\ ToBe(RestBehind(c, Step)) = b
  <2>1. c.blocks - k \in Nat
    BY <1>2, <1>4, <1>5
  <2>2. QED
    BY <1>9, <1>11, <1>12, <2>1
<1>15. ToBe(c) = c.data
  BY <1>3, <1>4, ToBeForms DEF SizeInv
<1>16. QED
  BY <1>3, <1>9, <1>13, <1>14, <1>15

\* What ReadFile makes of the first j blocks of a raw file, and what is behind.
FileChunk(c, j) ==
    IF path = "blob"
    THEN Chunk("RAW", j, SubSeq(c.data, 1, j), IF j = c.blocks THEN c.bytes ELSE j * BlockSize, 0)
    ELSE IF c.data[1] = Zero /\ BlockSize <= c.bytes THEN Skip(j)
    ELSE Raw(j, SubSeq(c.data, 1, j))
FileBehind(c, j) ==
    Chunk("FILE", c.blocks - j, SubSeq(c.data, j + 1, c.blocks), c.bytes - j * BlockSize, 0)

\* The first blocks of a raw file become a chunk that stands for them.
LEMMA FirstOfFile ==
    ASSUME path \in {"blob", "buffer"}, NEW c, Good(c), c.type = "FILE",
           NEW j \in 1..c.blocks, Run(c, j)
    PROVE  /\ Good(FileChunk(c, j)) /\ Len(ToBe(FileChunk(c, j))) = j
           /\ \A i \in 1..j : ToBe(FileChunk(c, j))[i] = ToBe(c)[i]
           /\ FileChunk(c, j).type \in {"RAW", "DONT_CARE"}
<1>1. /\ c.data \in Seq(Values) /\ Len(c.data) = c.blocks /\ c.blocks \in Nat \ {0}
      /\ c.bytes \in Nat /\ (path = "blob" => c.bytes = c.blocks * BlockSize)
  BY DEF Good, RawFile
<1>2. j \in Nat /\ j \in 0..Len(c.data) /\ j * BlockSize \in Int
  BY <1>1, Numbers
<1>3. PICK a : a = SubSeq(c.data, 1, j)
  OBVIOUS
<1>4. a \in Seq(Values) /\ Len(a) = j /\ \A i \in 1..j : a[i] = c.data[i]
  BY <1>1, <1>2, <1>3, Sides, ZenonT(60)
<1>5. ASSUME NEW x, x = Chunk("RAW", j, a, j * BlockSize, 0)
      PROVE  Good(x) /\ ToBe(x) = a /\ x.type = "RAW"
  <2>1. x.type = "RAW" /\ x.blocks = j /\ x.data = a /\ x.bytes = j * BlockSize /\ x.short = 0
    BY <1>5 DEF Chunk
  <2>2. Good(x)
    BY <1>2, <1>4, <2>1 DEF Good, Sound
  <2>3. QED
    BY <2>1, <2>2, ToBeForms
<1>6. CASE path = "blob"
  <2>1. FileChunk(c, j) = Chunk("RAW", j, a, j * BlockSize, 0)
    BY <1>1, <1>3, <1>6 DEF FileChunk
  <2>2. ToBe(c) = c.data
    BY <1>6, ToBeForms
  <2>3. QED
    BY <1>4, <1>5, <2>1, <2>2
<1>7. CASE path = "buffer"
  <2>1. ToBe(c) = [i \in 1..c.blocks |-> IF ZeroAt(c, i) THEN Keep ELSE c.data[i]]
    BY <1>7, ToBeForms
  <2>2. 1..j \subseteq 1..c.blocks /\ 1 \in 1..j /\ 1 * BlockSize = BlockSize
    BY <1>1, Numbers
  <2>3. \A i \in 1..j : ZeroAt(c, i) <=> ZeroAt(c, 1)
    BY <1>7, Zenon DEF Run, ZeroAt
  <2>4. ZeroAt(c, 1) <=> c.data[1] = Zero /\ BlockSize <= c.bytes
    BY <2>2 DEF ZeroAt
  <2>5. CASE ZeroAt(c, 1)
    <3>1. FileChunk(c, j) = Skip(j)
      BY <1>7, <2>4, <2>5 DEF FileChunk
    <3>2. PICK x : x = Skip(j)
      OBVIOUS
    <3>3. x.type = "DONT_CARE" /\ x.blocks = j /\ x.data = <<>> /\ x.bytes = 0 /\ x.short = 0
      BY <3>2 DEF Skip, Chunk
    <3>4. <<>> \in Seq(Values)
      OBVIOUS
    <3>5. Good(x)
      BY <1>2, <3>3, <3>4 DEF Good, Sound
    <3>6. ToBe(x) = [i \in 1..j |-> Keep]
      BY <3>3, <3>5, ToBeForms
    <3>7. \A i \in 1..j : ToBe(c)[i] = Keep
      BY <2>1, <2>2, <2>3, <2>5
    <3>8. Len(ToBe(x)) = j
      BY <3>3, <3>5, ToBeTypes
    <3>9. QED
      BY <3>1, <3>2, <3>3, <3>5, <3>6, <3>7, <3>8
  <2>6. CASE ~ZeroAt(c, 1)
    <3>1. FileChunk(c, j) = Chunk("RAW", j, a, j * BlockSize, 0)
      BY <1>3, <1>7, <2>4, <2>6 DEF FileChunk, Raw
    <3>2. \A i \in 1..j : ToBe(c)[i] = c.data[i]
      BY <2>1, <2>2, <2>3, <2>6
    <3>3. QED
      BY <1>4, <1>5, <3>1, <3>2
  <2>7. QED
    BY <2>5, <2>6
<1>8. QED
  BY <1>6, <1>7

\* What is left of the file stands for the other blocks.
LEMMA RestOfFile ==
    ASSUME path \in {"blob", "buffer"}, NEW c, Good(c), c.type = "FILE",
           NEW j \in 1..c.blocks, j # c.blocks
    PROVE  /\ Good(FileBehind(c, j)) /\ Len(ToBe(FileBehind(c, j))) = c.blocks - j
           /\ \A i \in 1..(c.blocks - j) : ToBe(FileBehind(c, j))[i] = ToBe(c)[j + i]
<1>1. /\ c.data \in Seq(Values) /\ Len(c.data) = c.blocks /\ c.blocks \in Nat \ {0}
      /\ c.bytes \in Nat /\ (path = "blob" => c.bytes = c.blocks * BlockSize)
      /\ (c.blocks - 1) * BlockSize < c.bytes /\ c.bytes <= c.blocks * BlockSize
  BY DEF Good, RawFile
<1>2. PICK n : n = c.blocks - j
  OBVIOUS
<1>3. j \in Nat /\ j \in 0..Len(c.data) /\ n \in Nat \ {0} /\ c.blocks = n + j /\ n - 1 \in Nat
  BY <1>1, <1>2
<1>4. PICK b : b = SubSeq(c.data, j + 1, Len(c.data))
  OBVIOUS
<1>5. b \in Seq(Values) /\ Len(b) = Len(c.data) - j /\ \A i \in 1..(Len(c.data) - j) : b[i] = c.data[j + i]
  BY <1>1, <1>3, <1>4, Sides, ZenonT(60)
<1>6. PICK x : x = FileBehind(c, j)
  OBVIOUS
<1>7. /\ x.type = "FILE" /\ x.blocks = n /\ x.data = b /\ x.bytes = c.bytes - j * BlockSize
      /\ x.short = 0
  BY <1>1, <1>2, <1>4, <1>6 DEF FileBehind, Chunk
<1>8. /\ (n - 1) * BlockSize < x.bytes /\ x.bytes <= n * BlockSize /\ x.bytes \in Nat
      /\ (path = "blob" => x.bytes = n * BlockSize)
  <2>1. /\ c.blocks * BlockSize = n * BlockSize + j * BlockSize
        /\ (c.blocks - 1) * BlockSize = (n - 1) * BlockSize + j * BlockSize
        /\ n * BlockSize \in Int /\ j * BlockSize \in Int /\ (n - 1) * BlockSize \in Nat
    <3>1. c.blocks - 1 = (n - 1) + j
      BY <1>3
    <3>2. \A p, q \in Int : (p + q) * BlockSize = p * BlockSize + q * BlockSize /\ p * BlockSize \in Int
      BY Times, Numbers
    <3>3. (n - 1) * BlockSize \in Nat
      BY <1>3, Numbers
    <3>4. n \in Int /\ j \in Int /\ n - 1 \in Int
      BY <1>3
    <3>5. QED
      BY <1>3, <3>1, <3>2, <3>3, <3>4
  <2>2. QED
    BY <1>1, <1>7, <2>1
<1>9. Good(x)
  BY <1>1, <1>3, <1>5, <1>7, <1>8 DEF Good, Sound, RawFile
<1>10. Len(ToBe(x)) = n
  BY <1>7, <1>9, ToBeTypes
<1>11. ASSUME NEW i \in 1..n PROVE ToBe(x)[i] = ToBe(c)[j + i]
  <2>1. j + i \in 1..c.blocks /\ b[i] = c.data[j + i]
    <3>1. j + i \in 1..c.blocks
      BY <1>3
    <3>2. i \in 1..(Len(c.data) - j)
      BY <1>1, <1>2
    <3>3. QED
      BY <1>5, <3>1, <3>2, Zenon
  <2>2. CASE path = "blob"
    <3>1. ToBe(x) = b /\ ToBe(c) = c.data
      BY <1>7, <1>9, <2>2, ToBeForms
    <3>2. QED
      BY <2>1, <3>1
  <2>3. CASE path = "buffer"
    <3>1. /\ ToBe(x) = [k \in 1..n |-> IF ZeroAt(x, k) THEN Keep ELSE b[k]]
          /\ ToBe(c) = [k \in 1..c.blocks |-> IF ZeroAt(c, k) THEN Keep ELSE c.data[k]]
      BY <1>7, <1>9, <2>3, ToBeForms
    <3>2. ZeroAt(x, i) <=> ZeroAt(c, j + i)
      <4>1. (j + i) * BlockSize = j * BlockSize + i * BlockSize
            /\ j * BlockSize \in Int /\ i * BlockSize \in Int
        BY <1>3, Times, Numbers
      <4>2. i * BlockSize <= x.bytes <=> (j + i) * BlockSize <= c.bytes
        BY <1>1, <1>7, <4>1
      <4>3. QED
        BY <1>7, <2>1, <4>2 DEF ZeroAt
    <3>3. QED
      BY <2>1, <3>1, <3>2
  <2>4. QED
    BY <2>2, <2>3
<1>12. QED
  BY <1>2, <1>6, <1>9, <1>10, <1>11

\* The chunk and the rest of the file stand for the file.
LEMMA FileSplits ==
    ASSUME path \in {"blob", "buffer"}, NEW c, Good(c), c.type = "FILE",
           NEW j \in 1..c.blocks, Run(c, j)
    PROVE  /\ Good(FileChunk(c, j))
           /\ j = c.blocks => ToBe(c) = ToBe(FileChunk(c, j))
           /\ j # c.blocks => /\ Good(FileBehind(c, j))
                              /\ ToBe(c) = ToBe(FileChunk(c, j)) \o ToBe(FileBehind(c, j))
<1> DEFINE w == ToBe(c)
           a == ToBe(FileChunk(c, j))
           b == ToBe(FileBehind(c, j))
<1>1. w \in Seq(Cells) /\ Len(w) = c.blocks /\ c.blocks \in Nat
  BY ToBeTypes DEF Good
<1>2. Good(FileChunk(c, j)) /\ Len(a) = j /\ \A i \in 1..j : a[i] = w[i]
  BY FirstOfFile
<1>3. a \in Seq(Cells)
  BY <1>2, ToBeTypes
<1>4. CASE j = c.blocks
  <2> HIDE DEF a, w
  <2>1. w = a
    BY <1>1, <1>2, <1>3, <1>4, SeqEqual
  <2>2. QED
    BY <1>2, <1>4, <2>1 DEF a, w
<1>5. CASE j # c.blocks
  <2>1. /\ Good(FileBehind(c, j)) /\ Len(b) = c.blocks - j
        /\ \A i \in 1..(c.blocks - j) : b[i] = w[j + i]
    BY <1>5, RestOfFile
  <2>2. b \in Seq(Cells)
    BY <2>1, ToBeTypes
  <2> HIDE DEF a, b, w
  <2>3. j \in 0..Len(w)
    BY <1>1
  <2>4. /\ SubSeq(w, 1, j) \in Seq(Cells) /\ Len(SubSeq(w, 1, j)) = j
        /\ SubSeq(w, j + 1, Len(w)) \in Seq(Cells) /\ Len(SubSeq(w, j + 1, Len(w))) = Len(w) - j
        /\ \A i \in 1..j : SubSeq(w, 1, j)[i] = w[i]
        /\ \A i \in 1..(Len(w) - j) : SubSeq(w, j + 1, Len(w))[i] = w[j + i]
        /\ w = SubSeq(w, 1, j) \o SubSeq(w, j + 1, Len(w))
    BY <1>1, <2>3, Sides, ZenonT(60)
  <2>5. \A x, y \in Seq(Cells) : Len(x) = Len(y) /\ (\A i \in 1..Len(x) : x[i] = y[i]) => x = y
    BY SeqEqual
  <2>6. SubSeq(w, 1, j) = a
    BY <1>2, <1>3, <2>4, <2>5
  <2>7. SubSeq(w, j + 1, Len(w)) = b
    <3>1. PICK y : y = SubSeq(w, j + 1, Len(w))
      OBVIOUS
    <3>2. /\ y \in Seq(Cells) /\ Len(y) = Len(w) - j
          /\ \A i \in 1..(Len(w) - j) : y[i] = w[j + i]
      BY <2>4, <3>1, Zenon
    <3>3. Len(y) = Len(b) /\ \A i \in 1..Len(y) : y[i] = b[i]
      BY <1>1, <2>1, <3>2
    <3>4. y = b
      BY <2>2, <2>5, <3>2, <3>3, Zenon
    <3>5. QED
      BY <3>1, <3>4
  <2>8. w = a \o b
    BY <2>4, <2>6, <2>7, Zenon
  <2>9. QED
    BY <1>2, <1>5, <2>1, <2>8 DEF a, b, w
<1>6. QED
  BY <1>4, <1>5

-----------------------------------------------------------------------------
(* The piece under construction                                            *)

\* Its chunks: raw files are cut up by then, and parseSparse() passes no
\* checksum on.
CurGood(c) == Good(c) /\ c.type # "FILE" /\ (c.type = "CRC32" => path = "blob")
CurSeq(s) == \E T : s \in Seq(T) /\ \A c \in T : CurGood(c)

WrittenAll(s) == [i \in DOMAIN s |-> Written(s[i])]

\* A chunk as it is written.
LEMMA WrittenForms ==
    ASSUME path \in {"blob", "buffer"}, NEW c, CurGood(c)
    PROVE  /\ Payload(Written(c)) = Payload(c) /\ Payload(c) \in Int
           /\ Expand(Written(c)) = ToBe(c)
           /\ c.type # "CRC32" => ChunkOk(Written(c))
<1>1. /\ c.type \in {"RAW", "FILL", "DONT_CARE", "CRC32"} /\ c.bytes \in Int /\ c.short = 0
      /\ c.type = "RAW" => c.bytes = c.blocks * BlockSize
  BY DEF CurGood, Good, Sound
<1>2. Expand(Written(c)) = ToBe(c)
  BY <1>1 DEF ToBe
<1>3. PICK d : d = Written(c)
  OBVIOUS
<1>4. d.type = c.type /\ (c.type = "RAW" => d = c)
  BY <1>1, <1>3 DEF Written
<1>5. Payload(d) = Payload(c)
  BY <1>4 DEF Payload
<1>6. Payload(c) \in Int
  <2>1. c.bytes - c.short \in Int
    BY <1>1
  <2>2. QED
    BY <2>1, Numbers DEF Payload
<1>7. ASSUME c.type # "CRC32" PROVE ChunkOk(d)
  <2>1. CASE c.type = "RAW"
    <3>1. d.type = "RAW" /\ d.short = 0 /\ d.bytes = d.blocks * BlockSize
      BY <1>1, <1>4, <2>1
    <3>2. QED
      BY <3>1 DEF ChunkOk
  <2>2. CASE c.type \in {"FILL", "DONT_CARE"}
    BY <1>4, <2>2 DEF ChunkOk
  <2>3. QED
    BY <1>1, <1>7, <2>1, <2>2
<1>8. QED
  BY <1>2, <1>3, <1>5, <1>6, <1>7

\* Adding a chunk to the piece.
LEMMA CurAppend ==
    ASSUME path \in {"blob", "buffer"}, NEW s, CurSeq(s), NEW c, CurGood(c)
    PROVE  /\ CurSeq(Append(s, c))
           /\ Pending(Append(s, c)) = Pending(s) \o ToBe(c)
           /\ Pending(s) \in Seq(Cells) /\ ToBe(c) \in Seq(Cells)
           /\ Len(Pending(Append(s, c))) = Len(Pending(s)) + c.blocks
           /\ BytesOf(WrittenAll(Append(s, c))) = BytesOf(WrittenAll(s)) + ChunkHdr + Payload(c)
<1>1. PICK S : s \in Seq(S) /\ \A d \in S : CurGood(d)
  BY DEF CurSeq
<1>2. PICK T : T = S \cup {c}
  OBVIOUS
<1>3. s \in Seq(T) /\ c \in T /\ \A d \in T : CurGood(d)
  BY <1>1, <1>2
<1>4. Append(s, c) \in Seq(T) /\ Append(s, c) = s \o <<c>> /\ Len(s) \in Nat
      /\ Len(Append(s, c)) = Len(s) + 1
      /\ \A i \in 1..Len(s) : Append(s, c)[i] = s[i]
      /\ Append(s, c)[Len(s) + 1] = c
  BY <1>3
<1>5. CurSeq(Append(s, c))
  BY <1>3, <1>4, Zenon DEF CurSeq
<1>6. GoodSeq(s) /\ Good(c) /\ GoodSeq(<<c>>) /\ Pending(<<c>>) = ToBe(c) /\ Len(ToBe(c)) = c.blocks
  <2>1. \A d \in T : Good(d)
    BY <1>3 DEF CurGood
  <2>2. GoodSeq(s)
    BY <1>3, <2>1, Zenon DEF GoodSeq
  <2>3. Good(c)
    BY DEF CurGood
  <2>4. QED
    BY <2>2, <2>3, PendingOne
<1>7. /\ Pending(s \o <<c>>) = Pending(s) \o Pending(<<c>>)
      /\ Pending(s) \in Seq(Cells) /\ Pending(<<c>>) \in Seq(Cells)
      /\ Len(Pending(s \o <<c>>)) = Len(Pending(s)) + Len(Pending(<<c>>))
  BY <1>6, PendingConcat, Zenon
<1> DEFINE W == {Written(d) : d \in T}
<1>8. /\ WrittenAll(s) \in Seq(W) /\ Written(c) \in W /\ \A d \in W : Payload(d) \in Int
      /\ Payload(Written(c)) = Payload(c)
  <2>1. s \in [1..Len(s) -> T] /\ Len(s) \in Nat
    BY <1>3
  <2>2. WrittenAll(s) \in [1..Len(s) -> W]
    BY <2>1 DEF WrittenAll
  <2>3. WrittenAll(s) \in Seq(W)
    BY <2>1, <2>2
  <2>4. ASSUME NEW d \in T PROVE Payload(Written(d)) \in Int /\ Payload(Written(d)) = Payload(d)
    BY <1>3, WrittenForms
  <2>5. QED
    BY <1>3, <2>3, <2>4
<1> HIDE DEF W
<1>9. WrittenAll(Append(s, c)) = Append(WrittenAll(s), Written(c))
  <2>1. /\ DOMAIN Append(s, c) = 1..(Len(s) + 1) /\ DOMAIN s = 1..Len(s) /\ Len(s) \in Nat
        /\ Len(WrittenAll(s)) = Len(s)
    <3>1. DOMAIN WrittenAll(s) = 1..Len(s)
      BY <1>3 DEF WrittenAll
    <3>2. QED
      BY <1>3, <1>4, <1>8, <3>1
  <2>2. PICK l : l = WrittenAll(Append(s, c))
    OBVIOUS
  <2>3. PICK r : r = Append(WrittenAll(s), Written(c))
    OBVIOUS
  <2>4. /\ DOMAIN r = 1..(Len(s) + 1) /\ r = [i \in DOMAIN r |-> r[i]]
        /\ \A i \in 1..Len(s) : r[i] = WrittenAll(s)[i]
        /\ r[Len(s) + 1] = Written(c)
    <3>1. PICK q, w : q = WrittenAll(s) /\ w = Written(c)
      OBVIOUS
    <3>2. q \in Seq(W) /\ w \in W /\ Len(q) = Len(s) /\ r = Append(q, w)
      BY <1>8, <2>1, <2>3, <3>1
    <3>3. /\ r \in Seq(W) /\ Len(r) = Len(q) + 1
          /\ \A i \in 1..Len(q) : r[i] = q[i]
          /\ r[Len(q) + 1] = w
      BY <3>2, AppendProperties
    <3>5. DOMAIN r = 1..(Len(q) + 1) /\ r = [i \in DOMAIN r |-> r[i]]
      BY <3>3
    <3>4. QED
      BY <3>1, <3>2, <3>3, <3>5
  <2>5. ASSUME NEW i \in 1..(Len(s) + 1) PROVE Written(Append(s, c)[i]) = r[i]
    <3>1. CASE i = Len(s) + 1
      BY <1>4, <2>4, <3>1
    <3>2. CASE i # Len(s) + 1
      <4>1. i \in 1..Len(s)
        BY <2>1, <3>2
      <4>2. WrittenAll(s)[i] = Written(s[i])
        BY <2>1, <4>1 DEF WrittenAll
      <4>3. QED
        BY <1>4, <2>4, <4>1, <4>2
    <3>3. QED
      BY <3>1, <3>2
  <2>6. l = [i \in 1..(Len(s) + 1) |-> Written(Append(s, c)[i])]
    BY <2>1, <2>2, Zenon DEF WrittenAll
  <2>7. l = r
    BY <2>4, <2>5, <2>6
  <2>8. QED
    BY <2>2, <2>3, <2>7
<1>10. BytesOf(Append(WrittenAll(s), Written(c))) = BytesOf(WrittenAll(s)) + ChunkHdr + Payload(Written(c))
  BY <1>8, BytesAppend, Zenon
<1>11. QED
  <2>1. BytesOf(WrittenAll(Append(s, c))) = BytesOf(WrittenAll(s)) + ChunkHdr + Payload(c)
    BY <1>8, <1>9, <1>10, Zenon
  <2>2. /\ Pending(Append(s, c)) = Pending(s) \o ToBe(c) /\ ToBe(c) \in Seq(Cells)
        /\ Len(Pending(Append(s, c))) = Len(Pending(s)) + c.blocks
    BY <1>4, <1>6, <1>7, Zenon
  <2>3. QED
    BY <1>5, <1>7, <2>1, <2>2, Zenon

\* The bootloader reads in a piece what is pending, in sound chunks.
LEMMA CurContents ==
    ASSUME path \in {"blob", "buffer"}, NEW s, CurSeq(s)
    PROVE  /\ Contents(WrittenAll(s)) = Pending(s)
           /\ (path = "blob" /\ HasCrc) \/ \A i \in DOMAIN WrittenAll(s) : ChunkOk(WrittenAll(s)[i])
           /\ GoodSeq(s)
<1>1. PICK T : s \in Seq(T) /\ \A c \in T : CurGood(c)
  BY DEF CurSeq
<1>2. s \in [DOMAIN s -> T] /\ DOMAIN WrittenAll(s) = DOMAIN s
  BY <1>1 DEF WrittenAll
<1>3. \A i \in DOMAIN s : CurGood(s[i]) /\ WrittenAll(s)[i] = Written(s[i])
  BY <1>1, <1>2 DEF WrittenAll
<1>4. \A i \in DOMAIN s : Expand(WrittenAll(s)[i]) = ToBe(s[i])
  BY <1>3, WrittenForms
<1>5. [i \in DOMAIN WrittenAll(s) |-> Expand(WrittenAll(s)[i])] = AllToBe(s)
  BY <1>2, <1>4 DEF AllToBe
<1>6. Contents(WrittenAll(s)) = Pending(s)
  BY <1>5, Zenon DEF Contents, Pending
<1>7. ASSUME ~(path = "blob" /\ HasCrc), NEW i \in DOMAIN s PROVE ChunkOk(WrittenAll(s)[i])
  <2>1. s[i].type # "CRC32"
    BY <1>3, <1>7 DEF CurGood, Good
  <2>2. QED
    BY <1>3, <2>1, WrittenForms
<1>8. GoodSeq(s)
  <2>1. \A c \in T : Good(c)
    BY <1>1 DEF CurGood
  <2>2. QED
    BY <1>1, <2>1, Zenon DEF GoodSeq
<1>9. QED
  BY <1>2, <1>6, <1>7, <1>8

\* A skip.
LEMMA SkipGood ==
    ASSUME path \in {"blob", "buffer"}, NEW n \in Nat
    PROVE  CurGood(Skip(n)) /\ ToBe(Skip(n)) = [i \in 1..n |-> Keep] /\ Payload(Skip(n)) = 0
           /\ Skip(n).blocks = n
<1>1. PICK c : c = Skip(n)
  OBVIOUS
<1>2. c.type = "DONT_CARE" /\ c.blocks = n /\ c.data = <<>> /\ c.bytes = 0 /\ c.short = 0
  BY <1>1 DEF Skip, Chunk
<1>3. <<>> \in Seq(Values)
  OBVIOUS
<1>4. Good(c)
  BY <1>2, <1>3 DEF Good, Sound
<1>5. QED
  BY <1>1, <1>2, <1>4, ToBeForms DEF CurGood, Payload

\* A piece that has no chunk yet.
LEMMA NoChunks ==
    CurSeq(<<>>) /\ Pending(<<>>) = <<>> /\ BytesOf(WrittenAll(<<>>)) = FileHdr
<1>0. PICK T : T = {}
  OBVIOUS
<1>1. <<>> \in Seq(T) /\ \A c \in T : CurGood(c)
  BY <1>0
<1>2. CurSeq(<<>>)
  BY <1>1, Zenon DEF CurSeq
<1>3. WrittenAll(<<>>) = <<>>
  BY DEF WrittenAll
<1>4. QED
  BY <1>2, <1>3, PendingOne, BytesOfNone, Zenon

-----------------------------------------------------------------------------
(* From the rest to the piece                                              *)

\* Taking the first chunk off what is still to be packed.
LEMMA HeadPending ==
    ASSUME path \in {"blob", "buffer"}, NEW s, GoodSeq(s), s # <<>>
    PROVE  /\ Good(Head(s)) /\ GoodSeq(Tail(s)) /\ GoodSeq(<<Head(s)>>)
           /\ s = <<Head(s)>> \o Tail(s)
           /\ Pending(s) = ToBe(Head(s)) \o Pending(Tail(s))
           /\ ToBe(Head(s)) \in Seq(Cells) /\ Pending(Tail(s)) \in Seq(Cells)
           /\ Len(ToBe(Head(s))) = Head(s).blocks
<1>1. PICK T : s \in Seq(T) /\ \A c \in T : Good(c)
  BY DEF GoodSeq
<1>2. Head(s) \in T /\ Tail(s) \in Seq(T) /\ s = <<Head(s)>> \o Tail(s)
  BY <1>1
<1>3. Good(Head(s)) /\ GoodSeq(Tail(s))
  BY <1>1, <1>2, Zenon DEF GoodSeq
<1>4. GoodSeq(<<Head(s)>>) /\ Pending(<<Head(s)>>) = ToBe(Head(s)) /\ Len(ToBe(Head(s))) = Head(s).blocks
  BY <1>3, PendingOne, Zenon
<1>5. /\ Pending(<<Head(s)>> \o Tail(s)) = Pending(<<Head(s)>>) \o Pending(Tail(s))
      /\ Pending(<<Head(s)>>) \in Seq(Cells) /\ Pending(Tail(s)) \in Seq(Cells)
  BY <1>3, <1>4, PendingConcat, Zenon
<1>6. QED
  BY <1>2, <1>3, <1>4, <1>5, Zenon

\* Putting a chunk in front.
LEMMA ConsPending ==
    ASSUME path \in {"blob", "buffer"}, NEW s, GoodSeq(s), NEW c, Good(c)
    PROVE  /\ GoodSeq(<<c>> \o s) /\ Pending(<<c>> \o s) = ToBe(c) \o Pending(s)
           /\ ToBe(c) \in Seq(Cells) /\ Pending(s) \in Seq(Cells)
<1>1. GoodSeq(<<c>>) /\ Pending(<<c>>) = ToBe(c)
  BY PendingOne, Zenon
<1>2. QED
  BY <1>1, PendingConcat, Zenon

\* Concatenation of what is pending.
LEMMA Associative == \A a, b, c \in Seq(Cells) : (a \o b) \o c = a \o (b \o c)
  BY ConcatAssociative

\* Where the parts of a concatenation are found.
LEMMA Joined ==
    \A a, b \in Seq(Cells) :
        /\ a \o b \in Seq(Cells) /\ Len(a \o b) = Len(a) + Len(b)
        /\ \A i \in 1..Len(a) : (a \o b)[i] = a[i]
        /\ \A i \in 1..Len(b) : (a \o b)[Len(a) + i] = b[i]
  BY ConcatProperties

\* What Place leaves of the rest.
Left == (IF CutUp(First) THEN <<RestBehind(First, Step)>> ELSE <<>>) \o Tail(rest)

\* What is pending is the next part and what Place leaves.
LEMMA PartMoves ==
    ASSUME SizeInv, Ready, GoodSeq(rest)
    PROVE  /\ CurGood(NextPart) /\ GoodSeq(Left)
           /\ Pending(rest) = ToBe(NextPart) \o Pending(Left)
           /\ ToBe(NextPart) \in Seq(Cells) /\ Pending(Left) \in Seq(Cells)
           /\ Len(ToBe(NextPart)) = NextPart.blocks
           /\ Len(Pending(rest)) = NextPart.blocks + Len(Pending(Left))
<1>0. path \in {"blob", "buffer"} /\ rest # <<>>
  BY DEF SizeInv, Ready, Packing
<1>1. /\ Good(First) /\ GoodSeq(Tail(rest))
      /\ Pending(rest) = ToBe(First) \o Pending(Tail(rest))
      /\ ToBe(First) \in Seq(Cells) /\ Pending(Tail(rest)) \in Seq(Cells)
  BY <1>0, HeadPending DEF First
<1>2. CASE CutUp(First)
  <2>1. /\ Good(NextPart) /\ NextPart.type = "RAW" /\ Good(RestBehind(First, Step))
        /\ ToBe(First) = ToBe(NextPart) \o ToBe(RestBehind(First, Step))
    BY <1>1, <1>2, CutSplits
  <2>2. Left = <<RestBehind(First, Step)>> \o Tail(rest)
    BY <1>2 DEF Left
  <2>3. /\ GoodSeq(Left) /\ Pending(Left) = ToBe(RestBehind(First, Step)) \o Pending(Tail(rest))
        /\ ToBe(RestBehind(First, Step)) \in Seq(Cells)
    BY <1>0, <1>1, <2>1, <2>2, ConsPending, Zenon
  <2>4. ToBe(NextPart) \in Seq(Cells) /\ Len(ToBe(NextPart)) = NextPart.blocks
    BY <1>0, <2>1, ToBeTypes
  <2>5. PICK a, b, d : a = ToBe(NextPart) /\ b = ToBe(RestBehind(First, Step)) /\ d = Pending(Tail(rest))
    BY Zenon
  <2>6. a \in Seq(Cells) /\ b \in Seq(Cells) /\ d \in Seq(Cells)
    BY <1>1, <2>3, <2>4, <2>5, Zenon
  <2>7. (a \o b) \o d = a \o (b \o d) /\ b \o d \in Seq(Cells) /\ Len(a \o (b \o d)) = Len(a) + Len(b \o d)
    <3>1. (a \o b) \o d = a \o (b \o d)
      BY <2>6, Associative, Zenon
    <3>2. b \o d \in Seq(Cells)
      BY <2>6, Joined, Zenon
    <3>3. Len(a \o (b \o d)) = Len(a) + Len(b \o d)
      BY <2>6, <3>2, Joined, Zenon
    <3>4. QED
      BY <3>1, <3>2, <3>3
  <2>8. Pending(rest) = ToBe(NextPart) \o Pending(Left) /\ Pending(Left) \in Seq(Cells)
        /\ Len(ToBe(NextPart) \o Pending(Left)) = Len(ToBe(NextPart)) + Len(Pending(Left))
    BY <1>1, <2>1, <2>3, <2>5, <2>7, Zenon
  <2>9. CurGood(NextPart)
    BY <2>1 DEF CurGood
  <2>10. QED
    BY <2>3, <2>4, <2>8, <2>9, Zenon
<1>3. CASE ~CutUp(First)
  <2>1. NextPart = First /\ Left = <<>> \o Tail(rest)
    BY <1>3 DEF NextPart, Left
  <2>2. Left = Tail(rest)
    <3>1. PICK T : Tail(rest) \in Seq(T)
      BY <1>1 DEF GoodSeq
    <3>2. QED
      BY <2>1, <3>1
  <2>3. CurGood(NextPart)
    BY <1>0, <1>1, <2>1 DEF CurGood, Ready
  <2>4. Len(ToBe(NextPart)) = NextPart.blocks
    BY <1>0, <1>1, <2>1, ToBeTypes
  <2>5. Len(ToBe(NextPart) \o Pending(Left)) = Len(ToBe(NextPart)) + Len(Pending(Left))
    BY <1>1, <2>1, <2>2, Joined, Zenon
  <2>6. QED
    BY <1>1, <2>1, <2>2, <2>3, <2>4, <2>5, Zenon
<1>4. QED
  BY <1>2, <1>3

\* The image is cut off, or a raw Blob that is split ends within a block.
Bad == \/ Truncated(image)
       \/ path = "blob" /\ ~image.sparse /\ ~Whole /\ image.chunks[1].bytes % BlockSize # 0

\* A piece the bootloader takes, but for its size and for checksums.
PieceOk(p) ==
    IF p.bare THEN p.chunks = image.chunks /\ Whole
    ELSE /\ p.bytes = BytesOf(p.chunks) /\ p.bytes \in Int
         /\ (path = "blob" /\ HasCrc) \/ \A i \in DOMAIN p.chunks : ChunkOk(p.chunks[i])
         /\ Len(Contents(p.chunks)) = image.total

\* The piece under construction and the rest make up the partition.
PackOf(r, cu, sz, n, l) ==
    /\ GoodSeq(r) /\ CurSeq(cu)
    /\ BytesOf(WrittenAll(cu)) = sz
    /\ Len(Pending(cu)) = n
    /\ l = "pack" => n + Len(Pending(r)) = image.total /\ ~Whole

PackInv == PackOf(rest, cur, size, cursor, pc)

\* The chunks of Piece.
Closed == IF cursor < image.total THEN Append(cur, Skip(image.total - cursor)) ELSE cur

\* It is one the bootloader takes.
LEMMA PieceMade ==
    ASSUME SizeInv, PackInv, pc = "pack"
    PROVE  /\ PieceOk(Piece) /\ CurSeq(Closed)
           /\ Piece.chunks = WrittenAll(Closed) /\ Piece.bare = FALSE
           /\ Contents(Piece.chunks) = Pending(Closed)
           /\ Pending(cur) \in Seq(Cells) /\ Len(Pending(cur)) = cursor
           /\ Pending(Closed) \in Seq(Cells) /\ Len(Pending(Closed)) = image.total
           /\ \A b \in 1..cursor : Pending(Closed)[b] = Pending(cur)[b]
           /\ \A b \in 1..image.total : b > cursor => Pending(Closed)[b] = Keep
<1>0. /\ path \in {"blob", "buffer"} /\ CurSeq(cur) /\ GoodSeq(rest) /\ image.total \in Nat
      /\ BytesOf(WrittenAll(cur)) = size /\ Len(Pending(cur)) = cursor
      /\ cursor + Len(Pending(rest)) = image.total
      /\ size \in Int
  BY ImageChunks DEF SizeInv, PackInv, PackOf
<1>1. GoodSeq(cur) /\ Pending(cur) \in Seq(Cells) /\ Pending(rest) \in Seq(Cells)
  <2>1. GoodSeq(cur)
    BY <1>0, CurContents
  <2>2. QED
    BY <1>0, <2>1, PendingConcat
<1>2. Len(Pending(cur)) \in Nat /\ Len(Pending(rest)) \in Nat
  BY <1>1
<1>3. cursor \in Nat /\ cursor <= image.total
  BY <1>0, <1>2
<1>4. PICK p : p = Piece
  OBVIOUS
<1>5. /\ p.chunks = WrittenAll(Closed) /\ p.bare = FALSE
      /\ p.bytes = IF cursor < image.total THEN size + ChunkHdr ELSE size
  BY <1>4 DEF Piece, Closed, WrittenAll
<1>6. /\ CurSeq(Closed) /\ p.bytes = BytesOf(WrittenAll(Closed))
      /\ Pending(Closed) \in Seq(Cells) /\ Len(Pending(Closed)) = image.total
      /\ \A b \in 1..cursor : Pending(Closed)[b] = Pending(cur)[b]
      /\ \A b \in 1..image.total : b > cursor => Pending(Closed)[b] = Keep
  <2>1. CASE cursor < image.total
    <3>1. PICK n : n = image.total - cursor
      OBVIOUS
    <3>2. n \in Nat /\ cursor + n = image.total
      BY <1>0, <1>3, <2>1, <3>1
    <3>3. CurGood(Skip(n)) /\ ToBe(Skip(n)) = [i \in 1..n |-> Keep] /\ Payload(Skip(n)) = 0 /\ Skip(n).blocks = n
      BY <1>0, <3>2, SkipGood
    <3>4. Closed = Append(cur, Skip(n))
      BY <2>1, <3>1 DEF Closed
    <3>5. /\ CurSeq(Closed) /\ Pending(Closed) = Pending(cur) \o ToBe(Skip(n))
          /\ ToBe(Skip(n)) \in Seq(Cells)
          /\ Len(Pending(Closed)) = Len(Pending(cur)) + n
          /\ BytesOf(WrittenAll(Closed)) = BytesOf(WrittenAll(cur)) + ChunkHdr + 0
      BY <1>0, <3>3, <3>4, CurAppend, ZenonT(60)
    <3>6. p.bytes = BytesOf(WrittenAll(Closed))
      BY <1>0, <1>5, <2>1, <3>5, Numbers
    <3>7. Len(ToBe(Skip(n))) = n
      BY <3>2, <3>3
    <3>8. /\ Pending(Closed) \in Seq(Cells)
          /\ \A i \in 1..Len(Pending(cur)) : Pending(Closed)[i] = Pending(cur)[i]
          /\ \A i \in 1..Len(ToBe(Skip(n))) : Pending(Closed)[Len(Pending(cur)) + i] = ToBe(Skip(n))[i]
      <4>1. PICK x, y, z : x = Pending(cur) /\ y = ToBe(Skip(n)) /\ z = Pending(Closed)
        BY Zenon
      <4>2. x \in Seq(Cells) /\ y \in Seq(Cells) /\ z = x \o y
        BY <1>1, <3>5, <4>1, Zenon
      <4>3. /\ z \in Seq(Cells)
            /\ \A i \in 1..Len(x) : z[i] = x[i]
            /\ \A i \in 1..Len(y) : z[Len(x) + i] = y[i]
        BY <4>2, Joined
      <4>4. QED
        BY <4>1, <4>3, Zenon
    <3>9. ASSUME NEW b \in 1..image.total, b > cursor PROVE Pending(Closed)[b] = Keep
      <4>1. b - cursor \in 1..n /\ cursor + (b - cursor) = b
        BY <1>0, <1>3, <3>2, <3>9
      <4>2. Pending(Closed)[cursor + (b - cursor)] = ToBe(Skip(n))[b - cursor]
        BY <1>0, <3>7, <3>8, <4>1
      <4>3. ToBe(Skip(n))[b - cursor] = Keep
        BY <3>3, <4>1
      <4>4. QED
        BY <4>1, <4>2, <4>3
    <3>10. Len(Pending(Closed)) = image.total
      BY <1>0, <3>2, <3>5
    <3>11. QED
      BY <1>0, <3>5, <3>6, <3>8, <3>9, <3>10
  <2>2. CASE ~(cursor < image.total)
    <3>1. Closed = cur /\ cursor = image.total
      BY <1>0, <1>3, <2>2 DEF Closed
    <3>2. ~(\E b \in 1..image.total : b > cursor)
      BY <1>3, <3>1
    <3>3. p.bytes = size
      BY <1>5, <2>2
    <3>4. QED
      BY <1>0, <1>1, <3>1, <3>2, <3>3
  <2>3. QED
    BY <2>1, <2>2
<1>7. /\ Contents(WrittenAll(Closed)) = Pending(Closed)
      /\ (path = "blob" /\ HasCrc) \/ \A i \in DOMAIN WrittenAll(Closed) : ChunkOk(WrittenAll(Closed)[i])
  BY <1>0, <1>6, CurContents
<1>8. PieceOk(p)
  <2>1. p.bytes \in Int
    BY <1>0, <1>5, Numbers
  <2>2. QED
    BY <1>5, <1>6, <1>7, <2>1 DEF PieceOk
<1>9. QED
  BY <1>0, <1>1, <1>4, <1>5, <1>6, <1>7, <1>8

-----------------------------------------------------------------------------
(* The steps                                                               *)

\* The invariant speaks of an image and a path that stay.
LEMMA SameChunks ==
    ASSUME UNCHANGED <<image, path>>
    PROVE  /\ \A c : Good(c)' <=> Good(c)
           /\ \A c : CurGood(c)' <=> CurGood(c)
           /\ \A s : Pending(s)' = Pending(s)
           /\ \A s : WrittenAll(s)' = WrittenAll(s)
           /\ \A p : PieceOk(p)' <=> PieceOk(p)
           /\ Bad' <=> Bad
           /\ Whole' <=> Whole
<1>1. \A c : Good(c)' <=> Good(c)
  BY DEF Good, Values, HasCrc
<1>2. \A c : CurGood(c)' <=> CurGood(c)
  BY <1>1 DEF CurGood
<1>3. \A s : Pending(s)' = Pending(s)
  BY DEF Pending, AllToBe, ToBe, Written, ZeroAt
<1>4. \A s : WrittenAll(s)' = WrittenAll(s)
  BY DEF WrittenAll, Written
<1>5. Whole' <=> Whole
  BY DEF Whole
<1>6. Bad' <=> Bad
  BY <1>5 DEF Bad
<1>7. \A p : PieceOk(p)' <=> PieceOk(p)
  BY <1>5 DEF PieceOk, HasCrc
<1>8. QED
  BY <1>1, <1>2, <1>3, <1>4, <1>5, <1>6, <1>7

\* The same of what is packed and pending after a step.
LEMMA PackPrime ==
    ASSUME UNCHANGED <<image, path>>, PackOf(rest', cur', size', cursor', pc')
    PROVE  PackInv'
<1>1. GoodSeq(rest)'
  BY SameChunks DEF PackOf, GoodSeq
<1>2. CurSeq(cur)'
  BY SameChunks DEF PackOf, CurSeq
<1>3. BytesOf(WrittenAll(cur))' = size'
  BY DEF PackOf, WrittenAll, Written
<1>4. Len(Pending(cur))' = cursor' /\ Len(Pending(rest))' = Len(Pending(rest'))
  BY DEF PackOf, Pending, AllToBe, ToBe, Written, ZeroAt
<1>5. QED
  BY <1>1, <1>2, <1>3, <1>4, SameChunks DEF PackInv, PackOf

-----------------------------------------------------------------------------
(* Reading the image                                                       *)

\* Lists of sequences of the same lengths.
InStep(p, q, r) ==
    /\ Len(q) = Len(p) /\ Len(r) = Len(p)
    /\ \A i \in 1..Len(p) : Len(q[i]) = Len(p[i]) /\ Len(r[i]) = Len(p[i])

\* Sequences made of them: what stands at one place in one stands there in all.
JoinedAlike(p, q, r, x, y, z) ==
    /\ Len(y) = Len(x) /\ Len(z) = Len(x)
    /\ \A b \in 1..Len(x) : \E i \in 1..Len(p) : \E j \in 1..Len(p[i]) :
         x[b] = p[i][j] /\ y[b] = q[i][j] /\ z[b] = r[i][j]

\* Flattening keeps lists that are in step together.
LEMMA Aligned ==
    ASSUME NEW S, NEW p \in Seq(Seq(S)), NEW q \in Seq(Seq(S)), NEW r \in Seq(Seq(S)),
           InStep(p, q, r)
    PROVE  JoinedAlike(p, q, r, FlattenSeq(p), FlattenSeq(q), FlattenSeq(r))
<1>0. /\ Len(q) = Len(p) /\ Len(r) = Len(p)
      /\ \A i \in 1..Len(p) : Len(q[i]) = Len(p[i]) /\ Len(r[i]) = Len(p[i])
  BY DEF InStep
<1>1. PICK f : /\ f \in [0..Len(p) -> Seq(S)] /\ f[0] = <<>>
               /\ \A i \in 1..Len(p) : f[i] = f[i - 1] \o p[i]
               /\ FlattenSeq(p) = f[Len(p)]
  BY Flattening, Zenon
<1>2. PICK g : /\ g \in [0..Len(q) -> Seq(S)] /\ g[0] = <<>>
               /\ \A i \in 1..Len(q) : g[i] = g[i - 1] \o q[i]
               /\ FlattenSeq(q) = g[Len(q)]
  BY Flattening, Zenon
<1>3. PICK h : /\ h \in [0..Len(r) -> Seq(S)] /\ h[0] = <<>>
               /\ \A i \in 1..Len(r) : h[i] = h[i - 1] \o r[i]
               /\ FlattenSeq(r) = h[Len(r)]
  BY Flattening, Zenon
<1>4. PICK N : N = Len(p)
  OBVIOUS
<1>5. N \in Nat /\ Len(q) = N /\ Len(r) = N
  BY <1>0, <1>4
<1>6. \A i \in 1..N : p[i] \in Seq(S) /\ q[i] \in Seq(S) /\ r[i] \in Seq(S)
  <2>1. p \in [1..N -> Seq(S)] /\ q \in [1..N -> Seq(S)] /\ r \in [1..N -> Seq(S)]
    BY <1>4, <1>5
  <2>2. QED
    BY <2>1
<1>7. \A a, b \in Seq(S) :
        /\ a \o b \in Seq(S) /\ Len(a \o b) = Len(a) + Len(b) /\ Len(a) \in Nat
        /\ \A i \in 1..Len(a) : (a \o b)[i] = a[i]
        /\ \A i \in 1..Len(b) : (a \o b)[Len(a) + i] = b[i]
  BY ConcatProperties
<1> DEFINE At(n, b) == \E i \in 1..N : \E j \in 1..Len(p[i]) :
                         f[n][b] = p[i][j] /\ g[n][b] = q[i][j] /\ h[n][b] = r[i][j]
           Same(n) == /\ Len(g[n]) = Len(f[n]) /\ Len(h[n]) = Len(f[n])
                      /\ \A b \in 1..Len(f[n]) : At(n, b)
           T == {n \in Nat : n <= N => Same(n)}
<1>8. 0 \in T
  <2>1. Len(f[0]) = 0 /\ Len(g[0]) = 0 /\ Len(h[0]) = 0 /\ 1..0 = {}
    BY <1>1, <1>2, <1>3
  <2> HIDE DEF At
  <2>2. Same(0)
    BY <2>1
  <2> HIDE DEF Same
  <2>3. QED
    BY <2>2
<1>9. ASSUME NEW n \in Nat, n \in T PROVE n + 1 \in T
  <2>1. SUFFICES ASSUME n + 1 <= N PROVE Same(n + 1)
    <3> HIDE DEF Same
    <3>1. QED
      OBVIOUS
  <2>2. Same(n)
    <3> HIDE DEF Same
    <3>1. n <= N
      BY <1>5, <2>1
    <3>2. QED
      BY <1>9, <3>1
  <2>3. PICK m : m = n + 1
    OBVIOUS
  <2>4. m \in 1..N /\ m - 1 = n /\ n \in 0..N
    BY <1>5, <2>1, <2>3
  <2>5. PICK a1, a2, b1, b2, c1, c2 :
          a1 = f[n] /\ a2 = p[m] /\ b1 = g[n] /\ b2 = q[m] /\ c1 = h[n] /\ c2 = r[m]
    BY Zenon
  <2>6. f[m] = a1 \o a2 /\ g[m] = b1 \o b2 /\ h[m] = c1 \o c2
    BY <1>1, <1>2, <1>3, <1>4, <1>5, <2>4, <2>5, Zenon
  <2>7. /\ a1 \in Seq(S) /\ b1 \in Seq(S) /\ c1 \in Seq(S)
        /\ a2 \in Seq(S) /\ b2 \in Seq(S) /\ c2 \in Seq(S)
    BY <1>1, <1>2, <1>3, <1>4, <1>5, <1>6, <2>4, <2>5
  <2>8. Len(b1) = Len(a1) /\ Len(c1) = Len(a1) /\ Len(b2) = Len(a2) /\ Len(c2) = Len(a2)
    BY <1>0, <1>4, <2>2, <2>4, <2>5
  <2>9. /\ Len(a1) \in Nat /\ Len(a2) \in Nat /\ Len(a1 \o a2) = Len(a1) + Len(a2)
        /\ Len(b1 \o b2) = Len(a1) + Len(a2) /\ Len(c1 \o c2) = Len(a1) + Len(a2)
    <3>1. /\ Len(a1 \o a2) = Len(a1) + Len(a2) /\ Len(b1 \o b2) = Len(b1) + Len(b2)
          /\ Len(c1 \o c2) = Len(c1) + Len(c2) /\ Len(a1) \in Nat /\ Len(a2) \in Nat
      BY <1>7, <2>7, Zenon
    <3>2. QED
      BY <2>8, <3>1
  <2>10. ASSUME NEW b \in 1..(Len(a1) + Len(a2)) PROVE At(m, b)
    <3>1. CASE b <= Len(a1)
      <4>1. b \in 1..Len(a1)
        BY <2>9, <3>1
      <4>2. (a1 \o a2)[b] = a1[b] /\ (b1 \o b2)[b] = b1[b] /\ (c1 \o c2)[b] = c1[b]
        BY <1>7, <2>7, <2>8, <4>1
      <4>3. At(n, b)
        BY <2>2, <2>5, <4>1, Zenon
      <4>4. QED
        BY <2>5, <2>6, <4>2, <4>3, Zenon
    <3>2. CASE ~(b <= Len(a1))
      <4>1. PICK j \in 1..Len(a2) : b = Len(a1) + j
        <5>1. b - Len(a1) \in 1..Len(a2) /\ b = Len(a1) + (b - Len(a1))
          BY <2>9, <3>2
        <5>2. QED
          BY <5>1
      <4>2. (a1 \o a2)[b] = a2[j] /\ (b1 \o b2)[b] = b2[j] /\ (c1 \o c2)[b] = c2[j]
        BY <1>7, <2>7, <2>8, <4>1
      <4>3. j \in 1..Len(p[m])
        BY <2>5
      <4>4. f[m][b] = p[m][j] /\ g[m][b] = q[m][j] /\ h[m][b] = r[m][j]
        BY <2>5, <2>6, <4>2, Zenon
      <4>5. QED
        BY <2>4, <4>3, <4>4, Zenon
    <3>3. QED
      BY <3>1, <3>2
  <2>11. Len(f[m]) = Len(a1) + Len(a2) /\ Len(g[m]) = Len(f[m]) /\ Len(h[m]) = Len(f[m])
    BY <2>6, <2>9, Zenon
  <2>12. Same(m)
    <3> HIDE DEF At
    <3>1. QED
      BY <2>10, <2>11, Zenon
  <2>13. QED
    BY <2>3, <2>12, Zenon
<1>10. Same(N)
  <2> HIDE DEF Same
  <2>1. N \in T
    <3> HIDE DEF T
    <3>1. QED
      BY <1>5, <1>8, <1>9, Induction
  <2>2. N <= N
    BY <1>5
  <2>3. QED
    BY <2>1, <2>2
<1>11. FlattenSeq(p) = f[N] /\ FlattenSeq(q) = g[N] /\ FlattenSeq(r) = h[N]
  BY <1>1, <1>2, <1>3, <1>4, <1>5, Zenon
<1>12. PICK x, y, z : x = f[N] /\ y = g[N] /\ z = h[N]
  BY Zenon
<1>13. /\ Len(y) = Len(x) /\ Len(z) = Len(x)
       /\ \A b \in 1..Len(x) : \E i \in 1..N : \E j \in 1..Len(p[i]) :
            x[b] = p[i][j] /\ y[b] = q[i][j] /\ z[b] = r[i][j]
  BY <1>10, <1>12, Zenon
<1>14. FlattenSeq(p) = x /\ FlattenSeq(q) = y /\ FlattenSeq(r) = z
  BY <1>11, <1>12, Zenon
<1>15. \A b \in 1..Len(x) : \E i \in 1..Len(p) : \E j \in 1..Len(p[i]) :
            x[b] = p[i][j] /\ y[b] = q[i][j] /\ z[b] = r[i][j]
  BY <1>4, <1>13
<1>16. JoinedAlike(p, q, r, x, y, z)
  BY <1>13, <1>15, Zenon DEF JoinedAlike
<1>17. QED
  BY <1>14, <1>16, Zenon

\* What the chunks of an image declare.
LEMMA ExpandForms ==
    ASSUME NEW c, Good(c)
    PROVE  /\ c.type \in {"RAW", "FILE"} => Expand(c) = c.data
           /\ c.type = "FILL" => Expand(c) = [i \in 1..c.blocks |-> c.data[1]]
           /\ c.type = "DONT_CARE" => Expand(c) = [i \in 1..c.blocks |-> Keep]
           /\ c.type = "CRC32" => Expand(c) = <<>> /\ c.blocks = 0
           /\ Expand(c) \in Seq(Cells) /\ Len(Expand(c)) = c.blocks
<1>1. c.blocks \in Nat /\ c.data \in Seq(Cells) /\ Keep \in Cells
  BY DEF Good, Cells
<1>2. ASSUME NEW f, f \in [1..c.blocks -> Cells] PROVE f \in Seq(Cells) /\ Len(f) = c.blocks
  BY <1>1, <1>2
<1>3. CASE c.type \in {"RAW", "FILE"}
  <2>1. Expand(c) = c.data
    BY <1>3 DEF Expand
  <2>2. Len(c.data) = c.blocks
    BY <1>3 DEF Good, RawFile
  <2>3. QED
    BY <1>1, <1>3, <2>1, <2>2
<1>4. CASE c.type = "FILL"
  <2>1. Expand(c) = [i \in 1..c.blocks |-> c.data[1]]
    BY <1>4 DEF Expand
  <2>2. c.data[1] \in Cells
    BY <1>1, <1>4 DEF Good
  <2>3. Expand(c) \in [1..c.blocks -> Cells]
    BY <2>1, <2>2
  <2>4. QED
    BY <1>2, <1>4, <2>1, <2>3
<1>5. CASE c.type = "DONT_CARE"
  <2>1. Expand(c) = [i \in 1..c.blocks |-> Keep]
    BY <1>5 DEF Expand
  <2>2. Expand(c) \in [1..c.blocks -> Cells]
    BY <1>1, <2>1
  <2>3. QED
    BY <1>2, <1>5, <2>1, <2>2
<1>6. CASE c.type = "CRC32"
  <2>1. Expand(c) = <<>> /\ c.blocks = 0
    BY <1>6 DEF Expand, Good
  <2>2. <<>> \in Seq(Cells) /\ Len(<<>>) = 0
    OBVIOUS
  <2>3. QED
    BY <1>6, <2>1, <2>2
<1>7. QED
  BY <1>3, <1>4, <1>5, <1>6 DEF Good, Sound

\* The chunks of an image that is neither cut off nor, if it is a raw Blob
\* that is split, ends within a block.
LEMMA ChunksGood ==
    ASSUME image \in Images, path \in {"blob", "buffer"}, ~Bad, ~Whole,
           NEW i \in DOMAIN image.chunks
    PROVE  /\ Good(image.chunks[i])
           /\ \A j \in DOMAIN image.chunks[i].data : image.chunks[i].data[j] # Keep
           /\ image.chunks[i].type = "FILE" <=> ~image.sparse
<1>1. PICK c : c = image.chunks[i]
  OBVIOUS
<1>2. /\ c.data \in Seq({c.data[j] : j \in DOMAIN c.data} \ {Keep})
      /\ image.sparse => WellFormed(c)
      /\ ~image.sparse => RawFile(c) /\ Len(image.chunks) = 1
  <2>1. /\ image.chunks[i].data \in
               Seq({image.chunks[i].data[j] : j \in DOMAIN image.chunks[i].data} \ {Keep})
        /\ image.sparse => WellFormed(image.chunks[i])
        /\ ~image.sparse => RawFile(image.chunks[i])
        /\ ~image.sparse => Len(image.chunks) = 1
    BY ImageAssumption, Zenon
  <2>2. QED
    BY <1>1, <2>1
<1>3. {c.data[j] : j \in DOMAIN c.data} \ {Keep} \subseteq Values
  BY <1>1 DEF Values
<1>4. c.data \in Seq(Values)
  BY <1>2, <1>3
<1>5. \A j \in DOMAIN c.data : c.data[j] # Keep
  <2>1. \A E : \A q \in Seq(E) : \A j \in DOMAIN q : q[j] \in E
    OBVIOUS
  <2>2. \A j \in DOMAIN c.data : c.data[j] \in {c.data[k] : k \in DOMAIN c.data} \ {Keep}
    BY <1>2, <2>1, Zenon
  <2>3. QED
    BY <2>2
<1>6. Sound(c)
  BY <1>2 DEF Sound, WellFormed, RawFile
<1>7. CASE image.sparse
  <2>1. WellFormed(c)
    BY <1>2, <1>7
  <2>2. c.short = 0
    <3>1. ~(c.short > 0) /\ c.short \in Nat
      BY <1>1, <2>1 DEF Bad, Truncated, WellFormed
    <3>2. QED
      BY <3>1
  <2>3. c.type = "CRC32" => HasCrc
    BY <1>1 DEF HasCrc
  <2>4. Good(c)
    BY <1>4, <1>6, <2>1, <2>2, <2>3 DEF Good, WellFormed
  <2>5. c.type # "FILE"
    BY <2>1 DEF WellFormed
  <2>6. QED
    BY <1>1, <1>5, <1>7, <2>4, <2>5
<1>8. CASE ~image.sparse
  <2>1. RawFile(c) /\ i = 1
    <3>1. DOMAIN image.chunks = 1..Len(image.chunks)
      BY ImageAssumption
    <3>2. Len(image.chunks) = 1
      BY <1>2, <1>8
    <3>3. i = 1
      BY <3>1, <3>2
    <3>4. QED
      BY <1>2, <1>8, <3>3
  <2>2. path = "blob" => c.bytes = c.blocks * BlockSize
    <3>1. SUFFICES ASSUME path = "blob" PROVE c.bytes = c.blocks * BlockSize
      OBVIOUS
    <3>2. c.bytes % BlockSize = 0
      BY <1>1, <1>8, <2>1, <3>1 DEF Bad
    <3>3. /\ c.bytes \in Int /\ c.blocks \in Int
          /\ (c.blocks - 1) * BlockSize < c.bytes /\ c.bytes <= c.blocks * BlockSize
      BY <2>1 DEF RawFile
    <3>4. PICK k : k = c.bytes \div BlockSize
      OBVIOUS
    <3>5. c.bytes = k * BlockSize /\ k \in Int
      BY <3>2, <3>3, <3>4, Divide, Numbers
    <3>6. c.blocks - 1 < k
      <4>1. c.blocks - 1 \in Int /\ (c.blocks - 1) * BlockSize < k * BlockSize
        BY <3>3, <3>5
      <4>2. QED
        BY <3>5, <4>1, Times, Numbers
    <3>7. ~(c.blocks < k)
      <4>1. SUFFICES ASSUME c.blocks < k PROVE FALSE
        OBVIOUS
      <4>2. c.blocks + 1 <= k /\ c.blocks + 1 \in Int
        BY <3>3, <3>5, <4>1
      <4>3. (c.blocks + 1) * BlockSize <= k * BlockSize
        BY <3>5, <4>2, Times, Numbers
      <4>4. (c.blocks + 1) * BlockSize = c.blocks * BlockSize + 1 * BlockSize
            /\ c.blocks * BlockSize \in Int /\ k * BlockSize \in Int
        BY <3>3, <3>5, Times, Numbers
      <4>5. QED
        BY <3>3, <3>5, <4>3, <4>4, Numbers
    <3>8. k = c.blocks
      BY <3>3, <3>5, <3>6, <3>7
    <3>9. QED
      BY <3>5, <3>8
  <2>3. Good(c)
    BY <1>4, <1>6, <2>1, <2>2 DEF Good, RawFile
  <2>4. QED
    BY <1>1, <1>5, <1>8, <2>1, <2>3 DEF RawFile
<1>9. QED
  BY <1>7, <1>8, ImageAssumption

\* What the partition is to hold in a block; Keep if it stays as it is.
Want(b) ==
    IF Contents(image.chunks)[b] = Keep \/ ZeroKept(b) THEN Keep
    ELSE IF FillLost(b) THEN Zero ELSE Contents(image.chunks)[b]

Types == [i \in DOMAIN image.chunks |->
            [j \in 1..image.chunks[i].blocks |-> image.chunks[i].type]]

\* It is what is pending when the image has been read.
LEMMA ImagePending ==
    ASSUME image \in Images, path \in {"blob", "buffer"}, ~Bad, ~Whole
    PROVE  /\ GoodSeq(image.chunks)
           /\ Len(Pending(image.chunks)) = image.total
           /\ \A b \in 1..image.total : Pending(image.chunks)[b] = Want(b)
<1>1. PICK ch : ch = image.chunks
  OBVIOUS
<1>2. PICK N : N = Len(ch)
  OBVIOUS
<1>3. /\ DOMAIN ch = 1..N /\ N \in Nat /\ ch \in Seq({ch[i] : i \in DOMAIN ch})
      /\ image.total = Len(Contents(ch)) /\ image.sparse \in BOOLEAN
      /\ ~image.sparse => N = 1
  <2>1. ch \in Seq({ch[i] : i \in DOMAIN ch}) /\ image.total = Len(Contents(ch))
        /\ image.sparse \in BOOLEAN
    BY <1>1, ImageAssumption
  <2>2. DOMAIN ch = 1..N /\ N \in Nat
    BY <1>2, <2>1
  <2>3. ~image.sparse => N = 1
    BY <1>1, <1>2, ImageAssumption
  <2>4. QED
    BY <2>1, <2>2, <2>3
<1>4. ASSUME NEW i \in 1..N
      PROVE  /\ Good(ch[i]) /\ (ch[i].type = "FILE" <=> ~image.sparse)
             /\ \A j \in DOMAIN ch[i].data : ch[i].data[j] # Keep
  BY <1>1, <1>3, ChunksGood
<1>5. GoodSeq(ch)
  <2>1. PICK T : T = {ch[i] : i \in DOMAIN ch}
    OBVIOUS
  <2>2. ch \in Seq(T) /\ \A c \in T : Good(c)
    BY <1>3, <1>4, <2>1
  <2>3. QED
    BY <2>2, Zenon DEF GoodSeq
<1> DEFINE S == Cells \cup {"RAW", "FILL", "DONT_CARE", "CRC32", "FILE"}
           p == [i \in DOMAIN ch |-> Expand(ch[i])]
           q == AllToBe(ch)
           r == [i \in DOMAIN ch |-> [j \in 1..ch[i].blocks |-> ch[i].type]]
<1>6. ASSUME NEW i \in 1..N
      PROVE  /\ Expand(ch[i]) \in Seq(S) /\ ToBe(ch[i]) \in Seq(S)
             /\ [j \in 1..ch[i].blocks |-> ch[i].type] \in Seq(S)
             /\ Len(Expand(ch[i])) = ch[i].blocks /\ Len(ToBe(ch[i])) = ch[i].blocks
             /\ Len([j \in 1..ch[i].blocks |-> ch[i].type]) = ch[i].blocks
  <2>1. PICK c : c = ch[i]
    OBVIOUS
  <2>2. Good(c)
    BY <1>4, <2>1
  <2>3. Expand(c) \in Seq(Cells) /\ Len(Expand(c)) = c.blocks
    BY <2>2, ExpandForms
  <2>4. ToBe(c) \in Seq(Cells) /\ Len(ToBe(c)) = c.blocks
    BY <2>2, ToBeTypes
  <2>5. [j \in 1..c.blocks |-> c.type] \in [1..c.blocks -> S] /\ c.blocks \in Nat
    BY <2>2 DEF Good, Sound
  <2>6. [j \in 1..c.blocks |-> c.type] \in Seq(S) /\ Len([j \in 1..c.blocks |-> c.type]) = c.blocks
    BY <2>5
  <2>7. QED
    BY <2>1, <2>3, <2>4, <2>6
<1>7. /\ p \in Seq(Seq(S)) /\ q \in Seq(Seq(S)) /\ r \in Seq(Seq(S))
      /\ Len(p) = N /\ Len(q) = N /\ Len(r) = N
      /\ \A i \in 1..N : p[i] = Expand(ch[i]) /\ q[i] = ToBe(ch[i])
                         /\ r[i] = [j \in 1..ch[i].blocks |-> ch[i].type]
  <2> HIDE DEF S
  <2>1. p \in [1..N -> Seq(S)]
    BY <1>3, <1>6
  <2>2. q \in [1..N -> Seq(S)] /\ \A i \in 1..N : q[i] = ToBe(ch[i])
    BY <1>3, <1>6 DEF AllToBe
  <2>3. r \in [1..N -> Seq(S)]
    BY <1>3, <1>6
  <2>4. QED
    BY <1>3, <2>1, <2>2, <2>3
<1>8. \A i \in 1..N : Len(p[i]) = ch[i].blocks /\ Len(q[i]) = ch[i].blocks /\ Len(r[i]) = ch[i].blocks
  BY <1>6, <1>7, Zenon
<1>9. Contents(ch) = FlattenSeq(p) /\ Pending(ch) = FlattenSeq(q)
  BY Zenon DEF Contents, Pending
<1>10. FlattenSeq(Types) = FlattenSeq(r)
  BY <1>1, Zenon DEF Types
<1> HIDE DEF S, p, q, r
<1>11. /\ Len(FlattenSeq(q)) = Len(FlattenSeq(p))
       /\ \A b \in 1..Len(FlattenSeq(p)) : \E i \in 1..N : \E j \in 1..ch[i].blocks :
            /\ FlattenSeq(p)[b] = p[i][j]
            /\ FlattenSeq(q)[b] = q[i][j]
            /\ FlattenSeq(r)[b] = r[i][j]
  <2>1. InStep(p, q, r)
    BY <1>7, <1>8 DEF InStep
  <2>2. JoinedAlike(p, q, r, FlattenSeq(p), FlattenSeq(q), FlattenSeq(r))
    BY <1>7, <2>1, Aligned, Zenon
  <2>3. PICK x, y, z : x = FlattenSeq(p) /\ y = FlattenSeq(q) /\ z = FlattenSeq(r)
    BY Zenon
  <2>4. /\ Len(y) = Len(x)
        /\ \A b \in 1..Len(x) : \E i \in 1..Len(p) : \E j \in 1..Len(p[i]) :
             x[b] = p[i][j] /\ y[b] = q[i][j] /\ z[b] = r[i][j]
    BY <2>2, <2>3, Zenon DEF JoinedAlike
  <2>5. Len(p) = N /\ \A i \in 1..N : Len(p[i]) = ch[i].blocks
    BY <1>7, <1>8
  <2>6. \A b \in 1..Len(x) : \E i \in 1..N : \E j \in 1..ch[i].blocks :
          x[b] = p[i][j] /\ y[b] = q[i][j] /\ z[b] = r[i][j]
    <3>1. ASSUME NEW b \in 1..Len(x)
          PROVE  \E i \in 1..N : \E j \in 1..ch[i].blocks :
                   x[b] = p[i][j] /\ y[b] = q[i][j] /\ z[b] = r[i][j]
      <4>1. PICK i \in 1..Len(p) : \E j \in 1..Len(p[i]) :
              x[b] = p[i][j] /\ y[b] = q[i][j] /\ z[b] = r[i][j]
        BY <2>4, Zenon
      <4>2. i \in 1..N /\ Len(p[i]) = ch[i].blocks
        BY <2>5
      <4>3. QED
        BY <4>1, <4>2
    <3>2. QED
      BY <3>1
  <2>7. QED
    BY <2>3, <2>4, <2>6, Zenon
<1>12. Len(Pending(ch)) = image.total
  BY <1>3, <1>9, <1>11
<1>13. ASSUME NEW b \in 1..image.total PROVE Pending(ch)[b] = Want(b)
  <2>0. PICK i \in 1..N : \E j \in 1..ch[i].blocks :
          /\ FlattenSeq(p)[b] = p[i][j]
          /\ FlattenSeq(q)[b] = q[i][j]
          /\ FlattenSeq(r)[b] = r[i][j]
    BY <1>3, <1>9, <1>11
  <2>1. PICK j \in 1..ch[i].blocks :
          /\ Contents(ch)[b] = Expand(ch[i])[j]
          /\ Pending(ch)[b] = ToBe(ch[i])[j]
          /\ FlattenSeq(r)[b] = ch[i].type
    <3>1. PICK j \in 1..ch[i].blocks :
            /\ FlattenSeq(p)[b] = p[i][j]
            /\ FlattenSeq(q)[b] = q[i][j]
            /\ FlattenSeq(r)[b] = r[i][j]
      BY <2>0, Zenon
    <3>2. r[i][j] = ch[i].type
      BY <1>7
    <3>3. QED
      BY <1>7, <1>9, <3>1, <3>2, Zenon
  <2>2. FillLost(b) <=> path = "blob" /\ ch[i].type = "FILL"
    <3>1. FillLost(b) <=> path = "blob" /\ FlattenSeq(Types)[b] = "FILL"
      BY Zenon DEF FillLost, Types
    <3>2. QED
      BY <1>10, <2>1, <3>1, Zenon
  <2>3. PICK c : c = ch[i]
    OBVIOUS
  <2>4. Good(c) /\ (c.type = "FILE" <=> ~image.sparse) /\ \A k \in DOMAIN c.data : c.data[k] # Keep
    BY <1>4, <2>3
  <2>5. j \in 1..c.blocks /\ c.blocks \in Nat
    BY <2>1, <2>3, <2>4 DEF Good
  <2>6. c.type # "FILE" => ~ZeroKept(b)
    BY <2>4 DEF ZeroKept
  <2>7. CASE c.type = "RAW"
    <3>1. Len(c.data) = c.blocks /\ c.data[j] # Keep
      BY <2>4, <2>5, <2>7 DEF Good
    <3>2. Expand(c) = c.data /\ ToBe(c) = c.data
      BY <2>4, <2>7, ExpandForms, ToBeForms
    <3>3. QED
      BY <1>1, <2>1, <2>2, <2>3, <2>6, <2>7, <3>1, <3>2 DEF Want
  <2>8. CASE c.type = "FILL"
    <3>1. c.data[1] # Keep
      BY <2>4, <2>8 DEF Good
    <3>2. Expand(c)[j] = c.data[1] /\ ToBe(c)[j] = IF path = "blob" THEN Zero ELSE c.data[1]
      BY <2>4, <2>5, <2>8, ExpandForms, ToBeForms
    <3>3. QED
      BY <1>1, <2>1, <2>2, <2>3, <2>6, <2>8, <3>1, <3>2 DEF Want
  <2>9. CASE c.type = "DONT_CARE"
    <3>1. Expand(c)[j] = Keep /\ ToBe(c)[j] = Keep
      BY <2>4, <2>5, <2>9, ExpandForms, ToBeForms
    <3>2. QED
      BY <1>1, <2>1, <2>3, <3>1 DEF Want
  <2>10. CASE c.type = "CRC32"
    BY <2>4, <2>5, <2>10, ExpandForms
  <2>11. CASE c.type = "FILE"
    <3>1. N = 1 /\ i = 1 /\ ~image.sparse
      BY <1>3, <2>4, <2>11
    <3>2. ch = <<c>>
      BY <1>2, <1>3, <2>3, <3>1
    <3>3. Contents(ch) = c.data
      <4>1. [k \in DOMAIN ch |-> Expand(ch[k])] = <<Expand(c)>>
        BY <1>3, <2>3, <3>1
      <4>2. Expand(c) = c.data /\ c.data \in Seq(Values)
        BY <2>4, <2>11, ExpandForms DEF Good
      <4>3. QED
        BY <4>1, <4>2, FlattenOne, Zenon DEF Contents
    <3>4. Pending(ch) = ToBe(c)
      BY <2>4, <3>2, PendingOne, Zenon
    <3>5. Len(c.data) = c.blocks /\ b \in 1..c.blocks
      BY <1>3, <2>4, <2>11, <3>3 DEF Good, RawFile
    <3>6. c.data[b] # Keep
      BY <2>4, <2>5, <3>5
    <3>7. ZeroKept(b) <=> path = "buffer" /\ ZeroAt(c, b)
      BY <1>1, <2>3, <3>1, <3>3 DEF ZeroKept, ZeroAt
    <3>8. ~FillLost(b)
      BY <2>2, <2>3, <2>11
    <3>9. /\ path = "blob" => ToBe(c)[b] = c.data[b]
          /\ path = "buffer" => ToBe(c)[b] = IF ZeroAt(c, b) THEN Keep ELSE c.data[b]
      BY <2>4, <2>11, <3>5, ToBeForms
    <3>10. QED
      BY <1>1, <3>3, <3>4, <3>6, <3>7, <3>8, <3>9 DEF Want
  <2>12. QED
    BY <2>4, <2>7, <2>8, <2>9, <2>10, <2>11 DEF Good, Sound
<1>14. QED
  BY <1>1, <1>5, <1>12, <1>13

-----------------------------------------------------------------------------
(* What is in its place                                                    *)

\* A piece writes in no block anything but what the block is to hold.
PieceRight(p) == \A b \in 1..image.total : Contents(p.chunks)[b] \in {Keep, Want(b)}

\* What a block is to hold is there, or in a piece that will be flashed, or in
\* the piece under construction, or still to be packed.
PlacedOf(r, cu, n, l, ps, d) ==
    /\ \A p \in ps : PieceOk(p) /\ PieceRight(p)
    /\ l = "pack" => /\ \A b \in 1..(image.total - n) : Pending(r)[b] = Want(n + b)
                     /\ \A b \in 1..n : Pending(cu)[b] \in {Keep, Want(b)}
    /\ \A b \in 1..image.total : d[b] = Old \/ (Want(b) # Keep /\ d[b] = Want(b))
    /\ \A b \in 1..image.total : Want(b) # Keep =>
         \/ d[b] = Want(b)
         \/ \E p \in ps : Contents(p.chunks)[b] = Want(b)
         \/ l = "pack" /\ (b > n \/ Pending(cu)[b] = Want(b))
         \/ l \in {"given", "threw", "refused"}

PlacedInv == PlacedOf(rest, cur, cursor, pc, ToSet(pieces), disk)

\* The same of what is in its place after a step.
LEMMA PlacedPrime ==
    ASSUME UNCHANGED <<image, path>>,
           PlacedOf(rest', cur', cursor', pc', ToSet(pieces'), disk')
    PROVE  PlacedInv'
<1>1. \A b : Want(b)' = Want(b)
  BY DEF Want, ZeroKept, FillLost, Whole
<1>2. \A p : PieceRight(p)' <=> PieceRight(p)
  BY <1>1 DEF PieceRight
<1>3. Pending(rest)' = Pending(rest') /\ Pending(cur)' = Pending(cur') /\ ToSet(pieces)' = ToSet(pieces')
  BY DEF Pending, AllToBe, ToBe, Written, ZeroAt, ToSet
<1>4. QED
  BY <1>1, <1>2, <1>3, SameChunks DEF PlacedInv, PlacedOf

\* The pieces there are, when one is put behind them or taken off.
LEMMA PieceSets ==
    /\ ToSet(<<>>) = {}
    /\ \A p : ToSet(<<p>>) = {p}
    /\ \A S : \A s \in Seq(S) :
         /\ \A p : ToSet(Append(s, p)) = ToSet(s) \cup {p}
         /\ s # <<>> => ToSet(s) = {Head(s)} \cup ToSet(Tail(s))
<1>1. ToSet(<<>>) = {} /\ \A p : ToSet(<<p>>) = {p}
  BY DEF ToSet
<1>2. ASSUME NEW S, NEW s \in Seq(S), NEW p PROVE ToSet(Append(s, p)) = ToSet(s) \cup {p}
  <2>1. PICK r, T : r = Append(s, p) /\ T = S \cup {p}
    OBVIOUS
  <2>2. s \in Seq(T) /\ p \in T
    BY <2>1
  <2>3. /\ Len(s) \in Nat /\ DOMAIN s = 1..Len(s) /\ DOMAIN r = 1..(Len(s) + 1)
        /\ \A i \in 1..Len(s) : r[i] = s[i]
        /\ r[Len(s) + 1] = p
    BY <2>1, <2>2
  <2>4. \A i \in 1..(Len(s) + 1) : i \in 1..Len(s) \/ i = Len(s) + 1
    BY <2>3
  <2>5. 1..Len(s) \subseteq 1..(Len(s) + 1) /\ Len(s) + 1 \in 1..(Len(s) + 1)
    BY <2>3
  <2>6. ToSet(r) = ToSet(s) \cup {p}
    BY <2>3, <2>4, <2>5 DEF ToSet
  <2>7. QED
    BY <2>1, <2>6
<1>3. ASSUME NEW S, NEW s \in Seq(S), s # <<>> PROVE ToSet(s) = {Head(s)} \cup ToSet(Tail(s))
  <2>1. /\ Len(s) \in Nat /\ DOMAIN s = 1..Len(s) /\ 1 \in 1..Len(s) /\ Head(s) = s[1]
        /\ DOMAIN Tail(s) = 1..(Len(s) - 1)
        /\ \A i \in 1..(Len(s) - 1) : Tail(s)[i] = s[i + 1] /\ i + 1 \in 1..Len(s)
    BY <1>3
  <2>2. \A i \in 1..Len(s) : i = 1 \/ (i - 1 \in 1..(Len(s) - 1) /\ (i - 1) + 1 = i)
    BY <2>1
  <2>3. PICK t : t = Tail(s)
    OBVIOUS
  <2>4. DOMAIN t = 1..(Len(s) - 1) /\ \A i \in 1..(Len(s) - 1) : t[i] = s[i + 1] /\ i + 1 \in 1..Len(s)
    BY <2>1, <2>3
  <2>5. ASSUME NEW e \in ToSet(s) PROVE e \in {Head(s)} \cup ToSet(t)
    <3>1. PICK i \in 1..Len(s) : e = s[i]
      BY <2>1 DEF ToSet
    <3>2. CASE i = 1
      BY <2>1, <3>1, <3>2
    <3>3. CASE i # 1
      <4>1. i - 1 \in 1..(Len(s) - 1) /\ t[i - 1] = s[(i - 1) + 1] /\ (i - 1) + 1 = i
        BY <2>2, <2>4, <3>3
      <4>2. e = t[i - 1] /\ i - 1 \in DOMAIN t
        BY <2>4, <3>1, <4>1
      <4>3. QED
        BY <4>2 DEF ToSet
    <3>4. QED
      BY <3>2, <3>3
  <2>6. ASSUME NEW e \in {Head(s)} \cup ToSet(t) PROVE e \in ToSet(s)
    <3>1. CASE e = Head(s)
      BY <2>1, <3>1 DEF ToSet
    <3>2. CASE e \in ToSet(t)
      <4>1. PICK i \in 1..(Len(s) - 1) : e = t[i]
        BY <2>4, <3>2 DEF ToSet
      <4>2. e = s[i + 1] /\ i + 1 \in DOMAIN s
        BY <2>1, <2>4, <4>1
      <4>3. QED
        BY <4>2 DEF ToSet
    <3>3. QED
      BY <2>6, <3>1, <3>2
  <2>7. QED
    BY <2>3, <2>5, <2>6
<1>4. QED
  BY <1>1, <1>2, <1>3

\* The next part goes into a piece cu that declares the blocks before it, which
\* becomes cu1 and ends at block n1.
Moved(cu, cu1, n1) ==
    /\ PackOf(Left, cu1, BytesOf(WrittenAll(cu)) + ChunkHdr + Payload(NextPart), n1, "pack")
    /\ \A b \in 1..(image.total - n1) : Pending(Left)[b] = Want(n1 + b)
    /\ \A b \in 1..cursor : Pending(cu1)[b] = Pending(cu)[b]
    /\ \A b \in 1..n1 : b > cursor => Pending(cu1)[b] = Want(b)
    /\ cursor \in Nat /\ n1 \in Nat

\* The part that is next was first of what is pending.
LEMMA Packed ==
    ASSUME SizeInv, Ready, PackInv, PlacedInv, pc = "pack",
           NEW cu, CurSeq(cu), Len(Pending(cu)) = cursor,
           NEW cu1, cu1 = Append(cu, NextPart),
           NEW n1, n1 = cursor + NextPart.blocks
    PROVE  Moved(cu, cu1, n1)
<1>1. path \in {"blob", "buffer"} /\ image.total \in Nat
  BY ImageChunks DEF SizeInv
<1>2. GoodSeq(rest) /\ cursor + Len(Pending(rest)) = image.total /\ ~Whole
  BY DEF PackInv, PackOf
<1>3. \A b \in 1..(image.total - cursor) : Pending(rest)[b] = Want(cursor + b)
  BY DEF PlacedInv, PlacedOf
<1>4. PICK x, y, z : x = Pending(cu) /\ y = ToBe(NextPart) /\ z = Pending(Left)
  BY Zenon
<1>5. PICK k : k = NextPart.blocks
  OBVIOUS
<1>6. /\ CurGood(NextPart) /\ GoodSeq(Left) /\ Pending(rest) = y \o z
      /\ y \in Seq(Cells) /\ z \in Seq(Cells) /\ Len(y) = k
      /\ Len(Pending(rest)) = k + Len(z)
  BY <1>2, <1>4, <1>5, PartMoves, Zenon
<1>7. /\ CurSeq(cu1) /\ Pending(cu1) = x \o y /\ x \in Seq(Cells)
      /\ Len(Pending(cu1)) = Len(x) + k
      /\ BytesOf(WrittenAll(cu1)) = BytesOf(WrittenAll(cu)) + ChunkHdr + Payload(NextPart)
  BY <1>1, <1>4, <1>5, <1>6, CurAppend, Zenon
<1>8. Len(x) = cursor /\ Len(x) \in Nat /\ k \in Nat /\ Len(z) \in Nat /\ n1 = cursor + k
  BY <1>4, <1>5, <1>6, <1>7
<1>9. n1 + Len(z) = image.total /\ n1 \in Nat /\ cursor \in Nat
  BY <1>2, <1>6, <1>8
<1>10. PackOf(Left, cu1, BytesOf(WrittenAll(cu)) + ChunkHdr + Payload(NextPart), n1, "pack")
  BY <1>2, <1>4, <1>6, <1>7, <1>8, <1>9 DEF PackOf
<1>11. /\ \A i \in 1..Len(x) : (x \o y)[i] = x[i]
       /\ \A i \in 1..Len(y) : (x \o y)[Len(x) + i] = y[i]
       /\ \A i \in 1..Len(y) : (y \o z)[i] = y[i]
       /\ \A i \in 1..Len(z) : (y \o z)[Len(y) + i] = z[i]
  BY <1>6, <1>7, Joined, Zenon
<1>12. ASSUME NEW b \in 1..(image.total - n1) PROVE z[b] = Want(n1 + b)
  <2>1. b \in 1..Len(z) /\ k + b \in 1..(image.total - cursor) /\ cursor + (k + b) = n1 + b
    <3>1. PICK l, t, u : l = Len(z) /\ t = image.total /\ u = cursor
      OBVIOUS
    <3>2. l \in Nat /\ t \in Nat /\ u \in Nat /\ k \in Nat /\ n1 = u + k /\ n1 + l = t
      BY <1>1, <1>8, <1>9, <3>1
    <3>3. b \in Int /\ 1 <= b /\ b <= t - n1
      BY <1>1, <3>1, <3>2
    <3>4. b \in 1..l /\ k + b \in 1..(t - u) /\ u + (k + b) = n1 + b
      BY <3>2, <3>3
    <3>5. QED
      BY <3>1, <3>4
  <2>2. Pending(rest)[k + b] = Want(cursor + (k + b))
    BY <1>3, <2>1, Zenon
  <2>3. (y \o z)[k + b] = z[b]
    BY <1>6, <1>11, <2>1, Zenon
  <2>4. QED
    BY <1>6, <2>1, <2>2, <2>3, Zenon
<1>13. ASSUME NEW b \in 1..n1, b > cursor PROVE Pending(cu1)[b] = Want(b)
  <2>1. PICK j : j = b - cursor
    OBVIOUS
  <2>2. j \in 1..Len(y) /\ j \in 1..(image.total - cursor) /\ b = cursor + j
    <3>1. PICK l, t, u, w : l = Len(z) /\ t = image.total /\ u = cursor /\ w = Len(y)
      OBVIOUS
    <3>2. l \in Nat /\ t \in Nat /\ u \in Nat /\ w = k /\ k \in Nat /\ n1 = u + k /\ n1 + l = t
      BY <1>1, <1>6, <1>8, <1>9, <3>1
    <3>3. b \in Int /\ 1 <= b /\ b <= n1 /\ b > u /\ j = b - u
      BY <1>13, <2>1, <3>1, <3>2
    <3>4. j \in 1..w /\ j \in 1..(t - u) /\ b = u + j
      BY <3>2, <3>3
    <3>5. QED
      BY <3>1, <3>4
  <2>3. (x \o y)[Len(x) + j] = y[j] /\ (y \o z)[j] = y[j] /\ Pending(rest)[j] = Want(cursor + j)
    BY <1>3, <1>11, <2>2, Zenon
  <2>4. QED
    BY <1>6, <1>7, <1>8, <2>2, <2>3, Zenon
<1>14. QED
  BY <1>4, <1>7, <1>8, <1>9, <1>10, <1>11, <1>12, <1>13, Zenon DEF Moved

\* What is packed and what is in its place, after a step.
Kept == /\ PackOf(rest', cur', size', cursor', pc')
        /\ PlacedOf(rest', cur', cursor', pc', ToSet(pieces'), disk')

\* The facts a step may rely on.
LEMMA Unpacked ==
    ASSUME SizeInv, PackInv, pc = "pack"
    PROVE  /\ path \in {"blob", "buffer"} /\ image \in Images /\ image.total \in Nat
           /\ GoodSeq(rest) /\ CurSeq(cur) /\ GoodSeq(cur)
           /\ Pending(cur) \in Seq(Cells) /\ Pending(rest) \in Seq(Cells)
           /\ Len(Pending(cur)) = cursor /\ cursor \in Nat
           /\ cursor + Len(Pending(rest)) = image.total /\ cursor <= image.total
           /\ ~Whole
<1>1. /\ path \in {"blob", "buffer"} /\ image \in Images /\ image.total \in Nat
      /\ GoodSeq(rest) /\ CurSeq(cur) /\ ~Whole
      /\ Len(Pending(cur)) = cursor /\ cursor + Len(Pending(rest)) = image.total
  BY ImageChunks DEF SizeInv, PackInv, PackOf
<1>2. GoodSeq(cur)
  BY <1>1, CurContents
<1>3. Pending(cur) \in Seq(Cells) /\ Pending(rest) \in Seq(Cells)
  BY <1>1, <1>2, PendingConcat
<1>4. PICK x, y : x = Pending(cur) /\ y = Pending(rest)
  OBVIOUS
<1>5. Len(x) \in Nat /\ Len(y) \in Nat
  BY <1>3, <1>4
<1>6. cursor \in Nat /\ cursor <= image.total
  BY <1>1, <1>4, <1>5
<1>7. QED
  BY <1>1, <1>2, <1>3, <1>6

\* Before anything is read.
LEMMA InitKept == ASSUME Init PROVE PackInv /\ PlacedInv
<1>1. /\ rest = <<>> /\ pieces = <<>> /\ cur = <<>> /\ size = FileHdr /\ cursor = 0
      /\ pc = "given" /\ disk = [b \in 1..image.total |-> Old]
  BY Zenon DEF Init
<1>2. Len(Pending(cur)) = 0 /\ GoodSeq(rest) /\ CurSeq(cur) /\ BytesOf(WrittenAll(cur)) = FileHdr
  BY <1>1, NoChunks, PendingOne
<1>3. PackInv
  BY <1>1, <1>2 DEF PackInv, PackOf
<1>4. ToSet(pieces) = {}
  BY <1>1, PieceSets
<1>5. PlacedInv
  BY <1>1, <1>4 DEF PlacedInv, PlacedOf
<1>6. QED
  BY <1>3, <1>5

\* An image that fits is one piece, and that one holds what is wanted.
LEMMA WholeKept ==
    ASSUME SizeInv, PackInv, PlacedInv, KeepWhole PROVE Kept
<1>1. PICK p : p = [chunks |-> image.chunks, bytes |-> FileBytes(image), bare |-> TRUE]
  OBVIOUS
<1>2. /\ pc = "given" /\ Whole /\ pieces' = <<p>> /\ pc' = "flash"
      /\ UNCHANGED <<image, path, rest, cur, size, cursor, disk>>
  BY <1>1 DEF KeepWhole
<1>3. PackOf(rest', cur', size', cursor', pc')
  BY <1>2 DEF PackInv, PackOf
<1>4. p.bare /\ p.chunks = image.chunks
  BY <1>1
<1>5. PieceOk(p)
  BY <1>2, <1>4 DEF PieceOk
<1>6. ASSUME NEW b \in 1..image.total PROVE Contents(p.chunks)[b] = Want(b)
  <2>1. ~ZeroKept(b) /\ ~FillLost(b)
    BY <1>2 DEF ZeroKept, FillLost
  <2>2. QED
    BY <1>4, <2>1 DEF Want
<1>7. PieceRight(p)
  BY <1>6 DEF PieceRight
<1>8. ToSet(pieces') = {p}
  BY <1>2, PieceSets
<1>9. PlacedOf(rest', cur', cursor', pc', ToSet(pieces'), disk')
  <2>1. \A b \in 1..image.total : disk[b] = Old \/ (Want(b) # Keep /\ disk[b] = Want(b))
    BY DEF PlacedInv, PlacedOf
  <2>2. QED
    BY <1>2, <1>5, <1>6, <1>7, <1>8, <2>1 DEF PlacedOf
<1>10. QED
  BY <1>3, <1>9 DEF Kept

\* An image that is read is pending as a whole.
LEMMA ReadKept ==
    ASSUME SizeInv, PackInv, PlacedInv, ~Bad, Read,
           pc = "given" => rest = <<>> /\ cur = <<>> /\ cursor = 0
    PROVE  Kept
<1>1. /\ pc = "given" /\ ~Whole /\ rest = <<>> /\ cur = <<>> /\ cursor = 0
      /\ UNCHANGED <<image, path, cur, size, cursor, pieces, disk>>
  BY DEF Read, Start, Stop
<1>2. CASE pc' = "threw" /\ rest' = rest
  <2>1. PackOf(rest', cur', size', cursor', pc')
    BY <1>1, <1>2 DEF PackInv, PackOf
  <2>2. PlacedOf(rest', cur', cursor', pc', ToSet(pieces'), disk')
    BY <1>1, <1>2 DEF PlacedInv, PlacedOf
  <2>3. QED
    BY <2>1, <2>2 DEF Kept
<1>3. CASE pc' = "pack" /\ rest' = image.chunks
  <2>1. image \in Images /\ path \in {"blob", "buffer"} /\ image.total \in Nat
    BY ImageChunks DEF SizeInv
  <2>2. /\ GoodSeq(image.chunks) /\ Len(Pending(image.chunks)) = image.total
        /\ \A b \in 1..image.total : Pending(image.chunks)[b] = Want(b)
    BY <1>1, <2>1, ImagePending
  <2>3. PackOf(rest', cur', size', cursor', pc')
    BY <1>1, <1>3, <2>1, <2>2 DEF PackInv, PackOf
  <2>4. \A b \in 1..(image.total - cursor') : Pending(rest')[b] = Want(cursor' + b)
    <3>1. image.total - cursor' = image.total /\ \A b \in 1..image.total : cursor' + b = b
      BY <1>1, <2>1
    <3>2. QED
      BY <1>3, <2>2, <3>1
  <2>5. \A b \in 1..cursor' : Pending(cur')[b] \in {Keep, Want(b)}
    BY <1>1
  <2>6. \A b \in 1..image.total : b > cursor'
    BY <1>1, <2>1
  <2>7. /\ \A p \in ToSet(pieces) : PieceOk(p) /\ PieceRight(p)
        /\ \A b \in 1..image.total : disk[b] = Old \/ (Want(b) # Keep /\ disk[b] = Want(b))
    BY DEF PlacedInv, PlacedOf
  <2>8. PlacedOf(rest', cur', cursor', pc', ToSet(pieces'), disk')
    BY <1>1, <1>3, <2>4, <2>5, <2>6, <2>7 DEF PlacedOf
  <2>9. QED
    BY <2>3, <2>8 DEF Kept
<1>4. QED
  BY <1>2, <1>3 DEF Read, Start, Stop

\* Steps that put other chunks for the same blocks in front of the rest.
LEMMA RestKept ==
    ASSUME PackInv, PlacedInv, pc = "pack",
           UNCHANGED <<image, path, pc, cur, size, cursor, pieces, disk>>,
           GoodSeq(rest'), Pending(rest') = Pending(rest)
    PROVE  Kept
<1>1. PackOf(rest', cur', size', cursor', pc')
  BY DEF PackInv, PackOf
<1>2. PlacedOf(rest', cur', cursor', pc', ToSet(pieces'), disk')
  BY DEF PlacedInv, PlacedOf
<1>3. QED
  BY <1>1, <1>2 DEF Kept

\* A checksum stands for no block.
LEMMA DropKept ==
    ASSUME SizeInv, PackInv, PlacedInv, DropChecksum PROVE Kept
<1>1. /\ pc = "pack" /\ rest # <<>> /\ First.type = "CRC32" /\ rest' = Tail(rest)
      /\ UNCHANGED <<image, path, pc, cur, size, cursor, pieces, disk>>
  BY DEF DropChecksum, Packing
<1>2. path \in {"blob", "buffer"} /\ GoodSeq(rest)
  BY <1>1, Unpacked
<1>3. /\ Good(First) /\ GoodSeq(Tail(rest))
      /\ Pending(rest) = ToBe(First) \o Pending(Tail(rest))
      /\ Pending(Tail(rest)) \in Seq(Cells)
  BY <1>1, <1>2, HeadPending DEF First
<1>4. ToBe(First) = <<>>
  BY <1>1, <1>2, <1>3, ToBeForms
<1>5. <<>> \o Pending(Tail(rest)) = Pending(Tail(rest))
  <2>1. PICK x : x = Pending(Tail(rest))
    OBVIOUS
  <2>2. <<>> \o x = x
    BY <1>3, <2>1
  <2>3. QED
    BY <2>1, <2>2, Zenon
<1>6. Pending(rest') = Pending(rest) /\ GoodSeq(rest')
  BY <1>1, <1>3, <1>4, <1>5, Zenon
<1>7. QED
  BY <1>1, <1>6, RestKept

\* The first blocks of a raw file and those behind them are its blocks.
LEMMA FileKept ==
    ASSUME SizeInv, PackInv, PlacedInv, ReadFile PROVE Kept
<1>1. /\ pc = "pack" /\ rest # <<>> /\ First.type = "FILE"
      /\ UNCHANGED <<image, path, pc, cur, size, cursor, pieces, disk>>
  BY DEF ReadFile, Packing
<1>2. path \in {"blob", "buffer"} /\ GoodSeq(rest)
  BY <1>1, Unpacked
<1>3. /\ Good(First) /\ GoodSeq(Tail(rest))
      /\ Pending(rest) = ToBe(First) \o Pending(Tail(rest))
      /\ Pending(Tail(rest)) \in Seq(Cells)
  BY <1>1, <1>2, HeadPending DEF First
<1>4. PICK j \in 1..First.blocks :
        /\ Run(First, j)
        /\ rest' = <<FileChunk(First, j)>>
                     \o (IF j = First.blocks THEN <<>> ELSE <<FileBehind(First, j)>>) \o Tail(rest)
  BY DEF ReadFile, FileChunk, FileBehind
<1>5. PICK a, b, t : a = FileChunk(First, j) /\ b = FileBehind(First, j) /\ t = Tail(rest)
  OBVIOUS
<1>6. /\ Good(a)
      /\ j = First.blocks => ToBe(First) = ToBe(a)
      /\ j # First.blocks => Good(b) /\ ToBe(First) = ToBe(a) \o ToBe(b)
  BY <1>1, <1>2, <1>3, <1>4, <1>5, FileSplits
<1>7. GoodSeq(<<a>> \o t) /\ Pending(<<a>> \o t) = ToBe(a) \o Pending(t)
      /\ ToBe(a) \in Seq(Cells) /\ Pending(t) \in Seq(Cells)
  BY <1>2, <1>3, <1>5, <1>6, ConsPending, Zenon
<1>8. PICK S : t \in Seq(S)
  BY <1>3, <1>5, Zenon DEF GoodSeq
<1>9. CASE j = First.blocks
  <2>1. rest' = (<<a>> \o <<>>) \o t
    BY <1>4, <1>5, <1>9
  <2>2. <<a>> \o <<>> = <<a>>
    OBVIOUS
  <2>3. rest' = <<a>> \o t
    BY <2>1, <2>2, Zenon
  <2>4. Pending(rest') = Pending(rest) /\ GoodSeq(rest')
    BY <1>3, <1>5, <1>6, <1>7, <1>9, <2>3, Zenon
  <2>5. QED
    BY <1>1, <2>4, RestKept
<1>10. CASE j # First.blocks
  <2>1. rest' = (<<a>> \o <<b>>) \o t
    BY <1>4, <1>5, <1>10
  <2>2. (<<a>> \o <<b>>) \o t = <<a>> \o (<<b>> \o t)
    BY <1>8
  <2>3. rest' = <<a>> \o (<<b>> \o t)
    BY <2>1, <2>2, Zenon
  <2>4. GoodSeq(<<b>> \o t) /\ Pending(<<b>> \o t) = ToBe(b) \o Pending(t) /\ ToBe(b) \in Seq(Cells)
    BY <1>2, <1>3, <1>5, <1>6, <1>10, ConsPending, Zenon
  <2>5. GoodSeq(rest') /\ Pending(rest') = ToBe(a) \o Pending(<<b>> \o t)
    BY <1>2, <1>6, <2>3, <2>4, ConsPending, Zenon
  <2>6. (ToBe(a) \o ToBe(b)) \o Pending(t) = ToBe(a) \o (ToBe(b) \o Pending(t))
    BY <1>7, <2>4, Associative, Zenon
  <2>7. Pending(rest') = Pending(rest)
    BY <1>3, <1>5, <1>6, <1>10, <2>4, <2>5, <2>6, Zenon
  <2>8. QED
    BY <1>1, <2>5, <2>7, RestKept
<1>11. QED
  BY <1>9, <1>10


\* A part that fits moves from the rest to the piece under construction.
LEMMA PushKept ==
    ASSUME SizeInv, PackInv, PlacedInv, Push PROVE Kept
<1>1. /\ pc = "pack" /\ Ready /\ cur' = Append(cur, NextPart)
      /\ cursor' = cursor + NextPart.blocks /\ rest' = Left
      /\ size' = size + ChunkHdr + Payload(NextPart)
      /\ UNCHANGED <<image, path, pc, pieces, disk>>
  BY DEF Push, Place, Left, Ready, Packing
<1>2. /\ CurSeq(cur) /\ Len(Pending(cur)) = cursor /\ image.total \in Nat
      /\ BytesOf(WrittenAll(cur)) = size
  BY <1>1, Unpacked DEF PackInv, PackOf
<1>3. PICK n1, cu1 : n1 = cursor' /\ cu1 = cur'
  OBVIOUS
<1>4. /\ PackOf(Left, cu1, BytesOf(WrittenAll(cur)) + ChunkHdr + Payload(NextPart), n1, "pack")
      /\ \A b \in 1..(image.total - n1) : Pending(Left)[b] = Want(n1 + b)
      /\ \A b \in 1..cursor : Pending(cu1)[b] = Pending(cur)[b]
      /\ \A b \in 1..n1 : b > cursor => Pending(cu1)[b] = Want(b)
      /\ cursor \in Nat /\ n1 \in Nat
  <2>1. cu1 = Append(cur, NextPart) /\ n1 = cursor + NextPart.blocks
    BY <1>1, <1>3
  <2>2. pc = "pack" /\ Ready /\ CurSeq(cur) /\ Len(Pending(cur)) = cursor
    BY <1>1, <1>2
    <2>3. Moved(cur, cu1, n1)
    BY <2>1, <2>2, Packed, Zenon
  <2>4. QED
    BY <2>3, Zenon DEF Moved
<1>5. PackOf(rest', cur', size', cursor', pc')
  BY <1>1, <1>2, <1>3, <1>4
<1>6. /\ \A p \in ToSet(pieces) : PieceOk(p) /\ PieceRight(p)
      /\ \A b \in 1..cursor : Pending(cur)[b] \in {Keep, Want(b)}
      /\ \A b \in 1..image.total : disk[b] = Old \/ (Want(b) # Keep /\ disk[b] = Want(b))
      /\ \A b \in 1..image.total : Want(b) # Keep =>
           \/ disk[b] = Want(b)
           \/ \E p \in ToSet(pieces) : Contents(p.chunks)[b] = Want(b)
           \/ b > cursor \/ Pending(cur)[b] = Want(b)
  BY <1>1 DEF PlacedInv, PlacedOf
<1>7. ASSUME NEW b \in 1..n1 PROVE Pending(cu1)[b] \in {Keep, Want(b)}
  <2>1. b \in 1..cursor \/ b > cursor
    BY <1>4
  <2>2. QED
    BY <1>4, <1>6, <2>1
<1>8. ASSUME NEW b \in 1..image.total, Want(b) # Keep
      PROVE  \/ disk[b] = Want(b)
             \/ \E p \in ToSet(pieces) : Contents(p.chunks)[b] = Want(b)
             \/ b > n1 \/ Pending(cu1)[b] = Want(b)
  <2>1. b > n1 \/ b \in 1..cursor \/ (b \in 1..n1 /\ b > cursor)
    BY <1>2, <1>4
  <2>2. CASE b \in 1..cursor
    <3>1. ~(b > cursor) /\ Pending(cu1)[b] = Pending(cur)[b]
      BY <1>4, <2>2
    <3>2. QED
      BY <1>6, <1>8, <3>1, Zenon
  <2>3. QED
    BY <1>4, <2>1, <2>2
<1>9. PlacedOf(rest', cur', cursor', pc', ToSet(pieces'), disk')
  <2>1. \A b \in 1..(image.total - cursor') : Pending(rest')[b] = Want(cursor' + b)
    BY <1>1, <1>3, <1>4
  <2>2. QED
    BY <1>1, <1>3, <1>6, <1>7, <1>8, <2>1 DEF PlacedOf
<1>10. QED
  BY <1>5, <1>9 DEF Kept

\* A piece is finished: every block before the cursor that it was to write is
\* written by it.
LEMMA PieceRightMade ==
    ASSUME SizeInv, PackInv, PlacedInv, pc = "pack"
    PROVE  /\ PieceOk(Piece) /\ PieceRight(Piece)
           /\ \A b \in 1..cursor : Contents(Piece.chunks)[b] = Pending(cur)[b]
<1>1. PICK p : p = Piece
  OBVIOUS
<1>2. /\ PieceOk(p) /\ Contents(p.chunks) = Pending(Closed)
      /\ \A b \in 1..cursor : Pending(Closed)[b] = Pending(cur)[b]
      /\ \A b \in 1..image.total : b > cursor => Pending(Closed)[b] = Keep
  BY <1>1, PieceMade
<1>3. image.total \in Nat /\ cursor \in Nat /\ cursor <= image.total
  BY Unpacked
<1>4. ASSUME NEW b \in 1..image.total PROVE Contents(p.chunks)[b] \in {Keep, Want(b)}
  <2>1. b \in 1..cursor \/ b > cursor
    BY <1>3
  <2>2. CASE b \in 1..cursor
    <3>1. Pending(cur)[b] \in {Keep, Want(b)}
      BY <2>2 DEF PlacedInv, PlacedOf
    <3>2. QED
      BY <1>2, <2>2, <3>1
  <2>3. QED
    BY <1>2, <2>1, <2>2
<1>5. QED
  BY <1>1, <1>2, <1>4 DEF PieceRight

\* The piece is put behind the others, the next declares the blocks before it
\* as a skip.
LEMMA YieldKept ==
    ASSUME SizeInv, PackInv, PlacedInv, Yield PROVE Kept
<1>1. PICK cu : cu = IF path = "buffer" /\ cursor = 0 THEN <<>> ELSE <<Skip(cursor)>>
  OBVIOUS
<1>2. /\ pc = "pack" /\ Ready /\ pieces' = Append(pieces, Piece)
      /\ cur' = Append(cu, NextPart)
      /\ cursor' = cursor + NextPart.blocks /\ rest' = Left
      /\ size' = FileHdr + (Len(cu) + 1) * ChunkHdr + Payload(NextPart)
      /\ UNCHANGED <<image, path, pc, disk>>
  BY <1>1 DEF Yield, Place, Left, Ready, Packing
<1>3. path \in {"blob", "buffer"} /\ image.total \in Nat /\ cursor \in Nat /\ cursor <= image.total
  BY <1>2, Unpacked
<1>4. /\ CurSeq(cu) /\ Len(Pending(cu)) = cursor
      /\ BytesOf(WrittenAll(cu)) = FileHdr + Len(cu) * ChunkHdr /\ Len(cu) \in {0, 1}
      /\ \A b \in 1..cursor : Pending(cu)[b] = Keep
  <2>1. CASE cu = <<>>
    <3>1. cursor = 0
      BY <1>1, <2>1
    <3>2. QED
      BY <2>1, <3>1, NoChunks, Numbers
  <2>2. CASE cu = <<Skip(cursor)>>
    <3>1. PICK c : c = Skip(cursor)
      OBVIOUS
    <3>2. CurGood(c) /\ ToBe(c) = [i \in 1..cursor |-> Keep] /\ Payload(c) = 0 /\ c.blocks = cursor
      BY <1>3, <3>1, SkipGood
    <3>3. cu = Append(<<>>, c) /\ Len(cu) = 1
      BY <2>2, <3>1
    <3>4. /\ CurSeq(cu) /\ BytesOf(WrittenAll(cu)) = FileHdr + ChunkHdr + 0
      BY <1>3, <3>2, <3>3, NoChunks, CurAppend, Zenon
    <3>5. Pending(cu) = ToBe(c) /\ Len(ToBe(c)) = cursor
      BY <1>3, <2>2, <3>1, <3>2, PendingOne, Zenon DEF CurGood
    <3>6. \A b \in 1..cursor : Pending(cu)[b] = Keep
      BY <3>2, <3>5
    <3>7. FileHdr + ChunkHdr + 0 = FileHdr + Len(cu) * ChunkHdr
      BY <3>3, Numbers
    <3>8. QED
      BY <3>3, <3>4, <3>5, <3>6, <3>7
  <2>3. QED
    BY <1>1, <2>1, <2>2
<1>5. PICK n1, cu1 : n1 = cursor' /\ cu1 = cur'
  OBVIOUS
<1>6. /\ PackOf(Left, cu1, BytesOf(WrittenAll(cu)) + ChunkHdr + Payload(NextPart), n1, "pack")
      /\ \A b \in 1..(image.total - n1) : Pending(Left)[b] = Want(n1 + b)
      /\ \A b \in 1..cursor : Pending(cu1)[b] = Pending(cu)[b]
      /\ \A b \in 1..n1 : b > cursor => Pending(cu1)[b] = Want(b)
      /\ cursor \in Nat /\ n1 \in Nat
  <2>1. cu1 = Append(cu, NextPart) /\ n1 = cursor + NextPart.blocks
    BY <1>2, <1>5
  <2>2. pc = "pack" /\ Ready /\ CurSeq(cu) /\ Len(Pending(cu)) = cursor
    BY <1>2, <1>4
    <2>3. Moved(cu, cu1, n1)
    BY <2>1, <2>2, Packed, Zenon
  <2>4. QED
    BY <2>3, Zenon DEF Moved
<1>7. PackOf(rest', cur', size', cursor', pc')
  <2>1. BytesOf(WrittenAll(cu)) + ChunkHdr = FileHdr + (Len(cu) + 1) * ChunkHdr
    <3>1. CASE Len(cu) = 0
      BY <1>4, <3>1, Numbers
    <3>2. CASE Len(cu) = 1
      BY <1>4, <3>2, Numbers
    <3>3. QED
      BY <1>4, <3>1, <3>2
  <2>2. QED
    BY <1>2, <1>5, <1>6, <2>1
<1>8. /\ \A p \in ToSet(pieces) : PieceOk(p) /\ PieceRight(p)
      /\ \A b \in 1..image.total : disk[b] = Old \/ (Want(b) # Keep /\ disk[b] = Want(b))
      /\ \A b \in 1..image.total : Want(b) # Keep =>
           \/ disk[b] = Want(b)
           \/ \E p \in ToSet(pieces) : Contents(p.chunks)[b] = Want(b)
           \/ b > cursor \/ Pending(cur)[b] = Want(b)
  BY <1>2 DEF PlacedInv, PlacedOf
<1>9. PICK q : q = Piece
  OBVIOUS
<1>10. PieceOk(q) /\ PieceRight(q) /\ \A b \in 1..cursor : Contents(q.chunks)[b] = Pending(cur)[b]
  BY <1>2, <1>9, PieceRightMade
<1>11. ToSet(pieces') = ToSet(pieces) \cup {q}
  BY <1>2, <1>9, PieceSets DEF SizeInv
<1>12. ASSUME NEW b \in 1..n1 PROVE Pending(cu1)[b] \in {Keep, Want(b)}
  <2>1. b \in 1..cursor \/ b > cursor
    BY <1>6
  <2>2. QED
    BY <1>4, <1>6, <2>1
<1>13. ASSUME NEW b \in 1..image.total, Want(b) # Keep
       PROVE  \/ disk[b] = Want(b)
              \/ \E p \in ToSet(pieces') : Contents(p.chunks)[b] = Want(b)
              \/ b > n1 \/ Pending(cu1)[b] = Want(b)
  <2>1. b > n1 \/ b \in 1..cursor \/ (b \in 1..n1 /\ b > cursor)
    BY <1>3, <1>6
  <2>2. CASE b \in 1..cursor
    <3>1. ~(b > cursor) /\ Pending(cur)[b] = Contents(q.chunks)[b]
      BY <1>6, <1>10, <2>2
    <3>2. QED
      BY <1>8, <1>11, <1>13, <3>1, Zenon
  <2>3. QED
    BY <1>6, <2>1, <2>2
<1>14. PlacedOf(rest', cur', cursor', pc', ToSet(pieces'), disk')
  <2>1. \A b \in 1..(image.total - cursor') : Pending(rest')[b] = Want(cursor' + b)
    BY <1>2, <1>5, <1>6
  <2>2. \A p \in ToSet(pieces') : PieceOk(p) /\ PieceRight(p)
    BY <1>8, <1>10, <1>11
  <2>3. QED
    BY <1>2, <1>5, <1>8, <1>12, <1>13, <2>1, <2>2 DEF PlacedOf
<1>15. QED
  BY <1>7, <1>14 DEF Kept

\* The last piece, or none if it would write nothing.
LEMMA FinishKept ==
    ASSUME SizeInv, PackInv, PlacedInv, Finish PROVE Kept
<1>1. /\ pc = "pack" /\ rest = <<>> /\ pc' = "flash"
      /\ UNCHANGED <<image, path, rest, cur, size, cursor, disk>>
  BY DEF Finish
<1>2. /\ path \in {"blob", "buffer"} /\ image.total \in Nat /\ CurSeq(cur) /\ GoodSeq(cur)
      /\ Len(Pending(cur)) = cursor /\ cursor + Len(Pending(rest)) = image.total /\ cursor \in Nat
  BY <1>1, Unpacked
<1>3. cursor = image.total
  <2>1. Len(Pending(rest)) = 0
    BY <1>1, NoChunks
  <2>2. QED
    BY <1>2, <2>1
<1>4. PackOf(rest', cur', size', cursor', pc')
  BY <1>1 DEF PackInv, PackOf
<1>5. /\ \A p \in ToSet(pieces) : PieceOk(p) /\ PieceRight(p)
      /\ \A b \in 1..image.total : disk[b] = Old \/ (Want(b) # Keep /\ disk[b] = Want(b))
      /\ \A b \in 1..image.total : Want(b) # Keep =>
           \/ disk[b] = Want(b)
           \/ \E p \in ToSet(pieces) : Contents(p.chunks)[b] = Want(b)
           \/ b > cursor \/ Pending(cur)[b] = Want(b)
  BY <1>1 DEF PlacedInv, PlacedOf
<1>6. \A b \in 1..image.total : b \in 1..cursor /\ ~(b > cursor)
  BY <1>2, <1>3
<1>7. SUFFICES
        /\ \A p \in ToSet(pieces') : PieceOk(p) /\ PieceRight(p)
        /\ \A b \in 1..image.total : Want(b) # Keep =>
             \/ disk[b] = Want(b)
             \/ \E p \in ToSet(pieces') : Contents(p.chunks)[b] = Want(b)
  BY <1>1, <1>4, <1>5 DEF Kept, PlacedOf
<1>8. CASE pieces' = Append(pieces, Piece)
  <2>1. PICK q : q = Piece
    OBVIOUS
  <2>2. PieceOk(q) /\ PieceRight(q) /\ \A b \in 1..cursor : Contents(q.chunks)[b] = Pending(cur)[b]
    BY <1>1, <2>1, PieceRightMade
  <2>3. ToSet(pieces') = ToSet(pieces) \cup {q}
    BY <1>8, <2>1, PieceSets DEF SizeInv
  <2>4. ASSUME NEW b \in 1..image.total, Want(b) # Keep
        PROVE  disk[b] = Want(b) \/ \E p \in ToSet(pieces') : Contents(p.chunks)[b] = Want(b)
    <3>1. ~(b > cursor) /\ Contents(q.chunks)[b] = Pending(cur)[b]
      BY <1>6, <2>2
    <3>2. QED
      BY <1>5, <2>3, <2>4, <3>1, Zenon
  <2>5. \A p \in ToSet(pieces') : PieceOk(p) /\ PieceRight(p)
    BY <1>5, <2>2, <2>3
  <2>6. QED
    BY <2>4, <2>5
<1>9. CASE ~WorthSending /\ pieces' = pieces
  <2>1. \A b \in 1..cursor : Pending(cur)[b] = Keep
    <3>1. CASE cur = <<>>
      BY <1>2, <3>1, NoChunks
    <3>2. CASE cur # <<>>
      <4>1. PICK T : cur \in Seq(T) /\ \A c \in T : Good(c)
        BY <1>2 DEF GoodSeq
      <4>2. PICK c : c = cur[1]
        OBVIOUS
      <4>3. path = "blob" /\ ~(Len(cur) > 1) /\ c.type = "DONT_CARE"
        BY <1>2, <1>9, <3>2, <4>2 DEF WorthSending
      <4>4. cur = <<c>> /\ c \in T
        <5>1. Len(cur) = 1
          <6>1. PICK n : n = Len(cur)
            OBVIOUS
          <6>2. n \in Nat /\ n # 0 /\ ~(n > 1)
            BY <3>2, <4>1, <4>3, <6>1
          <6>3. QED
            BY <6>1, <6>2
        <5>2. c \in T
          BY <4>1, <4>2, <5>1
        <5>3. <<c>> \in Seq(T) /\ Len(<<c>>) = 1 /\ <<c>>[1] = c
          BY <5>2
        <5>4. \A i \in 1..1 : i = 1
          OBVIOUS
        <5>5. \A i \in 1..Len(cur) : cur[i] = <<c>>[i]
          BY <4>2, <5>1, <5>3, <5>4
        <5>6. cur = <<c>>
          BY <4>1, <5>1, <5>3, <5>5, SeqEqual
        <5>7. QED
          BY <5>2, <5>6
      <4>5. Good(c) /\ Pending(cur) = ToBe(c) /\ Len(ToBe(c)) = c.blocks
        BY <1>2, <4>1, <4>4, PendingOne, Zenon
      <4>6. ToBe(c) = [i \in 1..c.blocks |-> Keep]
        BY <1>2, <4>3, <4>5, ToBeForms
      <4>7. c.blocks = cursor
        BY <1>2, <4>5, Zenon
      <4>8. QED
        BY <4>5, <4>6, <4>7
    <3>3. QED
      BY <3>1, <3>2
  <2>2. ASSUME NEW b \in 1..image.total, Want(b) # Keep
        PROVE  disk[b] = Want(b) \/ \E p \in ToSet(pieces) : Contents(p.chunks)[b] = Want(b)
    <3>1. ~(b > cursor) /\ Pending(cur)[b] = Keep
      BY <1>6, <2>1
    <3>2. QED
      BY <1>5, <2>2, <3>1
  <2>3. QED
    BY <1>5, <1>9, <2>2
<1>10. CASE cur = <<>> /\ pieces' = <<Empty>>
  <2>1. cursor = 0 /\ image.total = 0
    BY <1>2, <1>3, <1>10, NoChunks
  <2>2. PICK q, c : q = Empty /\ c = Skip(image.total)
    OBVIOUS
  <2>3. q.chunks = <<c>> /\ q.bytes = FileHdr + ChunkHdr /\ q.bare = FALSE
    BY <2>2 DEF Empty
  <2>4. CurGood(c) /\ Payload(c) = 0 /\ c.blocks = 0 /\ c.type = "DONT_CARE"
    BY <1>2, <2>1, <2>2, SkipGood DEF Skip, Chunk
  <2>5. PICK s : s = Append(<<>>, c)
    OBVIOUS
  <2>6. /\ CurSeq(s) /\ BytesOf(WrittenAll(s)) = FileHdr + ChunkHdr + 0
        /\ Len(Pending(s)) = 0 + 0
    <3>1. CurSeq(<<>>) /\ Len(Pending(<<>>)) = 0 /\ BytesOf(WrittenAll(<<>>)) = FileHdr
      BY NoChunks
    <3>2. /\ CurSeq(s) /\ BytesOf(WrittenAll(s)) = BytesOf(WrittenAll(<<>>)) + ChunkHdr + Payload(c)
          /\ Len(Pending(s)) = Len(Pending(<<>>)) + c.blocks
      BY <1>2, <2>4, <2>5, <3>1, CurAppend, Zenon
    <3>3. QED
      BY <2>4, <3>1, <3>2, Zenon
  <2>7. WrittenAll(s) = <<c>>
    <3>1. Written(c) = c
      BY <2>4 DEF Written
    <3>2. s = <<c>>
      BY <2>5
    <3>3. QED
      BY <3>1, <3>2 DEF WrittenAll
  <2>8. /\ Contents(<<c>>) = Pending(s)
        /\ (path = "blob" /\ HasCrc) \/ \A i \in DOMAIN <<c>> : ChunkOk(<<c>>[i])
    BY <1>2, <2>6, <2>7, CurContents, Zenon
  <2>9. PieceOk(q)
    <3>1. BytesOf(q.chunks) = q.bytes /\ q.bytes \in Int
      BY <2>3, <2>6, <2>7, Numbers
    <3>2. Len(Contents(q.chunks)) = image.total
      BY <2>1, <2>3, <2>6, <2>8
    <3>3. QED
      BY <2>3, <2>8, <3>1, <3>2 DEF PieceOk
  <2>10. ToSet(pieces') = {q}
    BY <1>10, <2>2, PieceSets
  <2>11. PieceRight(q) /\ ~(\E b \in 1..image.total : TRUE)
    BY <2>1 DEF PieceRight
  <2>12. QED
    BY <2>9, <2>10, <2>11
<1>11. QED
  BY <1>2, <1>8, <1>9, <1>10 DEF Finish, WorthSending

\* A piece that is flashed puts its blocks in their place.
LEMMA FlashKept ==
    ASSUME SizeInv, PackInv, PlacedInv, FlashPiece PROVE Kept
<1>1. PICK q : q = Head(pieces)
  OBVIOUS
<1>2. /\ pc = "flash" /\ pieces # <<>> /\ pieces' = Tail(pieces)
      /\ disk' = [b \in 1..image.total |-> IF Contents(q.chunks)[b] = Keep THEN disk[b]
                                           ELSE Contents(q.chunks)[b]]
      /\ UNCHANGED <<image, path, pc, rest, cur, size, cursor>>
  BY <1>1 DEF FlashPiece
<1>3. ToSet(pieces) = {q} \cup ToSet(pieces')
  BY <1>1, <1>2, PieceSets DEF SizeInv
<1>4. /\ \A p \in ToSet(pieces) : PieceOk(p) /\ PieceRight(p)
      /\ \A b \in 1..image.total : disk[b] = Old \/ (Want(b) # Keep /\ disk[b] = Want(b))
      /\ \A b \in 1..image.total : Want(b) # Keep =>
           \/ disk[b] = Want(b)
           \/ \E p \in ToSet(pieces) : Contents(p.chunks)[b] = Want(b)
  BY <1>2 DEF PlacedInv, PlacedOf
<1>5. ASSUME NEW b \in 1..image.total
      PROVE  /\ disk'[b] = Old \/ (Want(b) # Keep /\ disk'[b] = Want(b))
             /\ Want(b) # Keep => \/ disk'[b] = Want(b)
                                  \/ \E p \in ToSet(pieces') : Contents(p.chunks)[b] = Want(b)
  <2>1. Contents(q.chunks)[b] \in {Keep, Want(b)}
    BY <1>3, <1>4 DEF PieceRight
  <2>2. disk'[b] = IF Contents(q.chunks)[b] = Keep THEN disk[b] ELSE Contents(q.chunks)[b]
    BY <1>2
  <2>3. disk'[b] = Old \/ (Want(b) # Keep /\ disk'[b] = Want(b))
    BY <1>4, <2>1, <2>2
  <2>4. ASSUME Want(b) # Keep
        PROVE  disk'[b] = Want(b) \/ \E p \in ToSet(pieces') : Contents(p.chunks)[b] = Want(b)
    <3>1. \/ disk[b] = Want(b) \/ Contents(q.chunks)[b] = Want(b)
          \/ \E p \in ToSet(pieces') : Contents(p.chunks)[b] = Want(b)
      BY <1>3, <1>4, <2>4, Zenon
    <3>2. QED
      BY <2>1, <2>2, <2>4, <3>1
  <2>5. QED
    BY <2>3, <2>4
<1>6. PackOf(rest', cur', size', cursor', pc')
  BY <1>2 DEF PackInv, PackOf
<1>7. PlacedOf(rest', cur', cursor', pc', ToSet(pieces'), disk')
  <2>1. \A p \in ToSet(pieces') : PieceOk(p) /\ PieceRight(p)
    BY <1>3, <1>4
  <2>2. QED
    BY <1>2, <1>5, <2>1 DEF PlacedOf
<1>8. QED
  BY <1>6, <1>7 DEF Kept

\* The end of it.
LEMMA EndKept ==
    ASSUME PackInv, PlacedInv, Refuse \/ Done \/ UNCHANGED pvars PROVE Kept
<1>1. /\ UNCHANGED <<image, path, rest, cur, size, cursor, pieces, disk>>
      /\ pc' = pc \/ (pc = "flash" /\ pc' \in {"refused", "done"})
  BY DEF Refuse, Done, Stop, pvars
<1>2. PackOf(rest', cur', size', cursor', pc')
  BY <1>1 DEF PackInv, PackOf
<1>3. PlacedOf(rest', cur', cursor', pc', ToSet(pieces'), disk')
  BY <1>1 DEF PlacedInv, PlacedOf
<1>4. QED
  BY <1>2, <1>3 DEF Kept

\* Every step keeps a sound image packed and placed.
LEMMA NextKept ==
    ASSUME SizeInv, ~Bad, PackInv, PlacedInv, [Next]_pvars,
           pc = "given" => rest = <<>> /\ cur = <<>> /\ cursor = 0
    PROVE  PackInv' /\ PlacedInv'
<1>1. Kept
  BY WholeKept, ReadKept, FileKept, DropKept, PushKept, YieldKept, FinishKept, FlashKept, EndKept,
     Zenon DEF Next
<1>2. UNCHANGED <<image, path>>
  BY Zenon DEF Next, KeepWhole, Read, Start, Stop, ReadFile, DropChecksum, Push, Yield, Place, Finish,
               FlashPiece, Refuse, Done, pvars
<1>3. QED
  BY <1>1, <1>2, PackPrime, PlacedPrime, Zenon DEF Kept

\* A sound chunk of an image that comes whole is one the bootloader takes.
LEMMA ImageChunkOk ==
    ASSUME image \in Images, image.sparse, ~Truncated(image), NEW i \in DOMAIN image.chunks
    PROVE  ChunkOk(image.chunks[i])
<1>1. PICK c : c = image.chunks[i]
  OBVIOUS
<1>2. WellFormed(c)
  BY <1>1, ImageAssumption
<1>3. ~(c.short > 0)
  BY <1>1 DEF Truncated
<1>4. c.short = 0
  BY <1>2, <1>3 DEF WellFormed
<1>5. c.type \in {"RAW", "FILL", "DONT_CARE", "CRC32"}
  BY <1>2 DEF WellFormed
<1>6. c.type = "RAW" => c.bytes = c.blocks * BlockSize
  BY <1>2 DEF WellFormed
<1>7. c.type = "CRC32" => c.bytes = FillBytes
  BY <1>2 DEF WellFormed
<1>8. ChunkOk(c)
  BY <1>4, <1>5, <1>6, <1>7 DEF ChunkOk
<1>9. QED
  BY <1>1, <1>8

\* What a sound image became is refused for a checksum or its size.
LEMMA RefusedIsDamaged ==
    ASSUME SizeInv, ~Bad => PlacedInv, Refuse PROVE RefusesOnlyDamaged'
<1>1. PICK q : q = Head(pieces)
  OBVIOUS
<1>2. /\ pieces # <<>> /\ ~Accepts(q) /\ UNCHANGED <<image, path, pieces>>
  BY <1>1 DEF Refuse, Stop
<1>3. SUFFICES
        \/ Truncated(image)
        \/ path = "blob" /\ ~image.sparse /\ image.chunks[1].bytes % BlockSize # 0
        \/ path = "blob" /\ HasCrc
        \/ path = "blob" /\ q.bytes > Limit
  BY <1>1, <1>2, Zenon DEF RefusesOnlyDamaged, HasCrc, Truncated
<1>4. CASE Bad
  BY <1>4 DEF Bad
<1>5. CASE ~Bad
  <2>1. q \in ToSet(pieces) /\ PieceOk(q)
    <3>1. q \in ToSet(pieces)
      BY <1>1, <1>2, PieceSets DEF SizeInv
    <3>2. QED
      BY <1>5, <3>1 DEF PlacedInv, PlacedOf
  <2>2. image \in Images /\ path \in {"blob", "buffer"} /\ ~Truncated(image)
    BY <1>5 DEF SizeInv, Bad
  <2>3. CASE q.bare
    <3>1. q.chunks = image.chunks
      BY <2>1, <2>3 DEF PieceOk
    <3>2. image.sparse
      BY <1>2, <2>3 DEF Accepts
    <3>3. \A i \in DOMAIN q.chunks : ChunkOk(q.chunks[i])
      BY <2>2, <3>1, <3>2, ImageChunkOk
    <3>4. Len(Contents(q.chunks)) = image.total
      BY <2>2, <3>1, ImageAssumption
    <3>5. QED
      BY <1>2, <2>3, <3>3, <3>4 DEF Accepts
  <2>4. CASE ~q.bare
    <3>1. /\ q.bytes = BytesOf(q.chunks) /\ q.bytes \in Int
          /\ (path = "blob" /\ HasCrc) \/ \A i \in DOMAIN q.chunks : ChunkOk(q.chunks[i])
          /\ Len(Contents(q.chunks)) = image.total
      BY <2>1, <2>4 DEF PieceOk
    <3>2. ~(q.bytes <= Limit) \/ (path = "blob" /\ HasCrc)
      BY <1>2, <2>4, <3>1 DEF Accepts
    <3>3. path = "buffer" => q.bytes <= Limit
      <4>1. PICK i \in DOMAIN pieces : q = pieces[i]
        BY <2>1 DEF ToSet
      <4>2. QED
        BY <4>1, Numbers DEF SizeInv, PiecesWithinLimit
    <3>4. QED
      BY <2>2, <3>1, <3>2, <3>3, Numbers
  <2>5. QED
    BY <2>3, <2>4
<1>6. QED
  BY <1>4, <1>5

-----------------------------------------------------------------------------
(* A damaged image                                                         *)

\* A chunk whose data is cut off or ends within a block, and a file that does.
Uneven(c) == \A k \in Int : c.bytes # k * BlockSize
BadChunk(c) ==
    /\ c.type = "RAW" /\ c.bytes \in Int /\ c.blocks \in Int /\ c.short \in Nat
    /\ c.short > 0 \/ Uneven(c)
BadFile(c) == c.type = "FILE" /\ Uneven(c)

HasBadChunk(s) == \E i \in DOMAIN s : BadChunk(s[i])
HasBad(s) == \E i \in DOMAIN s : BadChunk(s[i]) \/ BadFile(s[i])

\* It goes through the loop until a piece holds it, which is never flashed.
BadPiece == \E p \in ToSet(pieces) : HasBadChunk(p.chunks)
BadInv ==
    /\ pc # "done"
    /\ pc = "pack" => path = "blob" /\ (HasBad(rest) \/ HasBadChunk(cur) \/ BadPiece)
    /\ pc = "flash" => BadPiece
    /\ \A p \in ToSet(pieces) : p.bare => image.sparse
    /\ \E S : cur \in Seq(S)

\* A bad chunk stays when one is put behind it.
LEMMA BadAppend ==
    ASSUME NEW S, NEW s \in Seq(S), NEW c, HasBadChunk(s) \/ BadChunk(c)
    PROVE  HasBadChunk(Append(s, c))
<1>1. PICK T : T = S \cup {c}
  OBVIOUS
<1>2. s \in Seq(T) /\ c \in T
  BY <1>1
<1>3. PICK r : r = Append(s, c)
  OBVIOUS
<1>4. /\ Len(s) \in Nat /\ DOMAIN s = 1..Len(s) /\ DOMAIN r = 1..(Len(s) + 1)
      /\ \A i \in 1..Len(s) : r[i] = s[i] /\ i \in 1..(Len(s) + 1)
      /\ r[Len(s) + 1] = c /\ Len(s) + 1 \in 1..(Len(s) + 1)
  BY <1>2, <1>3
<1>5. QED
  BY <1>3, <1>4 DEF HasBadChunk

\* It is the first or behind the first.
LEMMA BadHeadTail ==
    ASSUME NEW s, SoundSeq(s), s # <<>>, HasBad(s)
    PROVE  BadChunk(Head(s)) \/ BadFile(Head(s)) \/ HasBad(Tail(s))
<1>1. PICK S : s \in Seq(S)
  BY DEF SoundSeq
<1>2. PICK i \in DOMAIN s : BadChunk(s[i]) \/ BadFile(s[i])
  BY DEF HasBad
<1>3. CASE i = 1
  <2>1. s[i] = Head(s)
    BY <1>1, <1>3
  <2>2. QED
    BY <1>2, <2>1
<1>4. CASE i # 1
  <2>1. i - 1 \in DOMAIN Tail(s) /\ Tail(s)[i - 1] = s[i]
    BY <1>1, <1>2, <1>4
  <2>2. QED
    BY <1>2, <2>1 DEF HasBad
<1>5. QED
  BY <1>3, <1>4

\* It stays when one is put in front of it.
LEMMA BadCons ==
    ASSUME NEW s, SoundSeq(s), NEW c, HasBad(s) \/ BadChunk(c) \/ BadFile(c)
    PROVE  HasBad(<<c>> \o s)
<1>1. PICK S : s \in Seq(S)
  BY DEF SoundSeq
<1>2. PICK r : r = <<c>> \o s
  OBVIOUS
<1>3. PICK T : T = S \cup {c}
  OBVIOUS
<1>4. s \in Seq(T) /\ <<c>> \in Seq(T) /\ c \in T
  BY <1>1, <1>3
<1>5. /\ Len(s) \in Nat /\ DOMAIN s = 1..Len(s) /\ DOMAIN r = 1..(Len(s) + 1)
      /\ 1 \in 1..(Len(s) + 1) /\ r[1] = c
      /\ \A i \in 1..Len(s) : r[i + 1] = s[i] /\ i + 1 \in 1..(Len(s) + 1)
  BY <1>2, <1>4
<1>6. CASE HasBad(s)
  <2>1. PICK i \in DOMAIN s : BadChunk(s[i]) \/ BadFile(s[i])
    BY <1>6 DEF HasBad
  <2>2. i + 1 \in DOMAIN r /\ r[i + 1] = s[i]
    BY <1>5, <2>1
  <2>3. QED
    BY <1>2, <2>1, <2>2 DEF HasBad
<1>7. CASE BadChunk(c) \/ BadFile(c)
  BY <1>2, <1>5, <1>7 DEF HasBad
<1>8. QED
  BY <1>6, <1>7

\* What is left of a bad chunk behind whole blocks of it is bad.
LEMMA StillUneven ==
    ASSUME NEW c, Uneven(c), c.bytes \in Int, NEW j \in Int, NEW d, d.bytes = c.bytes - j * BlockSize
    PROVE  Uneven(d)
<1>1. SUFFICES ASSUME NEW k \in Int, d.bytes = k * BlockSize PROVE FALSE
  BY DEF Uneven
<1>2. PICK x, y, z, B : x = c.bytes /\ y = j * B /\ z = k * B /\ B = BlockSize
  BY Zenon
<1>3. B \in Int /\ x \in Int /\ y \in Int /\ z \in Int
  BY <1>2, Numbers
<1>4. x = y + z
  BY <1>1, <1>2, <1>3
<1>5. (j + k) * B = j * B + k * B
  BY <1>3
<1>6. x = (j + k) * BlockSize /\ j + k \in Int
  BY <1>2, <1>4, <1>5
<1>7. QED
  BY <1>2, <1>6 DEF Uneven

\* A damaged image has one.
LEMMA BadImage ==
    ASSUME image \in Images, Bad
    PROVE  /\ ~Whole => HasBad(image.chunks)
           /\ Whole => HasBadChunk(image.chunks) /\ image.sparse
           /\ Truncated(image) \/ path = "blob"
<1>1. CASE Truncated(image)
  <2>1. PICK i \in DOMAIN image.chunks : image.chunks[i].short > 0
    BY <1>1 DEF Truncated
  <2>2. PICK c : c = image.chunks[i]
    OBVIOUS
  <2>3. c.short > 0
    BY <2>1, <2>2
  <2>4. image.sparse
    <3>1. ASSUME ~image.sparse PROVE FALSE
      <4>1. RawFile(c)
        BY <2>2, <3>1, ImageAssumption
      <4>2. QED
        BY <2>3, <4>1 DEF RawFile
    <3>2. QED
      BY <3>1
  <2>5. WellFormed(c)
    BY <2>2, <2>4, ImageAssumption
  <2>6. BadChunk(c)
    BY <2>3, <2>5 DEF WellFormed, BadChunk
  <2>7. QED
    BY <1>1, <2>2, <2>4, <2>6 DEF HasBad, HasBadChunk
<1>2. CASE ~Truncated(image)
  <2>1. path = "blob" /\ ~image.sparse /\ ~Whole /\ image.chunks[1].bytes % BlockSize # 0
    BY <1>2 DEF Bad
  <2>2. PICK c : c = image.chunks[1]
    OBVIOUS
  <2>3. Len(image.chunks) = 1 /\ image.chunks \in Seq({image.chunks[i] : i \in DOMAIN image.chunks})
    BY <2>1, ImageAssumption
  <2>4. 1 \in DOMAIN image.chunks
    BY <2>3
  <2>5. RawFile(c)
    BY <2>1, <2>2, <2>4, ImageAssumption
  <2>6. ASSUME NEW k \in Int, c.bytes = k * BlockSize PROVE FALSE
    <3>1. PICK B : B = BlockSize
      OBVIOUS
    <3>2. B \in Nat \ {0} /\ (k * B) % B = 0
      BY <3>1, Numbers
    <3>3. QED
      BY <2>1, <2>2, <2>6, <3>1, <3>2
  <2>7. BadFile(c)
    BY <2>5, <2>6 DEF BadFile, RawFile, Uneven
  <2>8. QED
    BY <2>1, <2>2, <2>4, <2>7 DEF HasBad
<1>3. QED
  BY <1>1, <1>2

\* A bad chunk is written as it is, and refused.
LEMMA BadRefused ==
    \A c : BadChunk(c) => Written(c) = c /\ ~ChunkOk(c)
<1>1. SUFFICES ASSUME NEW c, BadChunk(c) PROVE Written(c) = c /\ ~ChunkOk(c)
  OBVIOUS
<1>2. c.type = "RAW" /\ c.blocks \in Int /\ c.short \in Nat /\ (c.short > 0 \/ Uneven(c))
  BY <1>1 DEF BadChunk
<1>3. Written(c) = c
  BY <1>2 DEF Written
<1>4. ASSUME ChunkOk(c) PROVE FALSE
  <2>1. c.short = 0 /\ c.bytes = c.blocks * BlockSize
    BY <1>2, <1>4 DEF ChunkOk
  <2>2. QED
    BY <1>2, <2>1 DEF Uneven
<1>5. QED
  BY <1>3, <1>4

\* Packing a part: a bad chunk goes into the piece, or what is left of it is bad.
LEMMA BadPlaced ==
    ASSUME SizeInv, Ready, path = "blob", NEW S, NEW lead \in Seq(S),
           HasBad(rest) \/ HasBadChunk(lead)
    PROVE  HasBad(Left) \/ HasBadChunk(Append(lead, NextPart))
<1>1. /\ rest # <<>> /\ SoundSeq(rest) /\ First.type # "FILE"
      /\ Sound(First) /\ SoundSeq(Tail(rest)) /\ First = Head(rest)
  BY SoundHeadTail DEF SizeInv, Ready, Packing, First
<1>2. CASE HasBadChunk(lead)
  BY <1>2, BadAppend
<1>3. CASE HasBad(rest)
  <2>1. BadChunk(First) \/ HasBad(Tail(rest))
    BY <1>1, <1>3, BadHeadTail DEF BadFile
  <2>2. CASE CutUp(First)
    <3>1. PICK d : d = RestBehind(First, Step)
      OBVIOUS
    <3>2. Left = <<d>> \o Tail(rest)
      BY <2>2, <3>1 DEF Left
    <3>3. Sound(d)
      BY <2>2, <3>1, NextPartFits
    <3>4. BadChunk(First) => BadChunk(d)
      <4>1. SUFFICES ASSUME BadChunk(First) PROVE BadChunk(d)
        OBVIOUS
      <4>2. d.type = "RAW" /\ d.bytes = First.bytes - Step /\ d.short = First.short
        BY <3>1 DEF RestBehind, Chunk
      <4>3. PICK j : j = Step \div BlockSize
        OBVIOUS
      <4>4. j \in Int /\ Step = j * BlockSize
        BY <4>3, StepBlocks
      <4>5. d.bytes = First.bytes - j * BlockSize
        BY <4>2, <4>4, Zenon
      <4>6. Uneven(First) => Uneven(d)
        BY <4>1, <4>4, <4>5, StillUneven DEF BadChunk
      <4>7. QED
        BY <3>3, <4>1, <4>2, <4>6 DEF BadChunk, Sound
    <3>5. HasBad(<<d>> \o Tail(rest))
      BY <1>1, <2>1, <3>4, BadCons
    <3>6. QED
      BY <3>2, <3>5
  <2>3. CASE ~CutUp(First)
    <3>1. NextPart = First /\ Left = Tail(rest)
      BY <1>1, <2>3, EmptyCons DEF NextPart, Left
    <3>2. QED
      BY <2>1, <3>1, BadAppend
  <2>4. QED
    BY <2>2, <2>3
<1>4. QED
  BY <1>2, <1>3

\* A bad chunk under construction is in the piece it makes.
LEMMA BadMade ==
    ASSUME HasBadChunk(cur), NEW S, cur \in Seq(S)
    PROVE  HasBadChunk(Piece.chunks) /\ Piece.bare = FALSE
<1>1. PICK all : all = Closed
  OBVIOUS
<1>2. HasBadChunk(all)
  BY <1>1, BadAppend DEF Closed
<1>3. Piece.chunks = [i \in DOMAIN all |-> Written(all[i])] /\ Piece.bare = FALSE
  BY <1>1 DEF Piece, Closed
<1>4. PICK i \in DOMAIN all : BadChunk(all[i])
  BY <1>2 DEF HasBadChunk
<1>5. Written(all[i]) = all[i]
  BY <1>4, BadRefused
<1>6. i \in DOMAIN Piece.chunks /\ Piece.chunks[i] = all[i]
  BY <1>3, <1>4, <1>5
<1>7. QED
  BY <1>3, <1>4, <1>6 DEF HasBadChunk

\* Such a piece is not accepted.
LEMMA BadNotAccepted ==
    ASSUME NEW p, p.bare => image.sparse, Accepts(p)
    PROVE  ~HasBadChunk(p.chunks)
<1>1. \A i \in DOMAIN p.chunks : ChunkOk(p.chunks[i])
  BY DEF Accepts
<1>2. QED
  BY <1>1, BadRefused DEF HasBadChunk

\* The last piece holds a bad chunk that was under construction, as splitBlob()
\* drops only a skip.
LEMMA BadFinish ==
    ASSUME SizeInv, BadInv, Finish
    PROVE  /\ \E p \in ToSet(pieces') : HasBadChunk(p.chunks)
           /\ \A p \in ToSet(pieces') : p.bare => image.sparse
<1>1. /\ pc = "pack" /\ rest = <<>> /\ path = "blob"
      /\ pieces' = IF WorthSending THEN Append(pieces, Piece) ELSE pieces
  BY DEF Finish, BadInv
<1>2. HasBadChunk(cur) \/ BadPiece
  <2>1. DOMAIN rest = {}
    BY <1>1
  <2>2. ~HasBad(rest)
    BY <2>1 DEF HasBad
  <2>3. QED
    BY <1>1, <2>2 DEF BadInv
<1>3. (\A p \in ToSet(pieces) : p.bare => image.sparse) /\ \E S : cur \in Seq(S)
  BY DEF BadInv
<1>4. PICK q : q = Piece
  OBVIOUS
<1>5. q.bare = FALSE /\ (HasBadChunk(cur) => HasBadChunk(q.chunks))
  BY <1>3, <1>4, BadMade DEF Piece
<1>6. WorthSending => ToSet(pieces') = ToSet(pieces) \cup {q}
  BY <1>1, <1>4, PieceSets DEF SizeInv
<1>7. HasBadChunk(cur) => WorthSending
  <2>1. SUFFICES ASSUME HasBadChunk(cur), ~(Len(cur) > 1)
                 PROVE  cur # <<>> /\ cur[1].type # "DONT_CARE"
    BY <1>1 DEF WorthSending
  <2>2. PICK i \in DOMAIN cur : BadChunk(cur[i])
    BY <2>1 DEF HasBadChunk
  <2>3. PICK S : cur \in Seq(S)
    BY <1>3
  <2>4. i = 1 /\ cur # <<>>
    <3>1. PICK n : n = Len(cur)
      OBVIOUS
    <3>2. n \in Nat /\ ~(n > 1) /\ i \in 1..n
      BY <2>1, <2>2, <2>3, <3>1
    <3>3. QED
      BY <2>2, <2>3, <3>2
  <2>5. QED
    BY <2>2, <2>4 DEF BadChunk
<1>8. CASE WorthSending
  BY <1>2, <1>3, <1>5, <1>6, <1>8 DEF BadPiece
<1>9. CASE ~WorthSending
  BY <1>1, <1>2, <1>3, <1>7, <1>9 DEF BadPiece
<1>10. QED
  BY <1>8, <1>9

\* The first blocks of a bad raw file leave a bad rest.
LEMMA BadFileStep ==
    ASSUME SizeInv, path = "blob", HasBad(rest), ReadFile
    PROVE  HasBad(rest')
<1>1. rest # <<>> /\ First.type = "FILE" /\ First = Head(rest) /\ SoundSeq(rest)
  BY DEF SizeInv, ReadFile, Packing, First
<1>2. Sound(First) /\ SoundSeq(Tail(rest))
  BY <1>1, SoundHeadTail
<1>3. Uneven(First) \/ HasBad(Tail(rest))
  BY <1>1, BadHeadTail DEF BadChunk, BadFile
<1>4. PICK j \in 1..First.blocks :
        rest' = <<FileChunk(First, j)>>
                  \o (IF j = First.blocks THEN <<>> ELSE <<FileBehind(First, j)>>) \o Tail(rest)
  BY DEF ReadFile, FileChunk, FileBehind
<1>5. PICK a, b, t : a = FileChunk(First, j) /\ b = FileBehind(First, j) /\ t = Tail(rest)
  OBVIOUS
<1>6. /\ a = Chunk("RAW", j, SubSeq(First.data, 1, j),
                   IF j = First.blocks THEN First.bytes ELSE j * BlockSize, 0)
      /\ b = Chunk("FILE", First.blocks - j, SubSeq(First.data, j + 1, First.blocks),
                   First.bytes - j * BlockSize, 0)
  BY <1>5 DEF FileChunk, FileBehind
<1>7. j \in Int /\ j * BlockSize \in Int /\ First.bytes \in Int /\ First.blocks \in Int
  BY <1>2, <1>4, Numbers DEF Sound
<1>8. Sound(a) /\ a.type = "RAW" /\ a.blocks = j /\ a.short = 0
  BY <1>6, <1>7, MadeSound DEF Chunk
<1>9. PICK S : t \in Seq(S)
  BY <1>2, <1>5 DEF SoundSeq
<1>10. CASE j = First.blocks
  <2>1. rest' = (<<a>> \o <<>>) \o t
    BY <1>4, <1>5, <1>10
  <2>2. <<a>> \o <<>> = <<a>>
    OBVIOUS
  <2>3. rest' = <<a>> \o t
    BY <2>1, <2>2, Zenon
  <2>4. a.bytes = First.bytes
    BY <1>6, <1>10 DEF Chunk
  <2>5. Uneven(First) => BadChunk(a)
    BY <1>7, <1>8, <2>4 DEF BadChunk, Uneven
  <2>6. QED
    BY <1>2, <1>3, <1>5, <2>3, <2>5, BadCons
<1>11. CASE j # First.blocks
  <2>1. rest' = (<<a>> \o <<b>>) \o t
    BY <1>4, <1>5, <1>11
  <2>2. (<<a>> \o <<b>>) \o t = <<a>> \o (<<b>> \o t)
    BY <1>9
  <2>3. rest' = <<a>> \o (<<b>> \o t)
    BY <2>1, <2>2, Zenon
  <2>4. b.type = "FILE" /\ b.bytes = First.bytes - j * BlockSize
    BY <1>6 DEF Chunk
  <2>5. Uneven(First) => BadFile(b)
    BY <1>7, <2>4, StillUneven DEF BadFile
  <2>6. Sound(b)
    BY <1>6, <1>7, MadeSound
  <2>7. HasBad(<<b>> \o t)
    BY <1>2, <1>3, <1>5, <2>5, BadCons
  <2>8. SoundSeq(<<b>> \o t)
    BY <1>2, <1>5, <2>6, SoundCons
  <2>9. HasBad(<<a>> \o (<<b>> \o t))
    BY <2>7, <2>8, BadCons
  <2>10. QED
    BY <2>3, <2>9
<1>12. QED
  BY <1>10, <1>11

\* A damaged image stays so.
LEMMA BadNext ==
    ASSUME SizeInv, Bad, BadInv, [Next]_pvars, pc = "given" => cur = <<>> /\ pieces = <<>>
    PROVE  BadInv'
<1>1. /\ pc # "done" /\ (\A p \in ToSet(pieces) : p.bare => image.sparse)
      /\ pc = "pack" => path = "blob" /\ (HasBad(rest) \/ HasBadChunk(cur) \/ BadPiece)
      /\ pc = "flash" => BadPiece
      /\ image \in Images
  BY DEF BadInv, SizeInv
<1>2. PICK S : cur \in Seq(S)
  BY DEF BadInv
<1>3. CASE KeepWhole
  <2>1. PICK q : q = [chunks |-> image.chunks, bytes |-> FileBytes(image), bare |-> TRUE]
    OBVIOUS
  <2>2. /\ Whole /\ pieces' = <<q>> /\ pc' = "flash"
        /\ UNCHANGED <<image, path, rest, cur, size, cursor, disk>>
    BY <1>3, <2>1 DEF KeepWhole
  <2>3. HasBadChunk(q.chunks) /\ image.sparse
    BY <1>1, <2>1, <2>2, BadImage
  <2>4. ToSet(pieces') = {q}
    BY <2>2, PieceSets
  <2>5. QED
    BY <1>2, <2>2, <2>3, <2>4 DEF BadInv, BadPiece
<1>4. CASE Read
  <2>1. /\ pc = "given" /\ ~Whole
        /\ UNCHANGED <<image, path, cur, size, cursor, pieces, disk>>
        /\ \/ pc' = "threw"
           \/ pc' = "pack" /\ rest' = image.chunks /\ ~(path = "buffer" /\ Truncated(image))
    BY <1>4 DEF Read, Start, Stop
  <2>2. CASE pc' = "threw"
    BY <1>1, <1>2, <2>1, <2>2 DEF BadInv
  <2>3. CASE pc' = "pack" /\ rest' = image.chunks /\ ~(path = "buffer" /\ Truncated(image))
    <3>1. HasBad(rest')
      BY <1>1, <2>1, <2>3, BadImage
    <3>2. path = "blob"
      BY <1>1, <2>3, BadImage DEF SizeInv
    <3>3. QED
      BY <1>1, <1>2, <2>1, <2>3, <3>1, <3>2 DEF BadInv
  <2>4. QED
    BY <2>1, <2>2, <2>3
<1>5. CASE ReadFile
  <2>1. pc = "pack" /\ UNCHANGED <<image, path, pc, cur, size, cursor, pieces, disk>>
    BY <1>5 DEF ReadFile, Packing
  <2>2. HasBad(rest) => HasBad(rest')
    BY <1>1, <1>5, <2>1, BadFileStep
  <2>3. BadPiece' <=> BadPiece
    BY <2>1 DEF BadPiece
  <2>4. QED
    BY <1>1, <1>2, <2>1, <2>2, <2>3 DEF BadInv
<1>6. CASE DropChecksum
  BY <1>1, <1>6 DEF DropChecksum, Packing
<1>7. CASE Push
  <2>1. /\ pc = "pack" /\ Ready /\ cur' = Append(cur, NextPart) /\ rest' = Left
        /\ UNCHANGED <<image, path, pc, pieces, disk>>
    BY <1>7 DEF Push, Place, Left, Ready, Packing
  <2>2. HasBad(rest) \/ HasBadChunk(cur) => HasBad(rest') \/ HasBadChunk(cur')
    BY <1>1, <1>2, <2>1, BadPlaced
  <2>3. BadPiece' <=> BadPiece
    BY <2>1 DEF BadPiece
  <2>4. cur' \in Seq(S \cup {NextPart})
    <3>1. PICK T : T = S \cup {NextPart}
      OBVIOUS
    <3>2. cur \in Seq(T) /\ NextPart \in T
      BY <1>2, <3>1
    <3>3. QED
      BY <2>1, <3>1, <3>2
  <2>5. QED
    BY <1>1, <2>1, <2>2, <2>3, <2>4 DEF BadInv
<1>8. CASE Yield
  <2>1. PICK lead : lead = IF path = "buffer" /\ cursor = 0 THEN <<>> ELSE <<Skip(cursor)>>
    OBVIOUS
  <2>2. /\ pc = "pack" /\ Ready /\ cur' = Append(lead, NextPart) /\ rest' = Left
        /\ pieces' = Append(pieces, Piece)
        /\ UNCHANGED <<image, path, pc, disk>>
    BY <1>8, <2>1 DEF Yield, Place, Left, Ready, Packing
  <2>3. PICK T : T = {Skip(cursor), NextPart}
    OBVIOUS
  <2>4. lead \in Seq(T) /\ NextPart \in T
    <3>1. PICK c : c = Skip(cursor)
      OBVIOUS
    <3>2. c \in T /\ NextPart \in T
      BY <2>3, <3>1
    <3>3. <<>> \in Seq(T) /\ <<c>> \in Seq(T)
      BY <3>2
    <3>4. QED
      BY <2>1, <3>1, <3>2, <3>3
  <2>5. cur' \in Seq(T)
    BY <2>2, <2>4
  <2>6. HasBad(rest) => HasBad(rest') \/ HasBadChunk(cur')
    BY <1>1, <2>2, <2>4, BadPlaced
  <2>7. PICK q : q = Piece
    OBVIOUS
  <2>8. q.bare = FALSE /\ (HasBadChunk(cur) => HasBadChunk(q.chunks))
    BY <1>2, <2>7, BadMade DEF Piece
  <2>9. ToSet(pieces') = ToSet(pieces) \cup {q}
    BY <2>2, <2>7, PieceSets DEF SizeInv
  <2>10. BadPiece \/ HasBadChunk(cur) => BadPiece'
    BY <2>8, <2>9 DEF BadPiece
  <2>11. \A p \in ToSet(pieces') : p.bare => image.sparse
    BY <1>1, <2>8, <2>9
  <2>12. QED
    BY <1>1, <2>2, <2>5, <2>6, <2>10, <2>11 DEF BadInv
<1>9. CASE Finish
  <2>1. pc' = "flash" /\ UNCHANGED <<image, path, rest, cur, size, cursor, disk>>
    BY <1>9 DEF Finish
  <2>2. /\ \E p \in ToSet(pieces') : HasBadChunk(p.chunks)
        /\ \A p \in ToSet(pieces') : p.bare => image.sparse
    BY <1>9, BadFinish
  <2>3. QED
    BY <1>2, <2>1, <2>2 DEF BadInv, BadPiece
<1>10. CASE FlashPiece
  <2>1. PICK q : q = Head(pieces)
    OBVIOUS
  <2>2. /\ pc = "flash" /\ pieces # <<>> /\ pieces' = Tail(pieces) /\ Accepts(q)
        /\ UNCHANGED <<image, path, pc, rest, cur, size, cursor>>
    BY <1>10, <2>1 DEF FlashPiece
  <2>3. ToSet(pieces) = {q} \cup ToSet(pieces')
    BY <2>1, <2>2, PieceSets DEF SizeInv
  <2>4. ~HasBadChunk(q.chunks)
    BY <1>1, <2>2, <2>3, BadNotAccepted
  <2>5. BadPiece'
    BY <1>1, <2>2, <2>3, <2>4 DEF BadPiece
  <2>6. QED
    BY <1>1, <1>2, <2>2, <2>3, <2>5 DEF BadInv
<1>11. CASE Refuse
  BY <1>1, <1>2, <1>11 DEF Refuse, Stop, BadInv
<1>12. CASE Done
  <2>1. pc = "flash" /\ pieces = <<>>
    BY <1>12 DEF Done
  <2>2. ToSet(pieces) = {}
    BY <2>1, PieceSets
  <2>3. QED
    BY <1>1, <2>1, <2>2 DEF BadPiece
<1>13. CASE UNCHANGED pvars
  BY <1>1, <1>2, <1>13 DEF pvars, BadInv, BadPiece
<1>14. QED
  BY <1>3, <1>4, <1>5, <1>6, <1>7, <1>8, <1>9, <1>10, <1>11, <1>12, <1>13, Zenon DEF Next

-----------------------------------------------------------------------------
\* A sound image is packed and put in its place, a damaged one is never done.
CoreInv ==
    /\ SizeInv /\ RefusesOnlyDamaged
    /\ pc = "given" => rest = <<>> /\ cur = <<>> /\ cursor = 0 /\ pieces = <<>>
    /\ pc = "done" => pieces = <<>>
    /\ DOMAIN disk = 1..image.total
    /\ IF Bad THEN BadInv ELSE PackInv /\ PlacedInv

\* Nothing is read at the start.
LEMMA InitCore == Init => CoreInv
<1>1. SUFFICES ASSUME Init PROVE CoreInv
  OBVIOUS
<1>2. /\ rest = <<>> /\ pieces = <<>> /\ cur = <<>> /\ cursor = 0
      /\ pc = "given" /\ disk = [b \in 1..image.total |-> Old]
  BY <1>1, Zenon DEF Init
<1>3. SizeInv /\ PackInv /\ PlacedInv
  BY <1>1, InitSizes, InitKept
<1>4. BadInv
  <2>1. ToSet(pieces) = {}
    BY <1>2, PieceSets
  <2>2. PICK T : T = {}
    OBVIOUS
  <2>3. cur \in Seq(T)
    BY <1>2, <2>2
  <2>4. QED
    BY <1>2, <2>1, <2>3 DEF BadInv
<1>5. RefusesOnlyDamaged
  BY <1>2 DEF RefusesOnlyDamaged
<1>6. QED
  BY <1>2, <1>3, <1>4, <1>5 DEF CoreInv

\* Each step keeps it.
LEMMA NextCore == CoreInv /\ [Next]_pvars => CoreInv'
<1>1. SUFFICES ASSUME CoreInv, [Next]_pvars PROVE CoreInv'
  OBVIOUS
<1>2. /\ SizeInv /\ RefusesOnlyDamaged
      /\ pc = "given" => rest = <<>> /\ cur = <<>> /\ cursor = 0 /\ pieces = <<>>
      /\ pc = "done" => pieces = <<>>
      /\ DOMAIN disk = 1..image.total
      /\ IF Bad THEN BadInv ELSE PackInv /\ PlacedInv
  BY <1>1 DEF CoreInv
<1>3. SizeInv'
  BY <1>1, <1>2, NextSizes
<1>4. UNCHANGED <<image, path>>
  BY <1>1, Zenon DEF Next, KeepWhole, Read, Start, Stop, ReadFile, DropChecksum, Push, Yield, Place,
               Finish, FlashPiece, Refuse, Done, pvars
<1>5. Bad' <=> Bad
  BY <1>4, SameChunks
<1>6. IF Bad' THEN BadInv' ELSE PackInv' /\ PlacedInv'
  <2>1. CASE Bad
    BY <1>1, <1>2, <1>5, <2>1, BadNext
  <2>2. CASE ~Bad
    BY <1>1, <1>2, <1>5, <2>2, NextKept
  <2>3. QED
    BY <2>1, <2>2
<1>7. DOMAIN disk' = 1..image'.total
  <2>1. \/ disk' = disk
        \/ disk' = [b \in 1..image.total |-> IF Contents(Head(pieces).chunks)[b] = Keep THEN disk[b]
                                             ELSE Contents(Head(pieces).chunks)[b]]
    BY <1>1, Zenon DEF Next, KeepWhole, Read, Start, Stop, ReadFile, DropChecksum, Push, Yield, Place,
                 Finish, FlashPiece, Refuse, Done, pvars
  <2>2. QED
    BY <1>2, <1>4, <2>1
<1>8. /\ pc' = "given" => pc = "given" /\ UNCHANGED <<rest, cur, cursor, pieces>>
      /\ pc' = "done" => pieces' = pieces /\ (pieces = <<>> \/ pc = "done")
      /\ pc' = "refused" => Refuse \/ UNCHANGED pvars
  <2>1. CASE KeepWhole \/ Read \/ Finish
    BY <2>1 DEF KeepWhole, Read, Start, Stop, Finish
  <2>2. CASE ReadFile \/ DropChecksum \/ Push \/ Yield
    <3>1. pc = "pack" /\ pc' = pc
      BY <2>2 DEF ReadFile, DropChecksum, Push, Yield, Place, Ready, Packing
    <3>2. QED
      BY <3>1
  <2>3. CASE FlashPiece \/ Done
    BY <2>3 DEF FlashPiece, Done, Stop
  <2>4. CASE Refuse
    BY <2>4 DEF Refuse, Stop
  <2>5. CASE UNCHANGED pvars
    BY <2>5 DEF pvars
  <2>6. QED
    BY <1>1, <2>1, <2>2, <2>3, <2>4, <2>5, Zenon DEF Next
<1>9. RefusesOnlyDamaged'
  <2>1. CASE Refuse
    BY <1>2, <2>1, RefusedIsDamaged
  <2>2. CASE UNCHANGED pvars
    BY <1>2, <2>2 DEF pvars, RefusesOnlyDamaged, Truncated
  <2>3. CASE pc' # "refused"
    BY <2>3 DEF RefusesOnlyDamaged
  <2>4. QED
    BY <1>8, <2>1, <2>2, <2>3
<1>10. QED
  BY <1>2, <1>3, <1>6, <1>7, <1>8, <1>9 DEF CoreInv

\* When all is flashed every block is what it was to be.
LEMMA CoreWrites == CoreInv => WritesImage
<1>1. SUFFICES ASSUME CoreInv, pc = "done"
               PROVE  /\ ~Truncated(image)
                      /\ \A b \in DOMAIN disk :
                           disk[b] = IF Contents(image.chunks)[b] = Keep \/ ZeroKept(b) THEN Old
                                     ELSE IF FillLost(b) THEN Zero ELSE Contents(image.chunks)[b]
  BY DEF WritesImage
<1>2. ~Bad /\ PlacedInv /\ pieces = <<>> /\ DOMAIN disk = 1..image.total
  BY <1>1 DEF CoreInv, BadInv
<1>3. ToSet(pieces) = {}
  BY <1>2, PieceSets
<1>4. ASSUME NEW b \in 1..image.total
      PROVE  disk[b] = IF Contents(image.chunks)[b] = Keep \/ ZeroKept(b) THEN Old
                       ELSE IF FillLost(b) THEN Zero ELSE Contents(image.chunks)[b]
  <2>1. /\ disk[b] = Old \/ (Want(b) # Keep /\ disk[b] = Want(b))
        /\ Want(b) # Keep => disk[b] = Want(b)
    BY <1>1, <1>2, <1>3 DEF PlacedInv, PlacedOf
  <2>2. CASE Contents(image.chunks)[b] = Keep \/ ZeroKept(b)
    BY <2>1, <2>2 DEF Want
  <2>3. CASE ~(Contents(image.chunks)[b] = Keep \/ ZeroKept(b))
    <3>1. Want(b) = (IF FillLost(b) THEN Zero ELSE Contents(image.chunks)[b]) /\ Want(b) # Keep
      BY <2>3, ValueAssumption DEF Want
    <3>2. QED
      BY <2>1, <2>3, <3>1
  <2>4. QED
    BY <2>2, <2>3
<1>5. QED
  BY <1>2, <1>4 DEF Bad

\* The bootloader refuses only an image that is cut off, a raw Blob that ends
\* within a block, a checksum that splitBlob() passed on, or a piece that its
\* header took over the limit: for any image, limit and block size.
THEOREM OnlyDamagedIsRefused == Spec => []RefusesOnlyDamaged
<1>1. CoreInv => RefusesOnlyDamaged
  BY DEF CoreInv
<1>2. QED
  BY <1>1, InitCore, NextCore, PTL DEF Spec

\* When flashBlob() resolves every block of the image is in its place on the
\* partition and no other block was touched, but for the FILL blocks that
\* splitBlob() turns into zeros and the zeros that rawToChunks() leaves out.
THEOREM ImageIsWritten == Spec => []WritesImage
<1>1. QED
  BY CoreWrites, InitCore, NextCore, PTL DEF Spec
=============================================================================
