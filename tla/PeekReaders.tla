---------------------------- MODULE PeekReaders ----------------------------
(***************************************************************************)
(* The two readers that peek once at a whole chunk, SeqCDC and FastCDC,    *)
(* together: which of them a behavior is about is chosen at its start, and *)
(* the other one's own variables stay as they are.                         *)
(***************************************************************************)
EXTENDS SeqReader

CONSTANTS FastPeekSize, FastFiles, Width, Gear, NormalSize, MaskS, MaskL, Unroll

VARIABLES reader, regionStart, regionEnd, mask, i, k, hash, s

Fast == INSTANCE FastReader WITH PeekSize <- FastPeekSize, Files <- FastFiles

ASSUME FastConstants == Fast!FastAssumption

fastVars == <<regionStart, regionEnd, mask, i, k, hash, s>>
readers == <<vars, reader, fastVars>>

ReadersInit ==
    \/ /\ reader = "Seq" /\ Init
       /\ regionStart = 0 /\ regionEnd = 0 /\ mask = {}
       /\ i = 0 /\ k = 0 /\ hash = 0 /\ s = 0
    \/ /\ reader = "Fast" /\ Fast!Init
       /\ position = 0 /\ increasingLength = 1 /\ opposingSlopeCount = 0

ReadersNext ==
    \/ /\ reader = "Seq" /\ Next
       /\ UNCHANGED <<reader, fastVars>>
    \/ /\ reader = "Fast" /\ Fast!Next
       /\ UNCHANGED <<reader, scan>>

ReadersSpec == ReadersInit /\ [][ReadersNext]_readers

-----------------------------------------------------------------------------
\* Properties

\* FastCDC: the hash that a block is added to is the hash of every byte from the
\* minimum size up to the block, in whatever blocks and regions they were read.
HashIsContinuous == reader = "Fast" => Fast!HashIsContinuous

\* SeqCDC: "Every non-final chunk is limited to the minimum and maximum sizes
\* selected by the paper; a short final chunk is returned as-is."
ChunksAreBounded == [][reader = "Seq" => BoundedChunk]_readers

Stream == INSTANCE ChunkStream
    WITH size <- fileSize,
         sizeAt <- [p \in 0 .. (fileSize - 1) |->
                      IF reader = "Seq" THEN RuleChunkSize(p) ELSE Fast!RuleChunkSize(p)]

\* Either reader hands out the chunks of its rule, whatever was skipped and
\* whatever errors the Peeker returned.
RefinesChunkStream == Stream!Safety
=============================================================================
