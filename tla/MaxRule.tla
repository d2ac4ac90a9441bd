------------------------------ MODULE MaxRule ------------------------------
(***************************************************************************)
(* The cutting rule of MaxCDC as a definition on data: what                *)
(* simple_max_content_defined_chunker.go computes from scratch for every   *)
(* chunk, and what NewMaxContentDefinedChunker is documented to place cuts *)
(* by.  As in RepMaxRule a file is its length and the score of each        *)
(* cutting point, the gear hash of the window that ends there.             *)
(***************************************************************************)
EXTENDS Integers

CONSTANTS
    MinSize,     \* minSizeBytes
    MaxSize      \* maxSizeBytes

ASSUME MinSizeAssumption == MinSize \in Nat \ {0}
ASSUME MaxSizeAssumption == MaxSize \in Nat /\ MaxSize >= MinSize

\* The number of bytes a MaxCDC reader peeks to place one cut.
PeekSize == MinSize + MaxSize

\* The cutting points that leave MinSize bytes on both sides.
CutsOf(size) == MinSize .. (size - MinSize)

\* The bytes a reader sees when it peeks at start.
Available(size, start) ==
    IF size - start < PeekSize THEN size - start ELSE PeekSize

\* p is the leftmost cutting point of first .. last with the largest score.
IsBest(score, p, first, last) ==
    /\ p \in first .. last
    /\ \A q \in first .. last : score[q] <= score[p]
    /\ \A q \in first .. (p - 1) : score[q] < score[p]

\* The size of the chunk that begins at start.
RuleChunkSize(score, start, available) ==
    IF available < 2 * MinSize
    THEN available
    ELSE CHOOSE size \in MinSize .. (available - MinSize) :
            IsBest(score, start + size, start + MinSize, start + available - MinSize)

\* The chunk that begins at each position of a file.
RuleSizes(size, score) ==
    [start \in 0 .. (size - 1) |->
        RuleChunkSize(score, start, Available(size, start))]
=============================================================================
