---------------------------- MODULE RepMaxRule ----------------------------
(***************************************************************************)
(* The cutting rule of RepMaxCDC, as a definition on data.  The rule is    *)
(* what simple_rep_max_content_defined_chunker.go computes from scratch    *)
(* for every chunk, and what the comment on that constructor promises the  *)
(* optimised reader computes too.                                          *)
(*                                                                         *)
(* A byte string is abstracted to its length and to score[p], the hash of  *)
(* the window that ends at cutting point p: nothing else of the content    *)
(* reaches a decision of RepMaxCDC, and only the order of scores matters.  *)
(***************************************************************************)
EXTENDS Integers

CONSTANTS
    MinSize,     \* minSizeBytes: no chunk but a short file's only one is smaller
    Horizon      \* horizonSizeBytes: how far beyond 2*MinSize a reader looks

ASSUME MinSizeAssumption == MinSize \in Nat \ {0}
ASSUME HorizonAssumption == Horizon \in Nat

\* The number of bytes a RepMaxCDC reader peeks to place one cut.
PeekSize == 2 * MinSize + Horizon

\* The cutting points a file of the given size may have scores for: at least
\* MinSize bytes come before and after each.
CutsOf(size) == MinSize .. (size - MinSize)

\* The bytes a reader sees when it peeks at start.
Available(size, start) ==
    IF size - start < PeekSize THEN size - start ELSE PeekSize

\* The offset, counted from the first point where a chunk beginning at start
\* may end, of the leftmost largest score among the offsets 0 .. last.
BestOffset(score, start, last) ==
    LET at(o) == score[start + MinSize + o]
    IN  CHOOSE b \in 0 .. last :
            /\ \A o \in 0 .. last : at(o) <= at(b)
            /\ \A o \in 0 .. (b - 1) : at(o) < at(b)

\* The searches from start, each described by the end d of the data it is given:
\* the last search finds a cut that leaves a chunk of less than 2*MinSize bytes.
\* Any other best cut becomes the end of a shorter search, in which the data
\* handed to the next round is data[:bestCutOffsetBytes].
SizesWithin(score, start, last) ==
    LET sizeWithin[d \in MinSize .. last] ==
            LET best == BestOffset(score, start, d - MinSize)
            IN  IF best < MinSize THEN MinSize + best ELSE sizeWithin[best]
    IN  sizeWithin

\* The size of the chunk that begins at start when `available` bytes are seen
\* there; MinSize of them are kept away from the search.
RuleChunkSize(score, start, available) ==
    IF available < 2 * MinSize
    THEN available
    ELSE SizesWithin(score, start, available - MinSize)[available - MinSize]

\* The chunk that begins at each position of a file.
RuleSizes(size, score) ==
    [start \in 0 .. (size - 1) |->
        RuleChunkSize(score, start, Available(size, start))]

\* Where the chunks from each position of a file on end.
BoundariesAfter(size, score) ==
    LET sizeAt == RuleSizes(size, score)
        from[p \in 0 .. size] ==
            IF p = size THEN {} ELSE LET q == p + sizeAt[p] IN {q} \cup from[q]
    IN  from

\* The positions at which one reader of the whole file cuts it.
Boundaries(size, score) == BoundariesAfter(size, score)[0]
=============================================================================
