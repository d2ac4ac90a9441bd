----------------------------- MODULE SeqReader -----------------------------
(***************************************************************************)
(* The SeqCDC chunk reader of seq_content_defined_chunker.go: a chunk ends *)
(* after a sequence of increasing bytes, and a region that keeps falling   *)
(* is left by a skip.  One step is one comparison.                         *)
(***************************************************************************)
EXTENDS SinglePeek, FiniteSets, FiniteSetsExt

CONSTANTS
    SequenceLength,     \* sequenceLength: increasing bytes that end a chunk
    SkipTrigger,        \* skipTrigger: falling comparisons before a skip
    SkipSize,           \* skipSizeBytes
    MinimumChunkSize    \* minimumChunkSizeBytes

ASSUME SequenceAssumption ==
    /\ SequenceLength \in Nat /\ SequenceLength >= 2
    /\ SkipTrigger \in Nat \ {0} /\ SkipSize \in Nat
ASSUME ChunkSizeAssumption ==
    /\ MinimumChunkSize \in SequenceLength .. PeekSize

VARIABLES
    position,             \* the byte to be compared with the one before it
    increasingLength,     \* length of the increasing sequence that ends there
    opposingSlopeCount    \* falling comparisons since the last skip

scan == <<position, increasingLength, opposingSlopeCount>>
vars == <<single, scan>>

Init ==
    /\ InitSingle
    /\ position = 0 /\ increasingLength = 1 /\ opposingSlopeCount = 0

ReturnShort ==
    /\ pc = "data" /\ dataLen \in 1 .. MinimumChunkSize
    /\ ReturnChunk(dataLen)
    /\ UNCHANGED <<file, peeker, dataLen, scan>>

\* A sequence that starts with the first comparison may end at the minimum size.
\* Mutant: the first comparison comes one byte earlier.
FirstComparisonEarly == MinimumChunkSize - SequenceLength
FirstComparison == MinimumChunkSize - SequenceLength + 1
StartScan ==
    /\ pc = "data" /\ dataLen > MinimumChunkSize
    /\ position' = FirstComparison
    /\ increasingLength' = 1 /\ opposingSlopeCount' = 0
    /\ pc' = "scan"
    /\ UNCHANGED <<file, peeker, result, previousChunkSizeBytes, handedOut, dataLen>>

Comparing == pc = "scan" /\ position < dataLen
Rises == Data(position) > Data(position - 1)
Falls == Data(position) < Data(position - 1)

Rise ==
    /\ Comparing /\ Rises
    /\ position' = position + 1
    /\ increasingLength' = increasingLength + 1
    /\ \/ /\ increasingLength' = SequenceLength
          /\ ReturnChunk(position')
       \/ /\ increasingLength' # SequenceLength
          /\ UNCHANGED call
    /\ UNCHANGED <<file, peeker, dataLen, opposingSlopeCount>>

\* The first byte after those that are skipped only starts a sequence.
\* Mutant: that byte is compared with the last one that was skipped.
AfterSkipOverlapping(p) == p + 1 + SkipSize
AfterSkip(p) == p + 1 + SkipSize + 1
Fall ==
    /\ Comparing /\ Falls
    /\ increasingLength' = 1
    /\ \/ /\ opposingSlopeCount + 1 = SkipTrigger
          /\ position' = AfterSkip(position)
          /\ opposingSlopeCount' = 0
       \/ /\ opposingSlopeCount + 1 # SkipTrigger
          /\ position' = position + 1
          /\ opposingSlopeCount' = opposingSlopeCount + 1
    /\ UNCHANGED <<file, peeker, call, dataLen>>

\* Equal bytes start a sequence anew, and do not count as falling.
Level ==
    /\ Comparing /\ ~ Rises /\ ~ Falls
    /\ position' = position + 1
    /\ increasingLength' = 1
    /\ UNCHANGED <<file, peeker, call, dataLen, opposingSlopeCount>>

\* The data ends, or the skip led past its end.
ReturnAll ==
    /\ pc = "scan" /\ position >= dataLen
    /\ ReturnChunk(dataLen)
    /\ UNCHANGED <<file, peeker, dataLen, scan>>

Next ==
    \/ PeekerStep /\ UNCHANGED scan
    \/ ReturnShort \/ StartScan \/ Rise \/ Fall \/ Level \/ ReturnAll

Spec == Init /\ [][Next]_vars

-----------------------------------------------------------------------------
\* Properties

\* The chunk from start, described without a scan.  The comparisons form
\* stretches that end with their SkipTrigger-th fall; StretchAt(start)[p] is
\* where the stretch begins that offset p is compared in, or the next one if p
\* is skipped.  The chunk ends with the first sequence of increasing bytes that
\* lies in one stretch.
FallsAt(p) == byte[p] < byte[p - 1]
Fallen(from, to) == Cardinality({p \in from .. to : FallsAt(p)})
Offsets(start) == FirstComparison .. (Available(start) - 1)
StretchAt(start) ==
    LET stretchAt[p \in Offsets(start)] ==
            IF p = FirstComparison THEN p
            ELSE LET s == stretchAt[p - 1]
                 IN  IF s < p /\ Fallen(start + s, start + p - 1) = SkipTrigger
                     THEN p + SkipSize + 1 ELSE s
    IN  stretchAt
RuleChunkSize(start) ==
    LET stretchAt == StretchAt(start)
        increasing(first, last) ==
            /\ first >= FirstComparison
            /\ stretchAt[first] <= first /\ stretchAt[last] = stretchAt[first]
            /\ \A p \in first .. last : byte[start + p] > byte[start + p - 1]
        ends == {p \in Offsets(start) : increasing(p - SequenceLength + 2, p)}
    IN  IF Available(start) <= MinimumChunkSize THEN Available(start)
        ELSE Min({Available(start)} \cup {p + 1 : p \in ends})

\* Every variable has its type, and no byte is read outside the data.
TypeOK ==
    /\ SingleTypeOK
    /\ pc \in {"idle", "peek", "data", "scan"}
    /\ position \in Nat /\ (pc = "scan" => position \in FirstComparison .. (dataLen + SkipSize + 1))
    /\ increasingLength \in 1 .. SequenceLength
    /\ opposingSlopeCount \in 0 .. (SkipTrigger - 1)

\* "Every non-final chunk is limited to the minimum and maximum sizes selected
\* by the paper; a short final chunk is returned as-is."
BoundedChunk ==
    handedOut' # handedOut =>
        /\ handedOut' - handedOut <= PeekSize
        /\ handedOut' < fileSize => handedOut' - handedOut >= MinimumChunkSize
=============================================================================
