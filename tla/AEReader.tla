------------------------------ MODULE AEReader ------------------------------
(***************************************************************************)
(* The Asymmetric Extremum chunk readers: AE-Max, which compares bytes, of *)
(* asymmetric_extremum_content_defined_chunker.go, and the wide variant of *)
(* wide_asymmetric_extremum_content_defined_chunker.go, which compares the *)
(* little-endian numbers of regionSizeBytes bytes.  The wide constructor   *)
(* returns the first for a region of one byte, so the region size tells    *)
(* them apart here.                                                        *)
(***************************************************************************)
EXTENDS FinitePeek, FiniteSets, FiniteSetsExt

CONSTANTS
    RegionSizes,   \* the values of regionSizeBytes that are tried
    WindowSize,    \* windowSizeBytes
    Files          \* the files, each a record of its size and bytes

ASSUME RegionSizesAssumption == RegionSizes \subseteq Nat \ {0}
ASSUME WindowAssumption ==
    /\ WindowSize \in Nat \ {0}
    /\ \A r \in RegionSizes : PeekSize >= WindowSize + r
ASSUME FilesAssumption ==
    \A f \in Files : /\ f.size \in Nat
                     /\ f.byte \in [0 .. (f.size - 1) -> 0 .. Top]

VARIABLES
    regionSize,                   \* the chunker's regionSizeBytes
    maximum, candidateOffset,     \* the last record maximum and where it is
    blockOffset, initialized,     \* of the block in the chunk; first value seen
    i, end                        \* next value of the block; end of this stretch

scan == <<maximum, candidateOffset, blockOffset, initialized, i, end>>
vars == <<file, peeker, blocks, pc, result, block, history, regionSize, scan>>

-----------------------------------------------------------------------------
\* binary.LittleEndian: the number of so many digits in base Top + 1.
LittleEndian(digit) ==
    LET from[j \in 0 .. regionSize] ==
            IF j = regionSize THEN 0 ELSE digit[j] + (Top + 1) * from[j + 1]
    IN  from[0]

\* The number that the region at an index of the file holds.
ValueAt(index) == LittleEndian([j \in 0 .. (regionSize - 1) |-> byte[index + j]])

\* The largest of them.
MaximumValue == LittleEndian([j \in 0 .. (regionSize - 1) |-> Top])

\* Values that begin in the block; the bytes after them are only looked at.
ValueCount == dataLen - regionSize + 1

Init ==
    /\ InitBlocks
    /\ \E f \in Files : fileSize = f.size /\ byte = f.byte
    /\ regionSize \in RegionSizes
    /\ maximum = 0 /\ candidateOffset = 0
    /\ blockOffset = 0 /\ initialized = FALSE
    /\ i = 0 /\ end = 0

Begin ==
    /\ BeginRead
    /\ maximum' = 0 /\ candidateOffset' = 0
    /\ blockOffset' = 0 /\ initialized' = FALSE
    /\ UNCHANGED <<regionSize, i, end>>

\* A block without a whole region is the end of the file.
ShortBlock ==
    /\ pc = "block" /\ dataLen > 0 /\ ValueCount <= 0 /\ reachedEOF
    /\ FinishChunk(dataLen)
    /\ UNCHANGED <<file, block, begin>>

StartBlock ==
    /\ pc = "block" /\ ValueCount > 0
    /\ IF initialized
       THEN /\ i' = 0 /\ UNCHANGED <<maximum, initialized>>
       ELSE /\ i' = 1 /\ maximum' = ValueAt(pos) /\ initialized' = TRUE
    /\ pc' = "stretch"
    /\ UNCHANGED <<file, peeker, blocks, result, block, history, regionSize,
                   candidateOffset, blockOffset, end>>

-----------------------------------------------------------------------------
\* One stretch: up to the candidate's deadline, or to the end of the block.
\* Mutant: the blocks before this one are not counted.
DistanceInBlock == i - candidateOffset
DistanceFromCandidate == blockOffset + i - candidateOffset
ValuesThroughDeadline == WindowSize - DistanceFromCandidate + 1
StretchEnd == Min({ValueCount, i + ValuesThroughDeadline})

\* Nothing exceeds the largest value: skip to its deadline.
SkipToDeadline ==
    /\ pc = "stretch" /\ i < ValueCount /\ maximum = MaximumValue
    /\ IF StretchEnd - i = ValuesThroughDeadline
       THEN FinishChunk(StretchEnd) /\ UNCHANGED i
       ELSE /\ i' = StretchEnd
            /\ UNCHANGED <<peeker, blocks, pc, result, handedOut>>
    /\ UNCHANGED <<file, block, begin, regionSize, maximum, candidateOffset,
                   blockOffset, initialized, end>>

\* AE-Max first looks for the largest byte in the stretch.
TopBytes == {j \in i .. (StretchEnd - 1) : byte[pos + j] = Top}
SkipToTop ==
    /\ pc = "stretch" /\ i < ValueCount /\ maximum # MaximumValue
    /\ regionSize = 1 /\ TopBytes # {}
    /\ maximum' = Top
    /\ candidateOffset' = blockOffset + Min(TopBytes)
    /\ i' = Min(TopBytes) + 1
    /\ UNCHANGED <<file, peeker, blocks, pc, result, block, history, regionSize,
                   blockOffset, initialized, end>>

StartStretch ==
    /\ pc = "stretch" /\ i < ValueCount /\ maximum # MaximumValue
    /\ regionSize = 1 => TopBytes = {}
    /\ end' = StretchEnd
    /\ pc' = "values"
    /\ UNCHANGED <<file, peeker, blocks, result, block, history, regionSize,
                   maximum, candidateOffset, blockOffset, initialized, i>>

\* One value of the stretch: a new record, the deadline, or neither.
IsRecord(value) == value > maximum
ScanValue ==
    /\ pc = "values" /\ i < end
    /\ \/ /\ IsRecord(ValueAt(pos + i))
          /\ maximum' = ValueAt(pos + i)
          /\ candidateOffset' = blockOffset + i
          /\ i' = i + 1
          /\ UNCHANGED <<peeker, blocks, pc, result, handedOut>>
       \/ /\ ~ IsRecord(ValueAt(pos + i))
          /\ DistanceFromCandidate = WindowSize
          /\ FinishChunk(i + 1)
          /\ UNCHANGED <<maximum, candidateOffset, i>>
       \/ /\ ~ IsRecord(ValueAt(pos + i))
          /\ DistanceFromCandidate # WindowSize
          /\ i' = i + 1
          /\ UNCHANGED <<peeker, blocks, pc, result, handedOut, maximum, candidateOffset>>
    /\ UNCHANGED <<file, block, begin, regionSize, blockOffset, initialized, end>>

EndStretch ==
    /\ pc = "values" /\ i >= end
    /\ pc' = "stretch"
    /\ UNCHANGED <<file, peeker, blocks, result, block, history, regionSize, scan>>

\* The values of the block are scanned.
EndBlock ==
    /\ pc = "stretch" /\ i >= ValueCount
    /\ \/ /\ reachedEOF
          /\ FinishChunk(dataLen)
          /\ UNCHANGED blockOffset
       \/ /\ ~ reachedEOF
          /\ blockOffset' = blockOffset + ValueCount
          /\ ConsumeBlock(ValueCount)
    /\ UNCHANGED <<file, block, begin, regionSize, maximum, candidateOffset,
                   initialized, i, end>>

\* The steps that leave the scan as it is.
BlockStep == (BeginFails \/ PeekFails \/ PeekBlock
              \/ (EmptyBlock /\ UNCHANGED <<file, block, begin>>)
              \/ ShortBlock)
             /\ UNCHANGED <<regionSize, scan>>

Next == Begin \/ BlockStep \/ StartBlock \/ SkipToDeadline \/ SkipToTop
        \/ StartStretch \/ ScanValue \/ EndStretch \/ EndBlock

Spec == Init /\ [][Next]_vars

-----------------------------------------------------------------------------
\* Properties

\* The chunk from start is at the earliest deadline that a record maximum of
\* its values is not exceeded by: WindowSize values after the record, and as
\* many bytes long as that value's first byte makes it.
RuleChunkSize(start) ==
    LET isRecord(c) == \A o \in start .. (c - 1) : ValueAt(o) < ValueAt(c)
        stands(c) == \A o \in (c + 1) .. (c + WindowSize) : ValueAt(o) <= ValueAt(c)
        extrema == {c \in start .. (fileSize - regionSize - WindowSize) :
                       isRecord(c) /\ stands(c)}
    IN  IF extrema = {} THEN fileSize - start
                        ELSE Min(extrema) + WindowSize + 1 - start

\* Every variable has its type, and no index leaves the block.
TypeOK ==
    /\ BlocksTypeOK
    /\ regionSize \in RegionSizes
    /\ pc \in {"idle", "peek", "block", "stretch", "values"}
    /\ maximum \in 0 .. MaximumValue
    /\ candidateOffset \in Nat /\ blockOffset \in Nat
    /\ initialized \in BOOLEAN
    /\ pc \in {"stretch", "values"} => i \in 0 .. dataLen
    /\ pc = "values" => end \in 0 .. ValueCount

\* However a chunk is spread over blocks, and wherever the search for the
\* largest value skips, a chunk ends where the rule says; io.EOF comes only
\* at the end of the file.
FollowsRule ==
    /\ handedOut' # handedOut => handedOut' - handedOut = RuleChunkSize(begin)
    /\ pc = "block" /\ pc' = "idle" /\ result' = "eof" => begin = fileSize
=============================================================================
