----------------------------- MODULE RAMReader -----------------------------
(***************************************************************************)
(* The Rapid Asymmetric Maximum chunk readers of                           *)
(* ram_content_defined_chunker.go: RAM, whose chunks have no largest size, *)
(* and RAML, which limits them to four windows.                            *)
(***************************************************************************)
EXTENDS FinitePeek, FiniteSets, FiniteSetsExt

CONSTANTS
    WindowSize,          \* windowSizeBytes
    MaximumChunkSizes,   \* the values of maximumChunkSizeBytes that are tried
    Files                \* the files, each a record of its size and bytes

\* What newRAMChunker requires, and the files: an assumption of whatever takes
\* an instance of this module.
RAMAssumption ==
    /\ WindowSize \in Nat \ {0} /\ PeekSize >= WindowSize + 1
    /\ MaximumChunkSizes \subseteq {0, 4 * WindowSize}
    /\ \A f \in Files : /\ f.size \in Nat
                        /\ f.byte \in [0 .. (f.size - 1) -> 0 .. Top]

VARIABLES
    maximumChunkSize,           \* the chunker's maximumChunkSizeBytes, 0 for RAM
    maximum,                    \* the largest byte of the window
    blockOffset, initialized,   \* of the block in the chunk; window seen
    i, end                      \* next byte of the block; end of what is scanned

scan == <<maximum, blockOffset, initialized, i, end>>
vars == <<file, peeker, blocks, pc, result, block, history, maximumChunkSize, scan>>

IsLimited == maximumChunkSize > 0

Init ==
    /\ InitBlocks
    /\ \E f \in Files : fileSize = f.size /\ byte = f.byte
    /\ maximumChunkSize \in MaximumChunkSizes
    /\ maximum = 0
    /\ blockOffset = 0 /\ initialized = FALSE
    /\ i = 0 /\ end = 0

Begin ==
    /\ BeginRead
    /\ maximum' = 0
    /\ blockOffset' = 0 /\ initialized' = FALSE
    /\ UNCHANGED <<maximumChunkSize, i, end>>

\* The bytes of the block that may belong to the chunk.
\* Mutant: the limit is applied to each block.
EndInBlock ==
    IF IsLimited THEN Min({dataLen, maximumChunkSize}) ELSE dataLen
EndOfScan ==
    IF IsLimited THEN Min({dataLen, maximumChunkSize - blockOffset}) ELSE dataLen

\* A file that ends within the window.
FinishShort ==
    /\ pc = "block" /\ dataLen > 0
    /\ ~ initialized /\ EndOfScan <= WindowSize
    /\ FinishChunk(EndOfScan)
    /\ UNCHANGED <<file, block, begin>>

StartBlock ==
    /\ pc = "block" /\ dataLen > 0
    /\ initialized \/ EndOfScan > WindowSize
    /\ end' = EndOfScan
    /\ IF initialized
       THEN i' = 0 /\ UNCHANGED <<maximum, initialized>>
       ELSE /\ maximum' = Max({byte[pos + j] : j \in 0 .. (WindowSize - 1)})
            /\ initialized' = TRUE
            /\ i' = WindowSize
    /\ pc' = "bytes"
    /\ UNCHANGED <<file, peeker, blocks, result, block, history, maximumChunkSize,
                   blockOffset>>

\* One byte after the window.  The code's two loops, one of them a search for
\* the largest byte, stop at the same one.
\* Mutant: the byte has to be larger than the window's.
EndsChunkLarger(b) == b > maximum
EndsChunk(b) == b >= maximum
ScanByte ==
    /\ pc = "bytes" /\ i < end
    /\ \/ /\ EndsChunk(byte[pos + i])
          /\ FinishChunk(i + 1)
          /\ UNCHANGED i
       \/ /\ ~ EndsChunk(byte[pos + i])
          /\ i' = i + 1
          /\ UNCHANGED <<peeker, blocks, pc, result, handedOut>>
    /\ UNCHANGED <<file, block, begin, maximumChunkSize, maximum, blockOffset,
                   initialized, end>>

\* No byte of the block ends the chunk: its limit does, or the file, or it goes on.
EndBlock ==
    /\ pc = "bytes" /\ i >= end
    /\ \/ /\ IsLimited /\ blockOffset + end = maximumChunkSize
          /\ FinishChunk(end)
          /\ UNCHANGED blockOffset
       \/ /\ ~ (IsLimited /\ blockOffset + end = maximumChunkSize)
          /\ reachedEOF
          /\ FinishChunk(dataLen)
          /\ UNCHANGED blockOffset
       \/ /\ ~ (IsLimited /\ blockOffset + end = maximumChunkSize)
          /\ ~ reachedEOF
          /\ blockOffset' = blockOffset + dataLen
          /\ ConsumeBlock(dataLen)
    /\ UNCHANGED <<file, block, begin, maximumChunkSize, maximum, initialized, i, end>>

\* The steps that leave the scan as it is.
BlockStep == (BeginFails \/ PeekFails \/ PeekBlock
              \/ (EmptyBlock /\ UNCHANGED <<file, block, begin>>)
              \/ FinishShort)
             /\ UNCHANGED <<maximumChunkSize, scan>>

Next == Begin \/ BlockStep \/ StartBlock \/ ScanByte \/ EndBlock

Spec == Init /\ [][Next]_vars

-----------------------------------------------------------------------------
\* Properties

\* The chunk from start ends with the first byte after its window that is as
\* large as every byte in it, at the limit, or with the file.
RuleChunkSize(start) ==
    LET largest(o) == \A w \in start .. (start + WindowSize - 1) : byte[w] <= byte[o]
        ends == {o \in (start + WindowSize) .. (fileSize - 1) : largest(o)}
        sizes == {fileSize - start} \cup {o + 1 - start : o \in ends}
                   \cup IF IsLimited THEN {maximumChunkSize} ELSE {}
    IN  Min(sizes)

\* Every variable has its type, and no index leaves the block.
TypeOK ==
    /\ BlocksTypeOK
    /\ maximumChunkSize \in MaximumChunkSizes
    /\ pc \in {"idle", "peek", "block", "bytes"}
    /\ maximum \in 0 .. Top
    /\ blockOffset \in Nat /\ initialized \in BOOLEAN
    /\ pc = "bytes" => end \in 0 .. dataLen /\ i \in 0 .. end

\* However a chunk is spread over blocks it ends where the rule says, and
\* io.EOF comes only at the end of the file.
FollowsRule ==
    /\ handedOut' # handedOut => handedOut' - handedOut = RuleChunkSize(begin)
    /\ pc = "block" /\ pc' = "idle" /\ result' = "eof" => begin = fileSize
=============================================================================
