----------------------------- MODULE FinitePeek -----------------------------
(***************************************************************************)
(* The blocks in which the hashless chunk readers scan their input:        *)
(* finitePeekChunkReader of hashless_chunk_reader.go.  A chunk that ends   *)
(* in the first block is handed out as it lies in the Peeker's buffer and  *)
(* discarded by the next call.  A longer one is copied, block by block, so *)
(* that the Peeker can discard what was scanned.                           *)
(*                                                                         *)
(* The readers extend this module with the state of their scan and the     *)
(* steps that decide where a chunk ends.  A file is the sequence of its    *)
(* bytes, at the indices 0 .. fileSize - 1; the owned copy is its length.  *)
(***************************************************************************)
EXTENDS Integers

CONSTANTS
    PeekSize,    \* peekSizeBytes
    Top,         \* the largest byte, 0xff
    MaxFaults    \* how often the Peeker may return an error other than EOF

ASSUME PeekSizeAssumption == PeekSize \in Nat \ {0}
ASSUME TopAssumption == Top \in Nat
ASSUME MaxFaultsAssumption == MaxFaults \in Nat

VARIABLES
    fileSize, byte,           \* the file
    pos, faults,              \* the Peeker: bytes discarded, errors returned
    previousChunkSizeBytes,   \* to be discarded by the next call
    ownedChunk,               \* bytes in the copy
    pc, result,               \* progress of ReadNextChunk; how the last one ended
    dataLen, reachedEOF,      \* the block
    begin,                    \* history: where the chunk being read begins
    handedOut                 \* history: bytes in the chunks returned so far

file == <<fileSize, byte>>
peeker == <<pos, faults>>
blocks == <<previousChunkSizeBytes, ownedChunk>>
block == <<dataLen, reachedEOF>>
history == <<begin, handedOut>>

InitBlocks ==
    /\ pos = 0 /\ faults = 0
    /\ previousChunkSizeBytes = 0 /\ ownedChunk = 0
    /\ pc = "idle" /\ result = "none"
    /\ dataLen = 0 /\ reachedEOF = FALSE
    /\ begin = 0 /\ handedOut = 0

Return(outcome) == result' = outcome /\ pc' = "idle"

\* The Peeker discards n bytes and the call goes on, or fewer and it fails.
DiscardOrFail(n, succeed) ==
    \/ /\ pos' = pos + n
       /\ UNCHANGED faults
       /\ succeed
    \/ /\ faults < MaxFaults
       /\ faults' = faults + 1
       /\ \E discarded \in 0 .. (n - 1) : pos' = pos + discarded
       /\ Return("error")
       /\ UNCHANGED handedOut

-----------------------------------------------------------------------------
\* beginRead

BeginRead ==
    /\ pc = "idle"
    /\ pos' = pos + previousChunkSizeBytes
    /\ previousChunkSizeBytes' = 0
    /\ ownedChunk' = 0
    /\ begin' = pos'
    /\ pc' = "peek"
    /\ UNCHANGED <<file, faults, result, block, handedOut>>

\* Mutant: the whole chunk is to be discarded again.
RemainderForgotten(discarded) == previousChunkSizeBytes
RemainderOf(discarded) == previousChunkSizeBytes - discarded
BeginFails ==
    /\ pc = "idle" /\ faults < MaxFaults
    /\ faults' = faults + 1
    /\ \E discarded \in 0 .. (previousChunkSizeBytes - 1) :
          /\ pos' = pos + discarded
          /\ previousChunkSizeBytes' = RemainderOf(discarded)
    /\ Return("error")
    /\ UNCHANGED <<file, ownedChunk, block, history>>

-----------------------------------------------------------------------------
\* peekBlock

PeekFails ==
    /\ pc = "peek" /\ faults < MaxFaults
    /\ faults' = faults + 1
    /\ Return("error")
    /\ UNCHANGED <<file, pos, blocks, block, history>>

\* The next block.  A Peeker returns fewer bytes than asked for only with EOF.
PeekBlock ==
    /\ pc = "peek"
    /\ dataLen' = IF fileSize - pos < PeekSize THEN fileSize - pos ELSE PeekSize
    /\ reachedEOF' = (fileSize - pos < PeekSize)
    /\ pc' = "block"
    /\ UNCHANGED <<file, peeker, result, blocks, history>>

-----------------------------------------------------------------------------
\* finishChunk and consumeBlock

\* The call ends with a chunk that ends `end` bytes into the block.
\* Mutant: the end of a chunk that was copied is to be discarded again.
FinishTwice(end) ==
    /\ ownedChunk' = ownedChunk + end
    /\ previousChunkSizeBytes' = end
    /\ DiscardOrFail(IF ownedChunk = 0 THEN 0 ELSE end,
                     Return("chunk") /\ handedOut' = handedOut + ownedChunk')
FinishChunk(end) ==
    \/ /\ ownedChunk = 0
       /\ previousChunkSizeBytes' = end
       /\ handedOut' = handedOut + end
       /\ Return("chunk")
       /\ UNCHANGED <<peeker, ownedChunk>>
    \/ /\ ownedChunk > 0
       /\ ownedChunk' = ownedChunk + end
       /\ DiscardOrFail(end, Return("chunk") /\ handedOut' = handedOut + ownedChunk')
       /\ UNCHANGED previousChunkSizeBytes

\* The first n bytes of the block belong to a chunk that goes on.
ConsumeBlock(n) ==
    /\ ownedChunk' = ownedChunk + n
    /\ DiscardOrFail(n, pc' = "peek" /\ UNCHANGED <<result, handedOut>>)
    /\ UNCHANGED previousChunkSizeBytes

\* An empty block ends the chunk that was copied, or the file.
EmptyBlock ==
    /\ pc = "block" /\ dataLen = 0
    /\ \/ /\ ownedChunk = 0
          /\ Return("eof")
          /\ UNCHANGED <<peeker, blocks, handedOut>>
       \/ /\ ownedChunk > 0
          /\ FinishChunk(0)

-----------------------------------------------------------------------------
\* Properties

\* Every variable of the blocks has its type.
BlocksTypeOK ==
    /\ fileSize \in Nat /\ byte \in [0 .. (fileSize - 1) -> 0 .. Top]
    /\ pos \in 0 .. fileSize /\ faults \in 0 .. MaxFaults
    /\ previousChunkSizeBytes \in Nat /\ ownedChunk \in Nat
    /\ result \in {"none", "chunk", "eof", "error"}
    /\ dataLen \in 0 .. PeekSize /\ reachedEOF \in BOOLEAN
    /\ begin \in 0 .. fileSize /\ handedOut \in Nat

\* What was copied is what was discarded since the chunk began; once a chunk
\* is returned the next one begins where it ends.  Without a fault, that is
\* after everything handed out so far.
BlocksAreAligned ==
    /\ pc # "idle" => pos = begin + ownedChunk /\ previousChunkSizeBytes = 0
    /\ pc = "block" => pos + dataLen <= fileSize
    /\ faults = 0 => pos + previousChunkSizeBytes
                        = handedOut + (IF pc = "idle" THEN 0 ELSE ownedChunk)
    /\ pc = "idle" /\ previousChunkSizeBytes > 0 =>
          pos + previousChunkSizeBytes <= fileSize

\* "Read the contents of a file, returning its contents as a sequence of
\* chunks", in blocks that are copied "so that the Peeker may discard them
\* before the chunk boundary is known": between calls, everything before the
\* position where the next chunk will begin has been handed out.
NothingDropped == pc = "idle" => pos + previousChunkSizeBytes = handedOut
=============================================================================
