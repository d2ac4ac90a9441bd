----------------------------- MODULE SinglePeek -----------------------------
(***************************************************************************)
(* What the chunk readers of FastCDC and SeqCDC have in common: a call     *)
(* discards the previous chunk, peeks once at as many bytes as a chunk may *)
(* have, and searches these bytes for the end of the chunk.  Nothing but   *)
(* the size of the previous chunk is kept from call to call.               *)
(*                                                                         *)
(* The readers extend this module with the steps of their search.  A file  *)
(* is the sequence of its bytes, at the indices 0 .. fileSize - 1.         *)
(***************************************************************************)
EXTENDS Integers

CONSTANTS
    PeekSize,    \* bytes asked for: the largest size of a chunk
    Top,         \* the largest byte, 0xff
    MaxFaults,   \* how often the Peeker may return an error other than EOF
    Files        \* the files, each a record of its size and bytes

ASSUME PeekSizeAssumption == PeekSize \in Nat \ {0}
ASSUME TopAssumption == Top \in Nat
ASSUME MaxFaultsAssumption == MaxFaults \in Nat
ASSUME FilesAssumption ==
    \A f \in Files : /\ f.size \in Nat
                     /\ f.byte \in [0 .. (f.size - 1) -> 0 .. Top]

VARIABLES
    fileSize, byte,           \* the file
    pos, faults,              \* the Peeker: bytes discarded, errors returned
    previousChunkSizeBytes,   \* to be discarded by the next call
    pc, result,               \* progress of ReadNextChunk; how the last one ended
    dataLen,                  \* bytes that Peek returned
    handedOut                 \* history: bytes in the chunks returned so far

file == <<fileSize, byte>>
peeker == <<pos, faults>>
call == <<pc, result, previousChunkSizeBytes, handedOut>>
single == <<file, peeker, call, dataLen>>

InitSingle ==
    /\ \E f \in Files : fileSize = f.size /\ byte = f.byte
    /\ pos = 0 /\ faults = 0
    /\ previousChunkSizeBytes = 0
    /\ pc = "idle" /\ result = "none"
    /\ dataLen = 0
    /\ handedOut = 0

\* The i-th byte that Peek returned.
Data(i) == byte[pos + i]

\* What is left of the file, up to the largest chunk.
Available(start) ==
    IF fileSize - start < PeekSize THEN fileSize - start ELSE PeekSize

Return(outcome) == result' = outcome /\ pc' = "idle"

-----------------------------------------------------------------------------

\* Discard the previous chunk.
Discard ==
    /\ pc = "idle"
    /\ pos' = pos + previousChunkSizeBytes
    /\ previousChunkSizeBytes' = 0
    /\ pc' = "peek"
    /\ UNCHANGED <<file, faults, result, dataLen, handedOut>>

\* The Peeker fails after it discarded some bytes; the next call discards the rest.
\* Mutant: the whole chunk is to be discarded again.
RemainderForgotten(discarded) == previousChunkSizeBytes
RemainderOf(discarded) == previousChunkSizeBytes - discarded
DiscardFails ==
    /\ pc = "idle" /\ faults < MaxFaults
    /\ faults' = faults + 1
    /\ \E discarded \in 0 .. (previousChunkSizeBytes - 1) :
          /\ pos' = pos + discarded
          /\ previousChunkSizeBytes' = RemainderOf(discarded)
    /\ Return("error")
    /\ UNCHANGED <<file, dataLen, handedOut>>

PeekFails ==
    /\ pc = "peek" /\ faults < MaxFaults
    /\ faults' = faults + 1
    /\ Return("error")
    /\ UNCHANGED <<file, pos, previousChunkSizeBytes, dataLen, handedOut>>

\* A Peeker returns fewer bytes than asked for only at the end of the file.
PeekData ==
    /\ pc = "peek"
    /\ dataLen' = Available(pos)
    /\ pc' = "data"
    /\ UNCHANGED <<file, peeker, result, previousChunkSizeBytes, handedOut>>

ReturnEndOfFile ==
    /\ pc = "data" /\ dataLen = 0
    /\ Return("eof")
    /\ UNCHANGED <<file, peeker, dataLen, previousChunkSizeBytes, handedOut>>

\* The call ends with the first n bytes as a chunk.
ReturnChunk(n) ==
    /\ previousChunkSizeBytes' = n
    /\ handedOut' = handedOut + n
    /\ Return("chunk")

PeekerStep == Discard \/ DiscardFails \/ PeekFails \/ PeekData \/ ReturnEndOfFile

-----------------------------------------------------------------------------
\* Properties

\* Every variable of the call has its type, and no chunk leaves the file.
SingleTypeOK ==
    /\ fileSize \in Nat /\ byte \in [0 .. (fileSize - 1) -> 0 .. Top]
    /\ pos \in 0 .. fileSize /\ faults \in 0 .. MaxFaults
    /\ previousChunkSizeBytes \in 0 .. PeekSize
    /\ pos + previousChunkSizeBytes <= fileSize
    /\ result \in {"none", "chunk", "eof", "error"}
    /\ dataLen \in 0 .. PeekSize
    /\ handedOut \in 0 .. fileSize

\* Whatever the Peeker discarded before it failed, the next chunk begins where
\* the last one that was handed out ends.
NothingLost == pos + previousChunkSizeBytes = handedOut
=============================================================================
