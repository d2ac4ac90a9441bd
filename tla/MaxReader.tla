----------------------------- MODULE MaxReader -----------------------------
(***************************************************************************)
(* The MaxCDC chunk reader of max_content_defined_chunker.go, one step per *)
(* byte hashed and per iteration of its loop.  To place one cut the reader *)
(* hashes up to MaxSize bytes; the stack of later cutting points it met is *)
(* kept across calls so that none of those bytes is hashed again.          *)
(*                                                                         *)
(* As in RepMaxReader a hash is the cutting point its window ends at, and  *)
(* is compared through score.  Ends of chunks are offsets from the stream  *)
(* position, as in the code.  Indices into Go slices are one higher here.  *)
(***************************************************************************)
EXTENDS MaxRule, Sequences, SequencesExt

CONSTANTS
    Files,      \* the files read, each a record of its size and scores
    MaxFaults   \* how often the Peeker may return an error other than EOF

ASSUME FilesAssumption ==
    \A f \in Files : f.size \in Nat /\ f.score \in [CutsOf(f.size) -> Nat]
ASSUME MaxFaultsAssumption == MaxFaults \in Nat

VARIABLES
    fileSize, score,     \* the file
    pos, faults,         \* the Peeker: bytes discarded, errors returned
    chunks,              \* the reader: returned chunk, stack, scan cursor
    pc, result,          \* progress of ReadNextChunk; how the last one ended
    dataLen,             \* len(d)
    oldChunks, previousChunk, currentChunk,    \* the stack while it is scanned
    regionLen, i,        \* the region being hashed; bytes of it hashed
    handedOut            \* history: bytes in the chunks returned so far

file == <<fileSize, score>>
peeker == <<pos, faults>>
stack == <<oldChunks, previousChunk, currentChunk>>
scan == <<dataLen, stack, regionLen, i>>
vars == <<file, peeker, chunks, pc, result, scan, handedOut>>

-----------------------------------------------------------------------------
NoHash == 0
NoChunk == [hash |-> NoHash, end |-> 0]

\* The hash of the window that ends at cutting point p.
InitialHash(p) == p

\* h advances by the byte at the given index of the file, if that follows it.
RollHash(h, index) == IF h = index THEN index + 1 ELSE NoHash

Init ==
    /\ \E f \in Files : fileSize = f.size /\ score = f.score
    /\ pos = 0 /\ faults = 0
    /\ chunks = <<NoChunk>>
    /\ pc = "idle" /\ result = "none"
    /\ dataLen = 0
    /\ oldChunks = <<>> /\ previousChunk = NoChunk /\ currentChunk = NoChunk
    /\ regionLen = 0 /\ i = 0
    /\ handedOut = 0

-----------------------------------------------------------------------------
\* ReadNextChunk up to the scan

ReturnError ==
    /\ faults < MaxFaults
    /\ faults' = faults + 1
    /\ result' = "error"
    /\ pc' = "idle"

\* The call ends with the first chunk of the new stack.
ReturnChunk(newChunks) ==
    /\ chunks' = newChunks
    /\ handedOut' = handedOut + newChunks[1].end
    /\ result' = "chunk"
    /\ pc' = "idle"

\* The Peeker discards the given number of bytes of the previous chunk, and
\* every end moves with the stream.
\* Mutants: only the end of the previous chunk does; one byte too far.
DiscardOnly(discarded) ==
    /\ pos' = pos + discarded
    /\ chunks' = [chunks EXCEPT ![1].end = @ - discarded]
DiscardTooFar(discarded) ==
    /\ pos' = pos + discarded
    /\ chunks' = [k \in DOMAIN chunks |->
                    [chunks[k] EXCEPT !.end = @ - discarded - 1]]
Discard(discarded) ==
    /\ pos' = pos + discarded
    /\ chunks' = [k \in DOMAIN chunks |->
                    [chunks[k] EXCEPT !.end = @ - discarded]]

DiscardPrevious ==
    /\ pc = "idle"
    /\ Discard(chunks[1].end)
    /\ pc' = "peek"
    /\ UNCHANGED <<file, faults, result, scan, handedOut>>

DiscardFails ==
    /\ pc = "idle"
    /\ \E discarded \in 0 .. (chunks[1].end - 1) : Discard(discarded)
    /\ ReturnError
    /\ UNCHANGED <<file, scan, handedOut>>

PeekFails ==
    /\ pc = "peek"
    /\ ReturnError
    /\ UNCHANGED <<file, pos, chunks, scan, handedOut>>

ReturnEndOfFile ==
    /\ pc = "peek" /\ Available(fileSize, pos) = 0
    /\ result' = "eof"
    /\ pc' = "idle"
    /\ UNCHANGED <<file, peeker, chunks, scan, handedOut>>

\* Too little is left for two chunks: return all of it.
ReturnTail ==
    /\ pc = "peek" /\ Available(fileSize, pos) \in 1 .. (2 * MinSize - 1)
    /\ ReturnChunk(<<[hash |-> NoHash, end |-> Available(fileSize, pos)]>>)
    /\ UNCHANGED <<file, peeker, scan>>

\* Take the two last chunks off the stack that the previous call left.
\* Mutant: without one of the chunks below them.
ResumeShort ==
    LET n == Len(chunks)
    IN  /\ previousChunk' = chunks[n - 1] /\ currentChunk' = chunks[n]
        /\ oldChunks' = SubSeq(chunks, 2, n - 3)
Resume ==
    LET n == Len(chunks)
    IN  /\ previousChunk' = chunks[n - 1] /\ currentChunk' = chunks[n]
        /\ oldChunks' = SubSeq(chunks, 2, n - 2)

\* Or start with the first cutting point of the new chunk.
Restart ==
    /\ previousChunk' = [hash |-> InitialHash(pos + MinSize), end |-> MinSize]
    /\ currentChunk' = previousChunk'
    /\ oldChunks' = <<>>

\* Mutant: the stack that was kept is not used.
IsNeverKept == FALSE
IsStackKept == Len(chunks) > 2
StartScan ==
    /\ pc = "peek" /\ Available(fileSize, pos) >= 2 * MinSize
    /\ dataLen' = Available(fileSize, pos) - MinSize
    /\ IF IsStackKept THEN Resume ELSE Restart
    /\ pc' = "scan"
    /\ UNCHANGED <<file, peeker, chunks, result, regionLen, i, handedOut>>

-----------------------------------------------------------------------------
\* The loop

\* The current chunk has the size at which a new one has to be inserted.
\* Mutant: one byte later.
IsLate == currentChunk.end - previousChunk.end = MinSize + 1
IsFull == currentChunk.end - previousChunk.end = MinSize

\* The bytes up to the end of the data, or until the current chunk is full.
\* Mutant: it goes on into the bytes that are left for the last chunk.
PastTheData == MinSize - (currentChunk.end - previousChunk.end)
HashRegionLen == Min({dataLen - currentChunk.end,
                      MinSize - (currentChunk.end - previousChunk.end)})

StartRegion ==
    /\ pc = "scan" /\ HashRegionLen > 0
    /\ regionLen' = HashRegionLen
    /\ i' = 0
    /\ pc' = "region"
    /\ UNCHANGED <<file, peeker, chunks, result, dataLen, stack, handedOut>>

\* The stack below a new cutting point that scores h.
\* Mutants: equal cutting points are dropped too; none is.
CollapsedOrEqual(h) ==
    SubSeq(oldChunks, 1, Max({0} \cup {k \in DOMAIN oldChunks :
                                          score[h] < score[oldChunks[k].hash]}))
CollapsedNever(h) == oldChunks
Collapsed(h) ==
    SubSeq(oldChunks, 1, Max({0} \cup {k \in DOMAIN oldChunks :
                                          score[h] <= score[oldChunks[k].hash]}))

\* One byte of the region.  A better cutting point replaces the last one, and
\* those before it that are not better than it either.
HashByte ==
    /\ pc = "region" /\ i < regionLen
    /\ LET h == RollHash(currentChunk.hash, pos + currentChunk.end + i)
       IN  /\ currentChunk' = [currentChunk EXCEPT !.hash = h]
           /\ IF score[h] > score[previousChunk.hash]
              THEN /\ oldChunks' = Collapsed(h)
                   /\ previousChunk' = [hash |-> h, end |-> currentChunk.end + i + 1]
              ELSE UNCHANGED <<oldChunks, previousChunk>>
    /\ i' = i + 1
    /\ UNCHANGED <<file, peeker, chunks, pc, result, dataLen, regionLen, handedOut>>

EndRegion ==
    /\ pc = "region" /\ i = regionLen
    /\ currentChunk' = [currentChunk EXCEPT !.end = @ + regionLen]
    /\ pc' = "scan"
    /\ UNCHANGED <<file, peeker, chunks, result, dataLen, oldChunks, previousChunk,
                   regionLen, i, handedOut>>

\* The current chunk is full: its end becomes a cutting point.
PushChunk ==
    /\ pc = "scan" /\ HashRegionLen = 0 /\ IsFull
    /\ oldChunks' = Append(oldChunks, previousChunk)
    /\ previousChunk' = currentChunk
    /\ UNCHANGED <<file, peeker, chunks, pc, result, dataLen, currentChunk,
                   regionLen, i, handedOut>>

\* The data is scanned: return the first chunk and keep the others.
ReturnFirstChunk ==
    /\ pc = "scan" /\ HashRegionLen = 0 /\ ~ IsFull
    /\ ReturnChunk(oldChunks \o <<previousChunk, currentChunk>>)
    /\ UNCHANGED <<file, peeker, scan>>

Next ==
    \/ DiscardPrevious \/ DiscardFails \/ PeekFails \/ ReturnEndOfFile
    \/ ReturnTail \/ StartScan \/ StartRegion \/ HashByte \/ EndRegion
    \/ PushChunk \/ ReturnFirstChunk

Spec == Init /\ [][Next]_vars

-----------------------------------------------------------------------------
\* Properties

ChunkType == [hash : Nat, end : Nat]

\* Every variable has its type: no end of a chunk falls behind the stream.
TypeOK ==
    /\ fileSize \in Nat /\ score \in [CutsOf(fileSize) -> Nat]
    /\ pos \in Nat /\ faults \in 0 .. MaxFaults
    /\ chunks \in Seq(ChunkType) /\ chunks # <<>>
    /\ pc \in {"idle", "peek", "scan", "region"}
    /\ result \in {"none", "chunk", "eof", "error"}
    /\ dataLen \in Nat /\ regionLen \in Nat /\ i \in 0 .. regionLen
    /\ oldChunks \in Seq(ChunkType)
    /\ previousChunk \in ChunkType /\ currentChunk \in ChunkType
    /\ handedOut \in Nat

\* While it scans a call works on its own copy of the stack; otherwise the
\* stack is what the last call left after the chunk it returned.
Scanning == pc \in {"scan", "region"}
Stack == IF Scanning THEN Append(oldChunks, previousChunk)
         ELSE SubSeq(chunks, 2, Len(chunks) - 1)

\* Offset of the next byte to hash, and the hash there.
Cursor == IF pc = "region" THEN currentChunk.end + i
          ELSE IF pc = "scan" THEN currentChunk.end ELSE Last(chunks).end
CursorHash == IF Scanning THEN currentChunk.hash ELSE Last(chunks).hash

\* Where the first chunk of the stack begins.
StackStart == chunks[1].end

\* What is discarded and what still has to be is exactly what was returned,
\* and the whole stack lies in the file with room for a last chunk after it.
NothingLost ==
    /\ pos + chunks[1].end = handedOut /\ handedOut <= fileSize
    /\ Stack # <<>> => pos + Cursor + MinSize <= fileSize

\* The stack holds the cuts of a reader that stops at the cursor: each of its
\* entries is the leftmost best cutting point at least MinSize after the one
\* before, with the hash there, so that a call that goes on from the stack
\* decides as one that hashes everything again ("stores cutting points on a
\* stack that is preserved across calls").
StackIsExact ==
    Stack # <<>> =>
        /\ CursorHash = pos + Cursor
        /\ \A k \in DOMAIN Stack :
              LET begin == IF k = 1 THEN StackStart ELSE Stack[k - 1].end
              IN  /\ Stack[k].hash = pos + Stack[k].end
                  /\ IsBest(score, Stack[k].hash, pos + begin + MinSize, pos + Cursor)

\* A stack has at most as many entries as chunks of MinSize bytes fit in a peek,
\* which is the capacity that NewChunkReader reserves.
StackHasRoom ==
    /\ Len(chunks) <= PeekSize \div MinSize + 1
    /\ Len(oldChunks) + 2 <= PeekSize \div MinSize + 1

\* What a scan slices of its data is there.  The cursor may be one that an
\* earlier call left, and the data may reach no further than that call saw.
OffsetsInData ==
    Scanning =>
        /\ dataLen >= MinSize
        /\ currentChunk.end + (IF pc = "region" THEN regionLen ELSE 0) <= dataLen
        /\ Cursor - previousChunk.end \in 0 .. MinSize
        /\ Stack[1].end \in MinSize .. dataLen

\* The stack never outgrows its capacity, and no offset leaves the data that was
\* peeked: neither the regions that are hashed nor the chunk that is returned.
StackFits == StackHasRoom /\ OffsetsInData

\* No cutting point is hashed twice: the scan resumes where it stopped, or
\* beyond when the next chunk's first cutting point is.
ScanNeverGoesBack == [][pos' + Cursor' >= pos + Cursor]_vars

\* The reader hands out the chunks of the rule, as the simple reader does.
Stream == INSTANCE ChunkStream
             WITH size <- fileSize, sizeAt <- RuleSizes(fileSize, score)
RefinesChunkStream == Stream!Safety
=============================================================================
