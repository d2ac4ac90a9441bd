---------------------------- MODULE RepMaxReader ----------------------------
(***************************************************************************)
(* The RepMaxCDC chunk reader of rep_max_chunk_reader.go, one step per     *)
(* iteration of each of its loops: ReadNextChunk with its queue of ready   *)
(* chunks, the horizon scan that keeps the strict record maxima of the     *)
(* rolling hash as candidates, the batch that is finalised when the scan   *)
(* reaches a point no later score can change, and the forced cut that      *)
(* rebases the frontier so that scanned bytes are not hashed again.        *)
(*                                                                         *)
(* A hash value is represented by the cutting point whose window it is the *)
(* hash of, and compared through score; rolling a hash with any byte but   *)
(* the one that follows its window gives NoHash.  So a wrong window is     *)
(* visible here as a wrong position, whichever hash the reader runs with.  *)
(*                                                                         *)
(* Indices into Go slices are one higher here.                             *)
(***************************************************************************)
EXTENDS RepMaxRule, Sequences, SequencesExt

CONSTANTS
    Files,      \* the files read, each a record of its size and scores
    MaxFaults   \* how often the Peeker may return an error other than EOF

ASSUME FilesAssumption ==
    \A f \in Files : f.size \in Nat /\ f.score \in [CutsOf(f.size) -> Nat]
ASSUME MaxFaultsAssumption == MaxFaults \in Nat

VARIABLES
    fileSize, score,          \* the file
    pos, faults,              \* the Peeker: bytes discarded, errors returned
    previousChunkSizeBytes, readyChunkSizes, frontier,   \* the reader
    pc, result,               \* progress of ReadNextChunk; how the last one ended
    dataLen, hashEnd,         \* planChunks: len(searchData); next byte to hash
    region,                   \* scanHorizon: the region being scanned
    completedChunkSizes,      \* scanHorizon: chunks finalised by this call
    walk,                     \* the two backward walks over the candidates
    rebase,                   \* recomputeFrontierPrefix
    handedOut,                \* history: bytes in the chunks returned so far
    origin                    \* history: where the frontier's next chunk begins

file == <<fileSize, score>>
peeker == <<pos, faults>>
reader == <<previousChunkSizeBytes, readyChunkSizes, frontier>>
plan == <<dataLen, hashEnd, region, completedChunkSizes, walk, rebase>>
history == <<handedOut, origin>>
vars == <<file, peeker, reader, pc, result, plan, history>>

-----------------------------------------------------------------------------
\* Hash values and the frontier

NoHash == 0

\* initialHash of the window that ends at cutting point p.
InitialHash(p) == p

\* rollHash: h advances by one byte when that byte, at index i of the file, is
\* the one after its window.
RollHash(h, i) == IF h = i THEN i + 1 ELSE NoHash

NoFrontier == [candidateOffsets |-> <<>>, scannedOffset |-> 0,
               currentHash |-> NoHash, maximumHash |-> NoHash]

\* The frontier of a chunk that begins at start, before anything is scanned.
NewFrontier(start) ==
    [candidateOffsets |-> <<0>>, scannedOffset |-> 0,
     currentHash |-> InitialHash(start + MinSize),
     maximumHash |-> InitialHash(start + MinSize)]

\* One byte of scanRecordMaxima, the byte at index i of the file.
\* Mutant: equal scores replace the leftmost one.
IsRecordOrEqual(h, maximum) == score[maximum] <= score[h]
IsRecord(h, maximum) == score[maximum] < score[h]
ScanByte(f, i) ==
    LET h == RollHash(f.currentHash, i)
        record == IsRecord(h, f.maximumHash)
    IN  [candidateOffsets |->
             IF record THEN Append(f.candidateOffsets, f.scannedOffset + 1)
                       ELSE f.candidateOffsets,
         scannedOffset |-> f.scannedOffset + 1,
         currentHash |-> h,
         maximumHash |-> IF record THEN h ELSE f.maximumHash]

\* A planned chunk.  The code queues sizes; end is where the chunk ends in the
\* file, kept to state what the sizes mean.
Chunk(size, end) == [size |-> size, end |-> end]

NoRegion == [end |-> 0, candidates |-> 0]
NoWalk == [selected |-> 0, next |-> 0, batch |-> <<>>]
NoRebase == [points |-> <<>>, reusable |-> 0, first |-> 0,
             recomputed |-> NoFrontier]

Init ==
    /\ \E f \in Files : fileSize = f.size /\ score = f.score
    /\ pos = 0 /\ faults = 0
    /\ previousChunkSizeBytes = 0
    /\ readyChunkSizes = <<>>
    /\ frontier = NoFrontier
    /\ pc = "idle" /\ result = "none"
    /\ dataLen = 0 /\ hashEnd = 0
    /\ region = NoRegion
    /\ completedChunkSizes = <<>>
    /\ walk = NoWalk
    /\ rebase = NoRebase
    /\ handedOut = 0 /\ origin = 0

-----------------------------------------------------------------------------
\* ReadNextChunk

\* The call ends with an error and without data.
ReturnError ==
    /\ faults < MaxFaults
    /\ faults' = faults + 1
    /\ result' = "error"
    /\ pc' = "idle"

\* The call ends with a chunk of the given size.
ReturnChunk(size) ==
    /\ previousChunkSizeBytes' = size
    /\ handedOut' = handedOut + size
    /\ result' = "chunk"
    /\ pc' = "idle"

\* A call begins by discarding the chunk the previous one returned.
DiscardPrevious ==
    /\ pc = "idle"
    /\ pos' = pos + previousChunkSizeBytes
    /\ previousChunkSizeBytes' = 0
    /\ pc' = "peek"
    /\ UNCHANGED <<file, faults, readyChunkSizes, frontier, result, plan, history>>

\* Discard stops early with an error; the next call discards the rest.
\* Mutant: the bytes that were discarded are not subtracted.
RemainderForgotten(discarded) == previousChunkSizeBytes
RemainderOf(discarded) == previousChunkSizeBytes - discarded
DiscardFails ==
    /\ pc = "idle"
    /\ \E discarded \in 0 .. (previousChunkSizeBytes - 1) :
          /\ pos' = pos + discarded
          /\ previousChunkSizeBytes' = RemainderOf(discarded)
    /\ ReturnError
    /\ UNCHANGED <<file, readyChunkSizes, frontier, plan, history>>

\* Peek returns an error, whether for a ready chunk or for a horizon.
PeekFails ==
    /\ pc = "peek"
    /\ ReturnError
    /\ UNCHANGED <<file, pos, reader, plan, history>>

\* A chunk that an earlier scan finalised.
ReturnReadyChunk ==
    /\ pc = "peek" /\ readyChunkSizes # <<>>
    /\ readyChunkSizes' = Front(readyChunkSizes)
    /\ ReturnChunk(Last(readyChunkSizes).size)
    /\ UNCHANGED <<file, peeker, frontier, plan, origin>>

ReturnEndOfFile ==
    /\ pc = "peek" /\ readyChunkSizes = <<>>
    /\ Available(fileSize, pos) = 0
    /\ result' = "eof"
    /\ pc' = "idle"
    /\ UNCHANGED <<file, peeker, reader, plan, history>>

\* Too little is left for two chunks: return all of it.
ReturnTail ==
    /\ pc = "peek" /\ readyChunkSizes = <<>>
    /\ Available(fileSize, pos) \in 1 .. (2 * MinSize - 1)
    /\ ReturnChunk(Available(fileSize, pos))
    /\ origin' = origin + Available(fileSize, pos)
    /\ UNCHANGED <<file, peeker, readyChunkSizes, frontier, plan>>

\* planChunks: initialise the frontier unless the last rebase left one.  The
\* cursor is not initialised: without candidates it has to be at the origin.
StartPlan ==
    /\ pc = "peek" /\ readyChunkSizes = <<>>
    /\ Available(fileSize, pos) >= 2 * MinSize
    /\ dataLen' = Available(fileSize, pos) - MinSize
    /\ frontier' = IF frontier.candidateOffsets = <<>>
                   THEN [NewFrontier(pos) EXCEPT !.scannedOffset = frontier.scannedOffset]
                   ELSE frontier
    /\ hashEnd' = MinSize + frontier'.scannedOffset
    /\ completedChunkSizes' = <<>>
    /\ pc' = "scan"
    /\ UNCHANGED <<file, peeker, previousChunkSizeBytes, readyChunkSizes, result,
                   region, walk, rebase, history>>

-----------------------------------------------------------------------------
\* scanHorizon

\* Bytes to scan before the last candidate is MinSize - 1 points old.
\* Mutant: one byte too many.
BytesPastStable ==
    Last(frontier.candidateOffsets) + MinSize - frontier.scannedOffset
BytesUntilStable ==
    Last(frontier.candidateOffsets) + MinSize - 1 - frontier.scannedOffset

ReachesStabilityPoint == dataLen - hashEnd > BytesUntilStable

\* The next region ends at the stability point, or where the data does.
StartRegion ==
    /\ pc = "scan" /\ hashEnd < dataLen
    /\ region' = [end |-> IF ReachesStabilityPoint
                          THEN hashEnd + BytesUntilStable ELSE dataLen,
                  candidates |-> Len(frontier.candidateOffsets)]
    /\ pc' = "region"
    /\ UNCHANGED <<file, peeker, reader, result, dataLen, hashEnd,
                   completedChunkSizes, walk, rebase, history>>

HashByte ==
    /\ pc = "region" /\ hashEnd < region.end
    /\ frontier' = ScanByte(frontier, pos + hashEnd)
    /\ hashEnd' = hashEnd + 1
    /\ UNCHANGED <<file, peeker, previousChunkSizeBytes, readyChunkSizes, pc, result,
                   dataLen, region, completedChunkSizes, walk, rebase, history>>

\* A region shorter than the data that produced no new candidate makes the
\* whole frontier stable.
\* Mutant: the frontier is never stable.
IsNeverStable ==
    /\ region.end < dataLen
    /\ Len(frontier.candidateOffsets) < region.candidates
IsStable ==
    /\ region.end < dataLen
    /\ Len(frontier.candidateOffsets) = region.candidates

\* Both walks begin at the last candidate and skip the one before it, which
\* is always too close to it.
\* Mutant: both walks skip two candidates.
StartWalkFurther ==
    LET last == Len(frontier.candidateOffsets)
    IN  walk' = [selected |-> last, next |-> last - 3, batch |-> <<>>]
StartWalk ==
    LET last == Len(frontier.candidateOffsets)
    IN  walk' = [selected |-> last, next |-> last - 2, batch |-> <<>>]

EndRegion ==
    /\ pc = "region" /\ hashEnd = region.end
    /\ IF IsStable THEN StartWalk /\ pc' = "stable"
                   ELSE UNCHANGED walk /\ pc' = "scan"
    /\ UNCHANGED <<file, peeker, reader, result, dataLen, hashEnd, region,
                   completedChunkSizes, rebase, history>>

-----------------------------------------------------------------------------
\* appendStableChunkSizes and selectForcedChunk

SelectedOffset == frontier.candidateOffsets[walk.selected]

\* The cutting point, in the file, of candidate i.
CutAt(i) == origin + MinSize + frontier.candidateOffsets[i]

\* One iteration of either walk.  Only the walk over a stable frontier keeps
\* the chunk between the two cuts; the code appends it and reverses the batch
\* when the walk ends.
\* Mutant: chunks one byte short of the minimum.
AlmostFarEnough(cut, nextCut) == nextCut - cut >= MinSize - 1
FarEnough(cut, nextCut) == nextCut - cut >= MinSize
WalkBack ==
    /\ pc \in {"stable", "forced"} /\ SelectedOffset >= MinSize
    /\ LET cut == frontier.candidateOffsets[walk.next]
           size == SelectedOffset - cut
       IN  walk' = IF FarEnough(cut, SelectedOffset)
                   THEN [selected |-> walk.next,
                         next |-> walk.next - 2,
                         batch |-> IF pc = "stable"
                                   THEN <<Chunk(size, CutAt(walk.selected))>> \o walk.batch
                                   ELSE walk.batch]
                   ELSE [walk EXCEPT !.next = @ - 1]
    /\ UNCHANGED <<file, peeker, reader, pc, result, dataLen, hashEnd, region,
                   completedChunkSizes, rebase, history>>

\* The batch is complete: its first chunk begins at the origin.  The frontier
\* restarts with the first eligible cut after the last stable one.
StableFrontier ==
    LET h == RollHash(frontier.currentHash, pos + hashEnd)
    IN  [candidateOffsets |-> SubSeq(frontier.candidateOffsets, 1, 1),
         scannedOffset |-> 0, currentHash |-> h, maximumHash |-> h]
FinishStable ==
    /\ pc = "stable" /\ SelectedOffset < MinSize
    /\ completedChunkSizes' =
          completedChunkSizes
            \o <<Chunk(MinSize + SelectedOffset, CutAt(walk.selected))>> \o walk.batch
    /\ frontier' = StableFrontier
    /\ hashEnd' = hashEnd + 1
    /\ origin' = origin + MinSize + Last(frontier.candidateOffsets)
    /\ walk' = NoWalk
    /\ pc' = "scan"
    /\ UNCHANGED <<file, peeker, previousChunkSizeBytes, readyChunkSizes, result,
                   dataLen, region, rebase, handedOut>>

\* The horizon is scanned.  If that finalised chunks, return the first and
\* queue the others, the next one last.
\* Mutant: the others are queued in return order.
QueueForwards(chunks) == Tail(chunks)
Queue(chunks) == Reverse(Tail(chunks))
ReturnCompletedChunk ==
    /\ pc = "scan" /\ hashEnd >= dataLen
    /\ completedChunkSizes # <<>>
    /\ readyChunkSizes' = Queue(completedChunkSizes)
    /\ ReturnChunk(Head(completedChunkSizes).size)
    /\ completedChunkSizes' = <<>>
    /\ UNCHANGED <<file, peeker, frontier, dataLen, hashEnd, region, walk, rebase, origin>>

\* Otherwise a cut has to be forced.
StartForced ==
    /\ pc = "scan" /\ hashEnd >= dataLen
    /\ completedChunkSizes = <<>>
    /\ StartWalk
    /\ pc' = "forced"
    /\ UNCHANGED <<file, peeker, reader, result, dataLen, hashEnd, region,
                   completedChunkSizes, rebase, history>>

-----------------------------------------------------------------------------
\* rebaseFrontier and recomputeFrontierPrefix

\* The frontier from the points that survive a forced cut, the scan cursor
\* being the last of them.
\* Mutant: nothing that was scanned is reused.
FrontierDropped(points) == NoFrontier
FrontierFrom(points) ==
    IF Len(points) < 2
    THEN NoFrontier
    ELSE [frontier EXCEPT !.candidateOffsets = Front(points),
                          !.scannedOffset = Last(points)]

\* The forced chunk is returned; the next one begins where it ends.
ReturnForcedChunk(first, points) ==
    /\ frontier' = FrontierFrom(points)
    /\ ReturnChunk(first)
    /\ origin' = origin + first
    /\ UNCHANGED readyChunkSizes

\* The points after the selected one from which a later chunk can be cut.
ReusablePoints(points, first) ==
    {r \in (walk.selected + 1) .. Len(points) : points[r] >= first}

\* No reusable point, or one that is the next chunk's first eligible cut.
RebaseFrontier ==
    /\ pc = "forced" /\ SelectedOffset < MinSize
    /\ LET first == MinSize + SelectedOffset
           points == Append(frontier.candidateOffsets, frontier.scannedOffset)
           reusable == ReusablePoints(points, first)
           r == Min(reusable)
       IN  \/ /\ reusable = {}
              /\ ReturnForcedChunk(first, <<>>)
           \/ /\ reusable # {} /\ points[r] = first
              /\ ReturnForcedChunk(first, [k \in 1 .. (Len(points) - r + 1) |->
                                              points[r + k - 1] - first])
    /\ walk' = NoWalk
    /\ UNCHANGED <<file, peeker, dataLen, hashEnd, region, completedChunkSizes, rebase>>

\* Record maxima between the new first eligible cut and the first reusable
\* point were never candidates: they have to be computed again.  The slice
\* they are appended to shares the array of points, up to its capacity.
\* Mutant: the slice keeps the capacity of points.
RecomputeUncapped(points, reusable) == Len(points)
RecomputeCapacity(points, reusable) == reusable - 1
StartRecompute ==
    /\ pc = "forced" /\ SelectedOffset < MinSize
    /\ LET first == MinSize + SelectedOffset
           points == Append(frontier.candidateOffsets, frontier.scannedOffset)
           reusable == ReusablePoints(points, first)
           r == Min(reusable)
       IN  /\ reusable # {} /\ points[r] > first
           /\ rebase' = [points |-> [k \in 1 .. Len(points) |->
                                        IF k < r THEN points[k] ELSE points[k] - first],
                         reusable |-> r,
                         first |-> first,
                         recomputed |-> [NewFrontier(pos + first) EXCEPT
                                            !.candidateOffsets = <<points[1]>>]]
    /\ walk' = NoWalk
    /\ pc' = "recompute"
    /\ UNCHANGED <<file, peeker, reader, result, dataLen, hashEnd, region,
                   completedChunkSizes, history>>

\* One byte of the recomputation.  Within its capacity an append writes into
\* the array of points; beyond it the slice is copied and points is safe.
RecomputeByte ==
    /\ pc = "recompute"
    /\ rebase.recomputed.scannedOffset < rebase.points[rebase.reusable] - 1
    /\ LET old == rebase.recomputed
           new == ScanByte(old, pos + rebase.first + MinSize + old.scannedOffset)
           n == Len(new.candidateOffsets)
           inPlace == n > Len(old.candidateOffsets)
                      /\ n <= RecomputeCapacity(rebase.points, rebase.reusable)
       IN  rebase' = [rebase EXCEPT
                        !.recomputed = new,
                        !.points = IF inPlace
                                   THEN [@ EXCEPT ![n] = Last(new.candidateOffsets)]
                                   ELSE @]
    /\ UNCHANGED <<file, peeker, reader, pc, result, dataLen, hashEnd, region,
                   completedChunkSizes, walk, history>>

FinishRecompute ==
    /\ pc = "recompute"
    /\ rebase.recomputed.scannedOffset >= rebase.points[rebase.reusable] - 1
    /\ ReturnForcedChunk(rebase.first,
                         rebase.recomputed.candidateOffsets
                           \o SubSeq(rebase.points, rebase.reusable, Len(rebase.points)))
    /\ rebase' = NoRebase
    /\ UNCHANGED <<file, peeker, dataLen, hashEnd, region, completedChunkSizes, walk>>

-----------------------------------------------------------------------------
\* The reader's own steps; a caller starts each call.
ReaderStep ==
    \/ PeekFails \/ ReturnReadyChunk \/ ReturnEndOfFile \/ ReturnTail
    \/ StartPlan \/ StartRegion \/ HashByte \/ EndRegion
    \/ WalkBack \/ FinishStable \/ ReturnCompletedChunk \/ StartForced
    \/ RebaseFrontier \/ StartRecompute \/ RecomputeByte \/ FinishRecompute

Next == DiscardPrevious \/ DiscardFails \/ ReaderStep

\* The caller calls ReadNextChunk again after every answer, the errors that the
\* reader keeps its state for included; within a call the code is sequential.
Fairness == WF_vars(Next)

Spec == Init /\ [][Next]_vars
FairSpec == Spec /\ Fairness

-----------------------------------------------------------------------------
\* Properties

ChunkPlan == [size : Nat, end : Nat]
Frontier == [candidateOffsets : Seq(Nat), scannedOffset : Nat,
             currentHash : Nat, maximumHash : Nat]

\* Every variable has its type: no size, offset or position is negative.
TypeOK ==
    /\ fileSize \in Nat
    /\ score \in [CutsOf(fileSize) -> Nat]
    /\ pos \in 0 .. fileSize /\ faults \in 0 .. MaxFaults
    /\ previousChunkSizeBytes \in Nat
    /\ readyChunkSizes \in Seq(ChunkPlan)
    /\ frontier \in Frontier
    /\ pc \in {"idle", "peek", "scan", "region", "stable", "forced", "recompute"}
    /\ result \in {"none", "chunk", "eof", "error"}
    /\ dataLen \in Nat /\ hashEnd \in Nat
    /\ region \in [end : Nat, candidates : Nat]
    /\ completedChunkSizes \in Seq(ChunkPlan)
    /\ walk \in [selected : Nat, next : Int, batch : Seq(ChunkPlan)]
    /\ rebase \in [points : Seq(Nat), reusable : Nat, first : Nat,
                   recomputed : Frontier]
    /\ handedOut \in Nat /\ origin \in Nat

\* Adjacent chunks, in return order, from one position of the file to another.
Adjacent(chunks, from, to) ==
    IF chunks = <<>>
    THEN from = to
    ELSE /\ chunks[1].end - chunks[1].size = from
         /\ chunks[Len(chunks)].end = to
         /\ \A k \in 1 .. (Len(chunks) - 1) :
               chunks[k + 1].end - chunks[k + 1].size = chunks[k].end

\* No byte is returned twice or skipped, whatever Discard and Peek fail: what
\* is discarded and what still has to be is exactly what was returned, the
\* queued chunks continue it without a gap, and the frontier begins where the
\* last of them ends ("The frontier begins after every queued ready chunk,
\* even before those chunks have been returned").
NothingLost ==
    /\ pos + previousChunkSizeBytes = handedOut
    /\ handedOut <= origin /\ origin <= fileSize
    /\ pc \in {"idle", "peek"} => Adjacent(Reverse(readyChunkSizes), handedOut, origin)
    /\ pc \notin {"idle", "peek"} => /\ readyChunkSizes = <<>>
                                   /\ Adjacent(completedChunkSizes, handedOut, origin)
    /\ pc = "stable" => Adjacent(walk.batch, CutAt(walk.selected),
                                CutAt(Len(frontier.candidateOffsets)))

\* candidates lists exactly the strict record maxima of the scores of the
\* cutting points start + MinSize + 0 .. last: each entry is larger than
\* everything before it, and nothing between two entries is.
AreRecordMaxima(candidates, start, last) ==
    LET at(o) == score[start + MinSize + o]
        n == Len(candidates)
        until(k) == IF k < n THEN candidates[k + 1] - 1 ELSE last
    IN  /\ n > 0 /\ candidates[1] = 0 /\ candidates[n] <= last
        /\ \A k \in 1 .. n : \A o \in candidates[k] .. until(k) :
              at(o) <= at(candidates[k])
        /\ \A k \in 1 .. (n - 1) : /\ candidates[k] < candidates[k + 1]
                                  /\ at(candidates[k]) < at(candidates[k + 1])

HasFrontier == frontier.candidateOffsets # <<>>

\* What the comment on repMaxFrontier says a frontier is, at every moment one
\* exists, across stable batches, forced cuts, reuse and recomputation: strict
\* record maxima relative to the first eligible cut, the hash at the cursor,
\* and the hash of the last candidate.
FrontierIsExact ==
    HasFrontier =>
        /\ AreRecordMaxima(frontier.candidateOffsets, origin, frontier.scannedOffset)
        /\ frontier.currentHash = origin + MinSize + frontier.scannedOffset
        /\ frontier.maximumHash = CutAt(Len(frontier.candidateOffsets))

\* Neither the scan cursor nor a candidate is MinSize or more beyond the
\* candidate before it, and two chunks still fit from the origin: the walks
\* may skip one candidate, the cursor is never taken for one by a rebase, and
\* a frontier is never left behind at the end of the file.
FrontierIsTight ==
    HasFrontier =>
        LET c == frontier.candidateOffsets
        IN  /\ \A k \in 1 .. (Len(c) - 1) : c[k + 1] - c[k] < MinSize
            /\ frontier.scannedOffset - Last(c) < MinSize
            /\ origin + frontier.scannedOffset + 2 * MinSize <= fileSize

\* The loops of appendStableChunkSizes and selectForcedChunk have no check on
\* their index: each stops before it leaves the list of candidates.  Nor is a
\* region's length negative, or the first reusable point the cursor.
IndicesInRange ==
    /\ pc \in {"stable", "forced"} =>
          /\ walk.selected \in 1 .. Len(frontier.candidateOffsets)
          /\ SelectedOffset >= MinSize => walk.next >= 1
    /\ pc = "scan" => BytesUntilStable >= 0
    /\ pc = "recompute" => rebase.reusable < Len(rebase.points)

\* Every planned chunk has MinSize to 2*MinSize - 1 bytes, and the plans of
\* one horizon fit the capacity NewChunkReader reserves for them.
PlansAreBounded ==
    LET bounded(chunks) == \A k \in 1 .. Len(chunks) :
                               chunks[k].size \in MinSize .. (2 * MinSize - 1)
    IN  /\ bounded(readyChunkSizes)
        /\ bounded(completedChunkSizes)
        /\ bounded(walk.batch)
        /\ Len(completedChunkSizes) <= PeekSize \div MinSize

\* A chunk that is returned has MinSize to 2*MinSize - 1 bytes unless it is
\* the whole of a shorter file ("all chunks except a short file's only chunk
\* [are] at least minSizeBytes long").
ChunksAreBounded ==
    [][handedOut' # handedOut =>
          \/ handedOut' - handedOut \in MinSize .. (2 * MinSize - 1)
          \/ handedOut = 0 /\ handedOut' = fileSize]_vars

\* The scan never goes back: when a frontier is kept, restarted or dropped, the
\* next byte to hash is not before the last one hashed.
ScanNeverGoesBack ==
    [][origin' + frontier'.scannedOffset >= origin + frontier.scannedOffset]_vars

\* The reader, batches and reuse included, hands out the chunks the rule gives
\* position by position.
Stream == INSTANCE ChunkStream
             WITH size <- fileSize, sizeAt <- RuleSizes(fileSize, score)
RefinesChunkStream == Stream!Safety

\* Every call of ReadNextChunk returns, and a caller that keeps calling reaches
\* io.EOF, however the Peeker fails in between.
ReaderIsLive == /\ (pc = "peek") ~> (pc = "idle")
                /\ Stream!Fairness
=============================================================================
