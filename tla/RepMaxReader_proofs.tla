------------------------ MODULE RepMaxReader_proofs ------------------------
(***************************************************************************)
(* Proofs about the RepMaxCDC chunk reader, for every minimum size,        *)
(* horizon, file and number of Peeker errors: no byte is lost or repeated, *)
(* the frontier is always what its comment says it is, no loop over the    *)
(* candidates leaves their list, every chunk has a legal size, the scan    *)
(* only moves forward, no plan outgrows its array, and the chunks are      *)
(* those the rule of the simple reader gives position by position.         *)
(***************************************************************************)
EXTENDS RepMaxReader, RepMaxRule_proofs, SequenceTheorems, WellFoundedInduction, TLAPS

-----------------------------------------------------------------------------
\* The inductive invariant

\* Sorted, with any two entries and not only neighbours compared.
Increasing(c) == \A i, j \in 1 .. Len(c) : i < j => c[i] < c[j]

\* Neighbours are less than MinSize apart.
Close(c) == \A k \in 1 .. (Len(c) - 1) : c[k + 1] - c[k] < MinSize

\* Planned chunks end no later than at `to` and have legal sizes.
EndBy(chunks, to) ==
    \A k \in 1 .. Len(chunks) : /\ chunks[k].end <= to
                                /\ chunks[k].size \in MinSize .. (2 * MinSize - 1)

\* A frontier whose next chunk begins at start, up to its cursor.
FrontierFits(f, start) ==
    /\ f.candidateOffsets # <<>>
    /\ Increasing(f.candidateOffsets)
    /\ Close(f.candidateOffsets)
    /\ AreRecordMaxima(f.candidateOffsets, start, f.scannedOffset)
    /\ f.currentHash = start + MinSize + f.scannedOffset
    /\ f.maximumHash = start + MinSize + Last(f.candidateOffsets)
    /\ f.scannedOffset - Last(f.candidateOffsets) < MinSize
    /\ start + f.scannedOffset + 2 * MinSize <= fileSize

\* What holds whatever the reader is doing.
AlwaysInv ==
    /\ HasFrontier => FrontierFits(frontier, origin)
    /\ ~ HasFrontier => frontier.scannedOffset = 0
    /\ pos + previousChunkSizeBytes = handedOut
    /\ handedOut <= origin /\ origin <= fileSize
    /\ pc # "idle" => previousChunkSizeBytes = 0

\* Between calls the queued chunks lead from what was returned to the origin.
QueueInv ==
    pc \in {"idle", "peek"} =>
        /\ Adjacent(Reverse(readyChunkSizes), handedOut, origin)
        /\ EndBy(readyChunkSizes, origin)

\* In a plan the completed chunks do, the cursor is the next byte to hash, and
\* a minimum chunk is left after the data that is searched.
PlanInv ==
    pc \notin {"idle", "peek"} =>
        /\ HasFrontier
        /\ readyChunkSizes = <<>>
        /\ Adjacent(completedChunkSizes, handedOut, origin)
        /\ EndBy(completedChunkSizes, origin)
        /\ pos + hashEnd = origin + MinSize + frontier.scannedOffset
        /\ pos + dataLen + MinSize <= fileSize

\* A region ends where the last candidate becomes stable, or earlier.
RegionInv ==
    pc = "region" =>
        /\ hashEnd <= region.end /\ region.end <= dataLen
        /\ region.end - hashEnd <= BytesUntilStable
        /\ region.candidates <= Len(frontier.candidateOffsets)
        /\ IsStable => region.end - hashEnd = BytesUntilStable

\* What a walk has passed over is too close to the selected candidate.
WalkFits ==
    LET c == frontier.candidateOffsets
    IN  /\ walk.selected \in 1 .. Len(c)
        /\ walk.selected > 1 => /\ walk.next \in 0 .. (walk.selected - 2)
                               /\ SelectedOffset - c[walk.next + 1] < MinSize
        /\ walk.selected = Len(c) \/ Last(c) - SelectedOffset >= MinSize

\* The batch leads from the selected candidate to the last one.
BatchFits ==
    LET last == CutAt(Len(frontier.candidateOffsets))
    IN  Adjacent(walk.batch, CutAt(walk.selected), last) /\ EndBy(walk.batch, last)

WalkInv ==
    /\ pc \in {"stable", "forced"} => WalkFits
    /\ pc = "stable" => hashEnd < dataLen /\ BytesUntilStable = 0 /\ BatchFits
    /\ pc \in {"forced", "recompute"} => completedChunkSizes = <<>>

\* The candidates recomputed so far fit before the first reusable point, which
\* the array still holds, with those after it and the cursor.
RecomputeInv ==
    pc = "recompute" =>
        LET c == frontier.candidateOffsets
            r == rebase.reusable
        IN  /\ rebase.first \in MinSize .. (2 * MinSize - 1)
            /\ r \in 2 .. Len(c)
            /\ c[r - 1] < rebase.first /\ rebase.first < c[r]
            /\ Len(rebase.points) = Len(c) + 1
            /\ \A k \in r .. Len(c) : rebase.points[k] = c[k] - rebase.first
            /\ rebase.points[Len(c) + 1] = frontier.scannedOffset - rebase.first
            /\ rebase.recomputed.scannedOffset < rebase.points[r]
            /\ FrontierFits(rebase.recomputed, origin + rebase.first)

IInv ==
    /\ TypeOK /\ AlwaysInv /\ QueueInv /\ PlanInv
    /\ RegionInv /\ WalkInv /\ RecomputeInv

-----------------------------------------------------------------------------
\* Sequences of planned chunks

\* Reverse keeps the elements, the k-th from the front being the k-th from the
\* back.
LEMMA ReverseProperties ==
    ASSUME NEW S, NEW s \in Seq(S)
    PROVE  /\ Reverse(s) \in Seq(S)
           /\ Len(Reverse(s)) = Len(s)
           /\ \A k \in 1 .. Len(s) : Reverse(s)[k] = s[Len(s) + 1 - k]
<1>1. Len(s) \in Nat /\ \A k \in 1 .. Len(s) : s[k] \in S
    BY ElementOfSeq, LenProperties
<1>2. \A k \in 1 .. Len(s) : s[(Len(s) - k) + 1] \in S
    BY <1>1
<1> QED
    BY <1>1, <1>2 DEF Reverse

\* Taking the last element of a queue is taking the first of its reverse.
LEMMA ReverseFront ==
    ASSUME NEW S, NEW s \in Seq(S), s # <<>>
    PROVE  /\ Front(s) \in Seq(S)
           /\ Len(Front(s)) = Len(s) - 1
           /\ \A k \in 1 .. (Len(s) - 1) : Front(s)[k] = s[k]
           /\ Reverse(Front(s)) = Tail(Reverse(s))
           /\ Reverse(s)[1] = Last(s)
<1>1. Len(s) \in Nat \ {0} /\ \A k \in 1 .. Len(s) : s[k] \in S
    BY ElementOfSeq, EmptySeq
<1>2. /\ Front(s) \in Seq(S)
      /\ Len(Front(s)) = Len(s) - 1
      /\ \A k \in 1 .. (Len(s) - 1) : Front(s)[k] = s[k]
  <2> DEFINE last == Len(s) - 1
             front == SubSeq(s, 1, last)
  <2>1. last \in Nat /\ last = Len(s) - 1 /\ \A k \in 1 .. last : s[k] \in S
    BY <1>1
  <2> HIDE DEF last
  <2>2. /\ front \in Seq(S)
        /\ Len(front) = IF 1 <= last THEN last - 1 + 1 ELSE 0
        /\ \A k \in 1 .. (last - 1 + 1) : front[k] = s[1 + k - 1]
    BY <2>1, SubSeqProperties
  <2> HIDE DEF front
  <2>3. /\ Len(front) = Len(s) - 1
        /\ \A k \in 1 .. (Len(s) - 1) : front[k] = s[k]
    BY <2>1, <2>2
  <2>4. Front(s) = front
    BY DEF Front, front, last
  <2> QED
    BY <2>2, <2>3, <2>4
<1>3. /\ Reverse(s) \in Seq(S) /\ Len(Reverse(s)) = Len(s)
      /\ \A k \in 1 .. Len(s) : Reverse(s)[k] = s[Len(s) + 1 - k]
    BY ReverseProperties
<1>4. Reverse(s) # <<>>
    BY <1>1, <1>3, EmptySeq
<1>5. /\ Tail(Reverse(s)) \in Seq(S)
      /\ Len(Tail(Reverse(s))) = Len(s) - 1
      /\ \A k \in 1 .. (Len(s) - 1) : Tail(Reverse(s))[k] = s[Len(s) - k]
    BY <1>1, <1>3, <1>4, HeadTailProperties
<1>6. /\ Reverse(Front(s)) \in Seq(S)
      /\ Len(Reverse(Front(s))) = Len(s) - 1
      /\ \A k \in 1 .. (Len(s) - 1) : Reverse(Front(s))[k] = s[Len(s) - k]
    BY <1>1, <1>2, ReverseProperties
<1>7. Reverse(Front(s)) = Tail(Reverse(s))
    BY <1>5, <1>6, SeqEqual
<1> QED
    BY <1>1, <1>2, <1>3, <1>7 DEF Last

\* Two reversals undo each other.
LEMMA ReverseTwice ==
    ASSUME NEW S, NEW s \in Seq(S)
    PROVE  Reverse(Reverse(s)) = s
<1>1. Len(s) \in Nat
    OBVIOUS
<1>2. /\ Reverse(s) \in Seq(S) /\ Len(Reverse(s)) = Len(s)
      /\ \A k \in 1 .. Len(s) : Reverse(s)[k] = s[Len(s) + 1 - k]
    BY ReverseProperties
<1>3. /\ Reverse(Reverse(s)) \in Seq(S) /\ Len(Reverse(Reverse(s))) = Len(s)
      /\ \A k \in 1 .. Len(s) : Reverse(Reverse(s))[k] = Reverse(s)[Len(s) + 1 - k]
    BY <1>2, ReverseProperties
<1>4. ASSUME NEW k \in 1 .. Len(s) PROVE Reverse(Reverse(s))[k] = s[k]
  <2>1. Len(s) + 1 - k \in 1 .. Len(s) /\ Len(s) + 1 - (Len(s) + 1 - k) = k
    BY <1>1
  <2> QED
    BY <1>2, <1>3, <2>1
<1> QED
    BY <1>3, <1>4, SeqEqual

\* The fields of planned chunks are natural numbers.
LEMMA PlannedChunks ==
    ASSUME NEW chunks \in Seq(ChunkPlan)
    PROVE  /\ Len(chunks) \in Nat
           /\ chunks # <<>> <=> Len(chunks) > 0
           /\ \A k \in 1 .. Len(chunks) :
                 /\ chunks[k] \in ChunkPlan
                 /\ chunks[k].size \in Nat /\ chunks[k].end \in Nat
<1>1. Len(chunks) \in Nat /\ \A k \in 1 .. Len(chunks) : chunks[k] \in ChunkPlan
    BY ElementOfSeq, LenProperties
<1>2. chunks # <<>> <=> Len(chunks) > 0
    BY <1>1, EmptySeq
<1>3. \A c \in ChunkPlan : c.size \in Nat /\ c.end \in Nat
    BY DEF ChunkPlan
<1> QED
    BY <1>1, <1>2, <1>3

\* Without its first chunk a list of adjacent chunks begins where that ends.
LEMMA AdjacentTail ==
    ASSUME NEW chunks \in Seq(ChunkPlan), chunks # <<>>, NEW from, NEW to,
           Adjacent(chunks, from, to)
    PROVE  /\ chunks[1].end = from + chunks[1].size
           /\ Adjacent(Tail(chunks), chunks[1].end, to)
<1> DEFINE t == Tail(chunks)
<1>1. /\ Len(chunks) \in Nat \ {0}
      /\ \A k \in 1 .. Len(chunks) : chunks[k].end \in Nat /\ chunks[k].size \in Nat
    BY PlannedChunks
<1>2. /\ t \in Seq(ChunkPlan) /\ Len(t) = Len(chunks) - 1
      /\ \A k \in 1 .. Len(t) : t[k] = chunks[k + 1]
    BY HeadTailProperties
<1> HIDE DEF t
<1>3. /\ chunks[1].end - chunks[1].size = from
      /\ chunks[Len(chunks)].end = to
      /\ \A k \in 1 .. (Len(chunks) - 1) :
            chunks[k + 1].end - chunks[k + 1].size = chunks[k].end
    BY DEF Adjacent
<1>4. t # <<>> <=> Len(t) > 0
    BY <1>2, PlannedChunks
<1>5. Adjacent(t, chunks[1].end, to)
  <2>1. CASE Len(t) = 0
    BY <1>1, <1>2, <1>3, <1>4, <2>1 DEF Adjacent
  <2>2. CASE Len(t) > 0
    <3>1. t[1].end - t[1].size = chunks[1].end /\ t[Len(t)].end = to
      BY <1>1, <1>2, <1>3, <2>2
    <3>2. ASSUME NEW k \in 1 .. (Len(t) - 1)
          PROVE  t[k + 1].end - t[k + 1].size = t[k].end
      <4>1. t[k] = chunks[k + 1] /\ t[k + 1] = chunks[(k + 1) + 1]
        BY <1>1, <1>2
      <4> QED
        BY <1>1, <1>2, <1>3, <4>1
    <3> QED
      BY <1>4, <2>2, <3>1, <3>2 DEF Adjacent
  <2> QED
    BY <1>1, <1>2, <2>1, <2>2
<1> QED
    BY <1>1, <1>3, <1>5 DEF t

\* Adjacent lists, the second beginning where the first ends, make one.
LEMMA AdjacentConcat ==
    ASSUME NEW a \in Seq(ChunkPlan), NEW b \in Seq(ChunkPlan),
           NEW x, NEW y, NEW z, Adjacent(a, x, y), Adjacent(b, y, z)
    PROVE  Adjacent(a \o b, x, z)
<1>1. CASE a = <<>>
    BY <1>1, ConcatEmptySeq DEF Adjacent
<1>2. CASE b = <<>>
    BY <1>2, ConcatEmptySeq DEF Adjacent
<1>3. CASE a # <<>> /\ b # <<>>
  <2>1. Len(a) \in Nat \ {0} /\ Len(b) \in Nat \ {0}
    BY <1>3, EmptySeq
  <2>2. /\ a \o b \in Seq(ChunkPlan)
        /\ Len(a \o b) = Len(a) + Len(b)
        /\ \A k \in 1 .. (Len(a) + Len(b)) :
              (a \o b)[k] = IF k <= Len(a) THEN a[k] ELSE b[k - Len(a)]
    BY ConcatProperties
  <2>3. a \o b # <<>>
    BY <1>3, ConcatEqualIffEmpty
  <2>4. (a \o b)[1] = a[1] /\ (a \o b)[Len(a) + Len(b)] = b[Len(b)]
    BY <2>1, <2>2
  <2>5. ASSUME NEW k \in 1 .. (Len(a) + Len(b) - 1)
        PROVE  (a \o b)[k + 1].end - (a \o b)[k + 1].size = (a \o b)[k].end
    <3>1. CASE k < Len(a)
      BY <1>3, <2>1, <2>2, <3>1 DEF Adjacent
    <3>2. CASE k = Len(a)
      BY <1>3, <2>1, <2>2, <3>2 DEF Adjacent
    <3>3. CASE k > Len(a)
      <4>1. (a \o b)[k + 1] = b[(k - Len(a)) + 1] /\ (a \o b)[k] = b[k - Len(a)]
        BY <2>1, <2>2, <3>3
      <4> QED
        BY <1>3, <2>1, <3>3, <4>1 DEF Adjacent
    <3> QED
      BY <2>1, <3>1, <3>2, <3>3
  <2> QED
    BY <1>3, <2>1, <2>2, <2>3, <2>4, <2>5 DEF Adjacent
<1> QED
    BY <1>1, <1>2, <1>3

\* One chunk is a list of adjacent chunks.
LEMMA AdjacentSingle ==
    ASSUME NEW chunk \in ChunkPlan
    PROVE  /\ <<chunk>> \in Seq(ChunkPlan)
           /\ Adjacent(<<chunk>>, chunk.end - chunk.size, chunk.end)
BY DEF Adjacent

\* The bound on the ends and sizes of two lists holds for their concatenation.
LEMMA EndByConcat ==
    ASSUME NEW a \in Seq(ChunkPlan), NEW b \in Seq(ChunkPlan), NEW x \in Int, NEW y \in Int,
           EndBy(a, x), EndBy(b, y), x <= y
    PROVE  EndBy(a \o b, y)
<1>1. /\ Len(a) \in Nat /\ Len(b) \in Nat
      /\ \A k \in 1 .. Len(a) : a[k].end \in Int
    BY PlannedChunks
<1>2. /\ Len(a \o b) = Len(a) + Len(b)
      /\ \A k \in 1 .. (Len(a) + Len(b)) :
            (a \o b)[k] = IF k <= Len(a) THEN a[k] ELSE b[k - Len(a)]
    BY ConcatProperties
<1>3. ASSUME NEW k \in 1 .. (Len(a) + Len(b))
      PROVE  /\ (a \o b)[k].end <= y
             /\ (a \o b)[k].size \in MinSize .. (2 * MinSize - 1)
  <2>1. CASE k <= Len(a)
    BY <1>1, <1>2, <2>1 DEF EndBy
  <2>2. CASE k > Len(a)
    BY <1>1, <1>2, <2>2 DEF EndBy
  <2> QED
    BY <1>1, <2>1, <2>2
<1> QED
    BY <1>2, <1>3 DEF EndBy

-----------------------------------------------------------------------------
\* Calls and returns

\* The initial states satisfy the invariant: nothing is planned.
LEMMA InitIInv == Init => IInv
<1> SUFFICES ASSUME Init PROVE IInv
    OBVIOUS
<1>1. fileSize \in Nat /\ score \in [CutsOf(fileSize) -> Nat]
    BY FilesAssumption DEF Init
<1>2. TypeOK
    BY <1>1, MaxFaultsAssumption
    DEF Init, TypeOK, NoFrontier, NoRegion, NoWalk, NoRebase, Frontier, NoHash, ChunkPlan
<1>3. Reverse(readyChunkSizes) = <<>> /\ Len(readyChunkSizes) = 0
  <2>1. <<>> \in Seq(ChunkPlan) /\ Len(<<>>) = 0
    BY EmptySeq
  <2>2. Reverse(<<>>) \in Seq(ChunkPlan) /\ Len(Reverse(<<>>)) = 0
    BY <2>1, ReverseProperties
  <2> QED
    BY <2>1, <2>2, PlannedChunks DEF Init
<1>4. AlwaysInv /\ QueueInv
    BY <1>1, <1>3
    DEF Init, AlwaysInv, QueueInv, HasFrontier, NoFrontier, Adjacent, EndBy
<1> QED
    BY <1>2, <1>4 DEF Init, IInv, PlanInv, RegionInv, WalkInv, RecomputeInv

\* A frontier that stays where it is still fits.
LEMMA FrontierKept ==
    ASSUME AlwaysInv, UNCHANGED <<file, frontier, origin>>
    PROVE  /\ (HasFrontier => FrontierFits(frontier, origin))'
           /\ (~ HasFrontier => frontier.scannedOffset = 0)'
BY DEF AlwaysInv, HasFrontier, FrontierFits, Increasing, Close, AreRecordMaxima, file

\* Discarding moves the Peeker, and nothing else, to what was handed out.
LEMMA DiscardIInv ==
    ASSUME IInv, DiscardPrevious \/ DiscardFails PROVE IInv'
<1>0. /\ pos \in Nat /\ previousChunkSizeBytes \in Nat /\ fileSize \in Nat
      /\ handedOut \in Nat /\ origin \in Nat
      /\ pos + previousChunkSizeBytes = handedOut /\ handedOut <= origin /\ origin <= fileSize
    BY DEF IInv, TypeOK, AlwaysInv
<1>1. \E d \in 0 .. previousChunkSizeBytes :
          /\ pos' = pos + d
          /\ previousChunkSizeBytes' = previousChunkSizeBytes - d
          /\ pc' # "idle" => d = previousChunkSizeBytes
  <2>1. CASE DiscardPrevious
    BY <1>0, <2>1 DEF DiscardPrevious
  <2>2. CASE DiscardFails
    <3>1. PICK d \in 0 .. (previousChunkSizeBytes - 1) :
              pos' = pos + d /\ previousChunkSizeBytes' = previousChunkSizeBytes - d
      BY <2>2 DEF DiscardFails, RemainderOf
    <3> QED
      BY <1>0, <2>2, <3>1 DEF DiscardFails, ReturnError
  <2> QED
    BY <2>1, <2>2
<1>2. PICK d \in 0 .. previousChunkSizeBytes :
          /\ pos' = pos + d
          /\ previousChunkSizeBytes' = previousChunkSizeBytes - d
          /\ pc' # "idle" => d = previousChunkSizeBytes
    BY <1>1
<1>3. /\ pos + d \in 0 .. fileSize /\ previousChunkSizeBytes - d \in Nat
      /\ (pos + d) + (previousChunkSizeBytes - d) = handedOut
      /\ d = previousChunkSizeBytes => previousChunkSizeBytes - d = 0
  <2>1. /\ d \in Nat /\ d <= previousChunkSizeBytes
        /\ pos \in Nat /\ previousChunkSizeBytes \in Nat
    BY <1>0, <1>2
  <2>2. /\ pos + d \in Nat /\ previousChunkSizeBytes - d \in Nat
        /\ (pos + d) + (previousChunkSizeBytes - d) = pos + previousChunkSizeBytes
        /\ pos + d <= pos + previousChunkSizeBytes
        /\ d = previousChunkSizeBytes => previousChunkSizeBytes - d = 0
    BY <2>1
  <2>3. pos + d <= fileSize
    BY <1>0, <2>1, <2>2
  <2>4. pos + d \in 0 .. fileSize
    <3> DEFINE e == pos + d
    <3>1. e \in Nat /\ e <= fileSize /\ fileSize \in Nat
      BY <1>0, <2>2, <2>3
    <3> HIDE DEF e
    <3>2. e \in 0 .. fileSize
      BY <3>1
    <3> QED
      BY <3>2 DEF e
  <2>5. (pos + d) + (previousChunkSizeBytes - d) = handedOut
    <3>1. pos + previousChunkSizeBytes = handedOut
      BY <1>0
    <3> QED
      BY <2>2, <3>1
  <2> QED
    BY <2>2, <2>4, <2>5, Zenon
<1>4. faults' \in 0 .. MaxFaults /\ result' \in {"none", "chunk", "eof", "error"}
    BY SMTT(30), MaxFaultsAssumption
    DEF IInv, TypeOK, DiscardPrevious, DiscardFails, ReturnError
<1>5. /\ UNCHANGED <<file, readyChunkSizes, frontier, plan, history>>
      /\ pc = "idle" /\ pc' \in {"idle", "peek"}
    BY DEF DiscardPrevious, DiscardFails, ReturnError
<1>6. TypeOK'
    BY <1>2, <1>3, <1>4, <1>5 DEF IInv, TypeOK, file, plan, history
<1>7. AlwaysInv'
    BY <1>0, <1>2, <1>3, <1>5, FrontierKept DEF IInv, AlwaysInv, file, history
<1>8. QueueInv'
    BY <1>5 DEF IInv, QueueInv, Adjacent, EndBy, history
<1> QED
    BY <1>5, <1>6, <1>7, <1>8 DEF IInv, PlanInv, RegionInv, WalkInv, RecomputeInv

\* An error, and the end of the file, leave everything for the next call.
LEMMA GiveUpIInv ==
    ASSUME IInv, PeekFails \/ ReturnEndOfFile PROVE IInv'
<1>1. /\ pc = "peek" /\ pc' = "idle"
      /\ faults' \in 0 .. MaxFaults /\ result' \in {"none", "chunk", "eof", "error"}
      /\ UNCHANGED <<file, pos, reader, plan, history>>
    BY MaxFaultsAssumption
    DEF IInv, TypeOK, PeekFails, ReturnEndOfFile, ReturnError, peeker
<1>2. TypeOK'
    BY <1>1 DEF IInv, TypeOK, file, reader, plan, history
<1>3. AlwaysInv'
    BY <1>1, FrontierKept DEF IInv, AlwaysInv, file, reader, history
<1>4. QueueInv'
    BY <1>1 DEF IInv, QueueInv, Adjacent, EndBy, reader, history
<1> QED
    BY <1>1, <1>2, <1>3, <1>4 DEF IInv, PlanInv, RegionInv, WalkInv, RecomputeInv

\* The queued chunk that is returned is the one that begins where the last
\* one ended.
LEMMA ReadyIInv ==
    ASSUME IInv, ReturnReadyChunk PROVE IInv'
<1> DEFINE queued == Reverse(readyChunkSizes)
           chunk == Last(readyChunkSizes)
           rest == Front(readyChunkSizes)
<1>1. /\ pc = "peek" /\ pc' = "idle" /\ result' = "chunk"
      /\ readyChunkSizes # <<>> /\ readyChunkSizes \in Seq(ChunkPlan)
      /\ previousChunkSizeBytes = 0 /\ previousChunkSizeBytes' = chunk.size
      /\ handedOut' = handedOut + chunk.size
      /\ readyChunkSizes' = rest
      /\ UNCHANGED <<file, peeker, frontier, plan, origin>>
    BY DEF IInv, TypeOK, AlwaysInv, ReturnReadyChunk, ReturnChunk
<1>2. /\ pos \in Nat /\ fileSize \in Nat /\ handedOut \in Nat /\ origin \in Nat
      /\ pos = handedOut /\ origin <= fileSize
    BY <1>1 DEF IInv, TypeOK, AlwaysInv
<1>3. /\ queued \in Seq(ChunkPlan) /\ queued # <<>> /\ queued[1] = chunk
      /\ rest \in Seq(ChunkPlan) /\ Reverse(rest) = Tail(queued)
      /\ Len(rest) = Len(readyChunkSizes) - 1
      /\ \A k \in 1 .. Len(rest) : rest[k] = readyChunkSizes[k]
  <2>1. /\ rest \in Seq(ChunkPlan) /\ Reverse(rest) = Tail(queued)
        /\ Len(rest) = Len(readyChunkSizes) - 1
        /\ \A k \in 1 .. (Len(readyChunkSizes) - 1) : rest[k] = readyChunkSizes[k]
        /\ queued[1] = chunk
    BY <1>1, ReverseFront
  <2>2. queued \in Seq(ChunkPlan) /\ Len(queued) = Len(readyChunkSizes)
    BY <1>1, ReverseProperties
  <2>3. Len(readyChunkSizes) > 0
    BY <1>1, PlannedChunks
  <2>4. queued # <<>>
    BY <2>2, <2>3, PlannedChunks
  <2> QED
    BY <2>1, <2>2, <2>4
<1>4. Adjacent(queued, handedOut, origin) /\ EndBy(readyChunkSizes, origin)
    BY <1>1 DEF IInv, QueueInv
<1>5. chunk.size \in Nat /\ chunk.end \in Nat /\ chunk.end <= origin
  <2>1. /\ Len(readyChunkSizes) \in Nat /\ Len(readyChunkSizes) > 0
        /\ \A k \in 1 .. Len(readyChunkSizes) :
              readyChunkSizes[k].size \in Nat /\ readyChunkSizes[k].end \in Nat
    BY <1>1, PlannedChunks
  <2> QED
    BY <1>4, <2>1 DEF EndBy, Last
<1> HIDE DEF queued, chunk, rest
<1>6. chunk.end = handedOut + chunk.size /\ Adjacent(Tail(queued), chunk.end, origin)
    BY <1>3, <1>4, AdjacentTail
<1>7. TypeOK'
  <2>1. previousChunkSizeBytes' \in Nat /\ handedOut' \in Nat
    BY <1>1, <1>2, <1>5
  <2> QED
    BY <1>1, <1>3, <2>1 DEF IInv, TypeOK, file, peeker, plan
<1>8. AlwaysInv'
    BY <1>1, <1>2, <1>5, <1>6, FrontierKept DEF IInv, AlwaysInv, file, peeker
<1>9. QueueInv'
  <2>1. Adjacent(Reverse(rest), handedOut', origin)
    BY <1>1, <1>3, <1>6
  <2>2. EndBy(rest, origin)
    <3>1. Len(readyChunkSizes) \in Nat
      BY <1>1, PlannedChunks
    <3> QED
      BY <1>3, <1>4, <3>1 DEF EndBy
  <2> QED
    BY <1>1, <2>1, <2>2 DEF QueueInv, Adjacent, EndBy
<1> QED
    BY <1>1, <1>7, <1>8, <1>9 DEF IInv, PlanInv, RegionInv, WalkInv, RecomputeInv

\* An empty queue is one of adjacent chunks from a position to itself.
LEMMA EmptyQueue ==
    /\ <<>> \in Seq(ChunkPlan) /\ Len(<<>>) = 0 /\ Reverse(<<>>) = <<>>
    /\ \A x : EndBy(<<>>, x)
    /\ \A x, y : Adjacent(<<>>, x, y) <=> x = y
<1>1. <<>> \in Seq(ChunkPlan) /\ Len(<<>>) = 0
    BY EmptySeq
<1>2. Reverse(<<>>) \in Seq(ChunkPlan) /\ Len(Reverse(<<>>)) = 0
    BY <1>1, ReverseProperties
<1>3. Reverse(<<>>) = <<>>
    BY <1>2, PlannedChunks
<1> QED
    BY <1>1, <1>3 DEF EndBy, Adjacent

\* The rest of the file is one chunk only when no frontier is left: one would
\* have room for two.
LEMMA TailIInv ==
    ASSUME IInv, ReturnTail PROVE IInv'
<1> DEFINE size == Available(fileSize, pos)
<1>1. /\ pc = "peek" /\ pc' = "idle" /\ result' = "chunk"
      /\ readyChunkSizes = <<>>
      /\ size \in 1 .. (2 * MinSize - 1)
      /\ previousChunkSizeBytes = 0 /\ previousChunkSizeBytes' = size
      /\ handedOut' = handedOut + size /\ origin' = origin + size
      /\ UNCHANGED <<file, peeker, readyChunkSizes, frontier, plan>>
    BY DEF IInv, TypeOK, AlwaysInv, ReturnTail, ReturnChunk
<1>2. /\ pos \in Nat /\ fileSize \in Nat /\ handedOut \in Nat /\ origin \in Nat
      /\ pos = handedOut /\ origin <= fileSize
      /\ MinSize \in Nat /\ Horizon \in Nat
    BY <1>1, MinSizeAssumption, HorizonAssumption DEF IInv, TypeOK, AlwaysInv
<1>3. handedOut = origin
    BY <1>1, EmptyQueue DEF IInv, QueueInv
<1>4. size = fileSize - pos
    BY <1>1, <1>2 DEF Available, PeekSize
<1>5. ~HasFrontier
  <2>1. SUFFICES ASSUME HasFrontier PROVE FALSE
    OBVIOUS
  <2>2. /\ frontier.scannedOffset \in Nat
        /\ origin + frontier.scannedOffset + 2 * MinSize <= fileSize
    BY <2>1 DEF IInv, TypeOK, AlwaysInv, FrontierFits, Frontier
  <2> QED
    BY <1>1, <1>2, <1>3, <1>4, <2>2
<1> HIDE DEF size
<1>6. TypeOK'
    BY <1>1, <1>2, <1>3, <1>4 DEF IInv, TypeOK, file, peeker, plan
<1>7. AlwaysInv'
    BY <1>1, <1>2, <1>3, <1>4, <1>5 DEF IInv, AlwaysInv, HasFrontier, file, peeker
<1>8. QueueInv'
    BY <1>1, <1>3, EmptyQueue DEF QueueInv
<1> QED
    BY <1>1, <1>6, <1>7, <1>8 DEF IInv, PlanInv, RegionInv, WalkInv, RecomputeInv

-----------------------------------------------------------------------------
\* Frontiers

\* A frontier, its candidates and the scores it compares have their types.
LEMMA FrontierTypes ==
    ASSUME NEW f \in Frontier
    PROVE  /\ f.candidateOffsets \in Seq(Nat) /\ f.scannedOffset \in Nat
           /\ f.currentHash \in Nat /\ f.maximumHash \in Nat
           /\ Len(f.candidateOffsets) \in Nat
           /\ f.candidateOffsets # <<>> <=> Len(f.candidateOffsets) > 0
           /\ \A k \in 1 .. Len(f.candidateOffsets) : f.candidateOffsets[k] \in Nat
<1>1. /\ f.candidateOffsets \in Seq(Nat) /\ f.scannedOffset \in Nat
      /\ f.currentHash \in Nat /\ f.maximumHash \in Nat
    BY DEF Frontier
<1>2. /\ Len(f.candidateOffsets) \in Nat
      /\ \A k \in 1 .. Len(f.candidateOffsets) : f.candidateOffsets[k] \in Nat
    BY <1>1, ElementOfSeq, LenProperties
<1>3. f.candidateOffsets # <<>> <=> Len(f.candidateOffsets) > 0
    BY <1>1, <1>2, EmptySeq
<1> QED
    BY <1>1, <1>2, <1>3

\* A frontier that fits in this state and is the next one fits in the next.
LEMMA FitsNext ==
    ASSUME NEW f, NEW start, f = frontier', start = origin', UNCHANGED file,
           FrontierFits(f, start)
    PROVE  FrontierFits(frontier, origin)'
BY DEF FrontierFits, Increasing, Close, AreRecordMaxima, file

\* Before anything is scanned the first eligible cut is the only candidate.
LEMMA NewFrontierFits ==
    ASSUME TypeOK, NEW start \in Nat, start + 2 * MinSize <= fileSize
    PROVE  NewFrontier(start) \in Frontier /\ FrontierFits(NewFrontier(start), start)
<1> DEFINE f == NewFrontier(start)
<1>1. MinSize \in Nat /\ MinSize > 0 /\ fileSize \in Nat
    BY MinSizeAssumption DEF TypeOK
<1>2. /\ f.candidateOffsets = <<0>> /\ f.scannedOffset = 0
      /\ f.currentHash = start + MinSize /\ f.maximumHash = start + MinSize
      /\ f \in Frontier
    BY <1>1 DEF NewFrontier, InitialHash, Frontier
<1>3. score[start + MinSize] \in Nat
    BY <1>1 DEF TypeOK, CutsOf
<1> HIDE DEF f
<1>4. Increasing(<<0>>) /\ Close(<<0>>)
    BY DEF Increasing, Close
<1>5. AreRecordMaxima(<<0>>, start, 0)
    BY <1>1, <1>3 DEF AreRecordMaxima
<1> QED
    BY <1>1, <1>2, <1>4, <1>5 DEF FrontierFits, Last, f

\* The score of the cutting point at offset o of a chunk that begins at start.
At(start, o) == score[start + MinSize + o]

\* What it means to be the record maxima, without the case distinction for the
\* last of them.
LEMMA RecordMaxima ==
    ASSUME NEW c \in Seq(Nat), NEW start, NEW s \in Nat
    PROVE  AreRecordMaxima(c, start, s) <=>
             /\ Len(c) > 0 /\ c[1] = 0 /\ c[Len(c)] <= s
             /\ \A k \in 1 .. (Len(c) - 1) :
                   /\ \A o \in c[k] .. (c[k + 1] - 1) : At(start, o) <= At(start, c[k])
                   /\ c[k] < c[k + 1]
                   /\ At(start, c[k]) < At(start, c[k + 1])
             /\ \A o \in c[Len(c)] .. s : At(start, o) <= At(start, c[Len(c)])
<1> DEFINE n == Len(c)
<1>1. n \in Nat
    BY LenProperties
<1>2. AreRecordMaxima(c, start, s) <=>
        /\ n > 0 /\ c[1] = 0 /\ c[n] <= s
        /\ \A k \in 1 .. n : \A o \in c[k] .. (IF k < n THEN c[k + 1] - 1 ELSE s) :
              At(start, o) <= At(start, c[k])
        /\ \A k \in 1 .. (n - 1) : /\ c[k] < c[k + 1]
                                  /\ At(start, c[k]) < At(start, c[k + 1])
    BY Zenon DEF AreRecordMaxima, At
<1> HIDE DEF n
<1>3. ASSUME n > 0
      PROVE  (\A k \in 1 .. n : \A o \in c[k] .. (IF k < n THEN c[k + 1] - 1 ELSE s) :
                 At(start, o) <= At(start, c[k]))
             <=> /\ \A k \in 1 .. (n - 1) : \A o \in c[k] .. (c[k + 1] - 1) :
                       At(start, o) <= At(start, c[k])
                 /\ \A o \in c[n] .. s : At(start, o) <= At(start, c[n])
  <2>1. ASSUME \A k \in 1 .. n : \A o \in c[k] .. (IF k < n THEN c[k + 1] - 1 ELSE s) :
                   At(start, o) <= At(start, c[k])
        PROVE  /\ \A k \in 1 .. (n - 1) : \A o \in c[k] .. (c[k + 1] - 1) :
                       At(start, o) <= At(start, c[k])
               /\ \A o \in c[n] .. s : At(start, o) <= At(start, c[n])
    BY <1>1, <1>3, <2>1
  <2>2. ASSUME \A k \in 1 .. (n - 1) : \A o \in c[k] .. (c[k + 1] - 1) :
                   At(start, o) <= At(start, c[k]),
               \A o \in c[n] .. s : At(start, o) <= At(start, c[n]),
               NEW k \in 1 .. n,
               NEW o \in c[k] .. (IF k < n THEN c[k + 1] - 1 ELSE s)
        PROVE  At(start, o) <= At(start, c[k])
    <3>1. CASE k < n
      BY <1>1, <2>2, <3>1
    <3>2. CASE k = n
      BY <1>1, <2>2, <3>2
    <3> QED
      BY <1>1, <3>1, <3>2
  <2> QED
    BY <2>1, <2>2
<1> QED
    BY <1>2, <1>3 DEF n

\* A larger score than the last record's is the next record.
LEMMA RecordAppended ==
    ASSUME NEW c \in Seq(Nat), NEW s \in Nat, NEW start,
           AreRecordMaxima(c, start, s), At(start, s + 1) \in Nat,
           At(start, Last(c)) < At(start, s + 1)
    PROVE  AreRecordMaxima(Append(c, s + 1), start, s + 1)
<1> DEFINE n == Len(c)
           d == Append(c, s + 1)
<1>1. n \in Nat /\ \A k \in 1 .. n : c[k] \in Nat
    BY ElementOfSeq, LenProperties
<1>2. /\ d \in Seq(Nat) /\ Len(d) = n + 1 /\ d[n + 1] = s + 1
      /\ \A k \in 1 .. n : d[k] = c[k]
    BY <1>1, AppendProperties
<1>3. /\ n > 0 /\ c[1] = 0 /\ c[n] <= s
      /\ \A k \in 1 .. (n - 1) :
            /\ \A o \in c[k] .. (c[k + 1] - 1) : At(start, o) <= At(start, c[k])
            /\ c[k] < c[k + 1]
            /\ At(start, c[k]) < At(start, c[k + 1])
      /\ \A o \in c[n] .. s : At(start, o) <= At(start, c[n])
    BY RecordMaxima
<1>4. At(start, c[n]) < At(start, s + 1)
    BY DEF Last
<1> HIDE DEF n, d
<1>5. d[1] = 0
    BY <1>1, <1>2, <1>3
<1>6. ASSUME NEW k \in 1 .. (Len(d) - 1)
      PROVE  /\ \A o \in d[k] .. (d[k + 1] - 1) : At(start, o) <= At(start, d[k])
             /\ d[k] < d[k + 1]
             /\ At(start, d[k]) < At(start, d[k + 1])
  <2> k \in 1 .. n
    BY <1>1, <1>2
  <2>1. CASE k < n
    <3>1. d[k] = c[k] /\ d[k + 1] = c[k + 1] /\ k \in 1 .. (n - 1)
      BY <1>1, <1>2, <2>1
    <3> QED
      BY <1>3, <3>1
  <2>2. CASE k = n
    <3>1. d[k] = c[n] /\ d[k + 1] = s + 1 /\ c[n] \in Nat
      BY <1>1, <1>2, <1>3, <2>2
    <3> QED
      BY <1>3, <1>4, <3>1
  <2> QED
    BY <1>1, <2>1, <2>2
<1>7. \A o \in d[Len(d)] .. (s + 1) : At(start, o) <= At(start, d[Len(d)])
    BY <1>2
<1>8. Len(d) > 0 /\ d[Len(d)] <= s + 1 /\ s + 1 \in Nat
    BY <1>1, <1>2
<1>9. AreRecordMaxima(d, start, s + 1)
    BY <1>2, <1>5, <1>6, <1>7, <1>8, RecordMaxima
<1> QED
    BY <1>9 DEF d

\* Any other score leaves the records as they are.
LEMMA RecordsKept ==
    ASSUME NEW c \in Seq(Nat), NEW s \in Nat, NEW start,
           AreRecordMaxima(c, start, s),
           At(start, s + 1) <= At(start, Last(c))
    PROVE  AreRecordMaxima(c, start, s + 1)
<1> DEFINE n == Len(c)
<1>1. n \in Nat /\ \A k \in 1 .. n : c[k] \in Nat
    BY ElementOfSeq, LenProperties
<1>2. /\ n > 0 /\ c[1] = 0 /\ c[n] <= s
      /\ \A k \in 1 .. (n - 1) :
            /\ \A o \in c[k] .. (c[k + 1] - 1) : At(start, o) <= At(start, c[k])
            /\ c[k] < c[k + 1]
            /\ At(start, c[k]) < At(start, c[k + 1])
      /\ \A o \in c[n] .. s : At(start, o) <= At(start, c[n])
    BY RecordMaxima
<1>3. At(start, s + 1) <= At(start, c[n])
    BY DEF Last
<1> HIDE DEF n
<1>4. c[n] <= s + 1 /\ \A o \in c[n] .. (s + 1) : At(start, o) <= At(start, c[n])
    BY <1>1, <1>2, <1>3
<1> QED
    BY <1>2, <1>4, RecordMaxima DEF n

\* The next offset can be appended to candidates that end close before it.
LEMMA AppendSpaced ==
    ASSUME NEW c \in Seq(Nat), NEW s \in Nat, c # <<>>, Increasing(c), Close(c),
           Last(c) <= s, s + 1 - Last(c) < MinSize
    PROVE  LET d == Append(c, s + 1)
           IN  /\ d \in Seq(Nat) /\ d # <<>> /\ Last(d) = s + 1
               /\ Increasing(d) /\ Close(d)
<1> DEFINE n == Len(c)
           d == Append(c, s + 1)
<1>1. n \in Nat /\ n > 0 /\ \A k \in 1 .. n : c[k] \in Nat
    BY ElementOfSeq, EmptySeq
<1>2. /\ d \in Seq(Nat) /\ Len(d) = n + 1 /\ d[n + 1] = s + 1 /\ d # <<>>
      /\ \A k \in 1 .. n : d[k] = c[k]
    BY <1>1, AppendProperties
<1>3. /\ c[n] <= s /\ s + 1 - c[n] < MinSize
      /\ \A j, k \in 1 .. n : j < k => c[j] < c[k]
      /\ \A k \in 1 .. (n - 1) : c[k + 1] - c[k] < MinSize
    BY DEF Last, Increasing, Close
<1> HIDE DEF n, d
<1>4. ASSUME NEW k \in 1 .. n PROVE c[k] <= s
  <2>1. c[k] \in Nat /\ c[n] \in Nat /\ c[n] <= s
    BY <1>1, <1>3
  <2>2. k = n \/ c[k] < c[n]
    BY <1>1, <1>3
  <2> QED
    BY <2>1, <2>2
<1>5. ASSUME NEW j \in 1 .. (n + 1), NEW k \in 1 .. (n + 1), j < k PROVE d[j] < d[k]
  <2>1. j \in 1 .. n /\ d[j] = c[j] /\ c[j] \in Nat
    BY <1>1, <1>2, <1>5
  <2>2. CASE k \in 1 .. n
    BY <1>2, <1>3, <1>5, <2>1, <2>2
  <2>3. CASE k = n + 1
    BY <1>2, <1>4, <2>1, <2>3
  <2> QED
    BY <1>1, <2>2, <2>3
<1>6. ASSUME NEW k \in 1 .. n PROVE d[k + 1] - d[k] < MinSize
  <2>1. CASE k \in 1 .. (n - 1)
    <3>1. d[k] = c[k] /\ d[k + 1] = c[k + 1]
      BY <1>1, <1>2, <2>1
    <3> QED
      BY <1>3, <2>1, <3>1
  <2>2. CASE k = n
    BY <1>1, <1>2, <1>3, <2>2
  <2> QED
    BY <1>1, <2>1, <2>2
<1>7. Increasing(d) /\ Close(d) /\ Last(d) = s + 1
    BY <1>1, <1>2, <1>5, <1>6 DEF Increasing, Close, Last
<1> QED
    BY <1>2, <1>7 DEF d

\* One more byte: it becomes a candidate exactly when its score is larger than
\* the last candidate's, and so than everything before it.
LEMMA ScanByteFits ==
    ASSUME TypeOK, NEW c \in Seq(Nat), NEW s \in Nat, NEW start \in Nat,
           NEW i, NEW maximum, NEW f, FrontierFits(f, start),
           f = [candidateOffsets |-> c, scannedOffset |-> s,
                currentHash |-> i, maximumHash |-> maximum],
           start + s + 2 * MinSize < fileSize, s + 1 - Last(c) < MinSize
    PROVE  /\ ScanByte(f, i) \in Frontier
           /\ ScanByte(f, i).scannedOffset = s + 1
           /\ FrontierFits(ScanByte(f, i), start)
           /\ ScanByte(f, i).candidateOffsets \in {c, Append(c, s + 1)}
<1> DEFINE g == ScanByte(f, i)
           d == Append(c, s + 1)
<1>1. /\ i = start + MinSize + s /\ maximum = start + MinSize + Last(c)
      /\ c # <<>> /\ Increasing(c) /\ Close(c) /\ AreRecordMaxima(c, start, s)
    BY DEF FrontierFits
<1>2. fileSize \in Nat /\ MinSize \in Nat /\ MinSize > 0
    BY MinSizeAssumption DEF TypeOK
<1>3. Last(c) \in Nat /\ Last(c) <= s
  <2>1. Len(c) > 0 /\ c[Len(c)] <= s
    BY <1>1, RecordMaxima
  <2> QED
    BY <2>1, ElementOfSeq, LenProperties DEF Last
<1>4. At(start, s + 1) \in Nat /\ At(start, Last(c)) \in Nat
  <2>1. /\ start + MinSize + (s + 1) \in MinSize .. (fileSize - MinSize)
        /\ start + MinSize + Last(c) \in MinSize .. (fileSize - MinSize)
    BY <1>2, <1>3
  <2> QED
    BY <2>1 DEF TypeOK, CutsOf, At
<1>5. /\ i \in Nat /\ i + 1 \in Nat /\ i + 1 = start + MinSize + (s + 1)
      /\ maximum \in Nat /\ s + 1 \in Nat
      /\ start + (s + 1) + 2 * MinSize <= fileSize
      /\ (s + 1) - Last(c) < MinSize /\ (s + 1) - (s + 1) < MinSize
    BY <1>1, <1>2, <1>3
<1>6. /\ d \in Seq(Nat) /\ d # <<>> /\ Last(d) = s + 1
      /\ Increasing(d) /\ Close(d)
    BY <1>1, <1>3, AppendSpaced
<1>7. IsRecord(i + 1, maximum) <=> At(start, Last(c)) < At(start, s + 1)
    BY <1>1, <1>5 DEF IsRecord, At
<1>8. g = [candidateOffsets |-> IF IsRecord(i + 1, maximum) THEN d ELSE c,
           scannedOffset |-> s + 1,
           currentHash |-> i + 1,
           maximumHash |-> IF IsRecord(i + 1, maximum) THEN i + 1 ELSE maximum]
    BY DEF ScanByte, RollHash
<1> HIDE DEF g, d
<1>9. CASE IsRecord(i + 1, maximum)
  <2>1. g = [candidateOffsets |-> d, scannedOffset |-> s + 1,
             currentHash |-> i + 1, maximumHash |-> i + 1]
    BY <1>8, <1>9
  <2>2. g \in Frontier
    BY <1>5, <1>6, <2>1 DEF Frontier
  <2>3. AreRecordMaxima(d, start, s + 1)
    BY <1>1, <1>4, <1>7, <1>9, RecordAppended DEF d
  <2>4. FrontierFits(g, start)
    BY <1>5, <1>6, <2>1, <2>3 DEF FrontierFits
  <2> QED
    BY <2>1, <2>2, <2>4 DEF g, d
<1>10. CASE ~ IsRecord(i + 1, maximum)
  <2>1. g = [candidateOffsets |-> c, scannedOffset |-> s + 1,
             currentHash |-> i + 1, maximumHash |-> maximum]
    BY <1>8, <1>10
  <2>2. g \in Frontier
    BY <1>5, <2>1 DEF Frontier
  <2>3. AreRecordMaxima(c, start, s + 1)
    <3>1. At(start, s + 1) <= At(start, Last(c))
      BY <1>4, <1>7, <1>10
    <3> QED
      BY <1>1, <3>1, RecordsKept
  <2>4. FrontierFits(g, start)
    BY <1>1, <1>5, <2>1, <2>3 DEF FrontierFits
  <2> QED
    BY <2>1, <2>2, <2>4 DEF g
<1> QED
    BY <1>9, <1>10

\* The same, said of a frontier.
LEMMA ScanFrontierFits ==
    ASSUME TypeOK, NEW f \in Frontier, NEW start \in Nat, FrontierFits(f, start),
           start + f.scannedOffset + 2 * MinSize < fileSize,
           f.scannedOffset + 1 - Last(f.candidateOffsets) < MinSize
    PROVE  LET g == ScanByte(f, f.currentHash)
           IN  /\ g \in Frontier
               /\ g.scannedOffset = f.scannedOffset + 1
               /\ FrontierFits(g, start)
               /\ g.candidateOffsets \in
                      {f.candidateOffsets,
                       Append(f.candidateOffsets, f.scannedOffset + 1)}
<1>1. PICK c \in Seq(Nat), s \in Nat, i \in Nat, maximum \in Nat :
          f = [candidateOffsets |-> c, scannedOffset |-> s,
               currentHash |-> i, maximumHash |-> maximum]
    BY DEF Frontier
<1>2. /\ f.candidateOffsets = c /\ f.scannedOffset = s /\ f.currentHash = i
      /\ start + s + 2 * MinSize < fileSize /\ s + 1 - Last(c) < MinSize
    BY <1>1
<1>3. /\ ScanByte(f, i) \in Frontier
      /\ ScanByte(f, i).scannedOffset = s + 1
      /\ FrontierFits(ScanByte(f, i), start)
      /\ ScanByte(f, i).candidateOffsets \in {c, Append(c, s + 1)}
    BY <1>1, <1>2, ScanByteFits
<1> QED
    BY <1>2, <1>3

-----------------------------------------------------------------------------
\* The plan: scanning, and what the scan ends with

\* Where a plan begins: a new frontier's cursor is at the origin.
LEMMA StartsAtOrigin ==
    ASSUME IInv, StartPlan
    PROVE  frontier' = IF HasFrontier THEN frontier ELSE NewFrontier(pos)
<1>1. CASE HasFrontier
    BY <1>1 DEF StartPlan, HasFrontier
<1>2. CASE ~ HasFrontier
  <2>1. frontier' = [NewFrontier(pos) EXCEPT !.scannedOffset = 0]
    BY <1>2 DEF IInv, AlwaysInv, StartPlan, HasFrontier
  <2>2. [NewFrontier(pos) EXCEPT !.scannedOffset = 0] = NewFrontier(pos)
    BY DEF NewFrontier
  <2> QED
    BY <1>2, <2>1, <2>2
<1> QED
    BY <1>1, <1>2

\* A plan continues the frontier of the last one or begins a new one where
\* the Peeker stands: no chunk is queued, so that is the origin.
LEMMA StartPlanIInv ==
    ASSUME IInv, StartPlan PROVE IInv'
<1> DEFINE next == IF frontier.candidateOffsets = <<>> THEN NewFrontier(pos) ELSE frontier
           data == Available(fileSize, pos) - MinSize
<1>1. /\ pc = "peek" /\ pc' = "scan" /\ readyChunkSizes = <<>>
      /\ Available(fileSize, pos) >= 2 * MinSize
      /\ frontier' = next /\ dataLen' = data
      /\ hashEnd' = MinSize + next.scannedOffset
      /\ completedChunkSizes' = <<>> /\ previousChunkSizeBytes = 0
      /\ UNCHANGED <<file, peeker, previousChunkSizeBytes, readyChunkSizes, result,
                     region, walk, rebase, history>>
    BY StartsAtOrigin DEF IInv, AlwaysInv, StartPlan, HasFrontier
<1>2. /\ pos \in Nat /\ fileSize \in Nat /\ handedOut \in Nat /\ origin \in Nat
      /\ pos = handedOut /\ handedOut = origin /\ origin <= fileSize
      /\ MinSize \in Nat /\ Horizon \in Nat /\ frontier \in Frontier
    BY <1>1, EmptyQueue, MinSizeAssumption, HorizonAssumption
    DEF IInv, TypeOK, AlwaysInv, QueueInv
<1>3. /\ data \in Nat /\ pos + data + MinSize <= fileSize
      /\ pos + 2 * MinSize <= fileSize
    BY <1>1, <1>2 DEF Available, PeekSize
<1>4. next \in Frontier /\ FrontierFits(next, origin)
  <2>1. CASE frontier.candidateOffsets = <<>>
    BY <1>2, <1>3, <2>1, NewFrontierFits DEF IInv
  <2>2. CASE frontier.candidateOffsets # <<>>
    BY <1>2, <2>2 DEF IInv, AlwaysInv, HasFrontier
  <2> QED
    BY <2>1, <2>2
<1> HIDE DEF next, data
<1>5. next.scannedOffset \in Nat /\ next.candidateOffsets # <<>>
    BY <1>4, FrontierTypes DEF FrontierFits
<1>6. /\ MinSize + next.scannedOffset \in Nat
      /\ pos + (MinSize + next.scannedOffset) = origin + MinSize + next.scannedOffset
    BY <1>2, <1>5
<1>7. TypeOK'
    BY <1>1, <1>3, <1>4, <1>6, EmptyQueue DEF IInv, TypeOK, file, peeker, history
<1>8. AlwaysInv'
  <2>1. FrontierFits(frontier, origin)'
    BY <1>1, <1>4, FitsNext DEF history
  <2>2. HasFrontier'
    BY <1>1, <1>5 DEF HasFrontier
  <2> QED
    BY <1>1, <1>2, <2>1, <2>2 DEF IInv, AlwaysInv, file, peeker, history
<1>9. PlanInv'
  <2>1. HasFrontier'
    BY <1>1, <1>5 DEF HasFrontier
  <2>2. Adjacent(<<>>, handedOut, origin) /\ EndBy(<<>>, origin)
    BY <1>2, EmptyQueue
  <2>3. Adjacent(completedChunkSizes, handedOut, origin)' /\ EndBy(completedChunkSizes, origin)'
    BY <1>1, <2>2 DEF Adjacent, EndBy, history
  <2> QED
    BY <1>1, <1>3, <1>6, <2>1, <2>3 DEF PlanInv, file, peeker, history
<1> QED
    BY <1>1, <1>7, <1>8, <1>9 DEF IInv, QueueInv, RegionInv, WalkInv, RecomputeInv

\* What is known while a plan is made, by name and type.
LEMMA PlanFacts ==
    ASSUME IInv, pc \notin {"idle", "peek"}
    PROVE  /\ MinSize \in Nat /\ MinSize > 0 /\ fileSize \in Nat
           /\ pos \in Nat /\ handedOut \in Nat /\ origin \in Nat
           /\ dataLen \in Nat /\ hashEnd \in Nat
           /\ pos = handedOut /\ handedOut <= origin /\ origin <= fileSize
           /\ previousChunkSizeBytes = 0 /\ readyChunkSizes = <<>>
           /\ pos + hashEnd = origin + MinSize + frontier.scannedOffset
           /\ pos + dataLen + MinSize <= fileSize
           /\ frontier \in Frontier /\ FrontierFits(frontier, origin)
           /\ frontier.candidateOffsets \in Seq(Nat) /\ frontier.scannedOffset \in Nat
           /\ frontier.candidateOffsets # <<>>
           /\ Len(frontier.candidateOffsets) \in Nat /\ Len(frontier.candidateOffsets) > 0
           /\ Last(frontier.candidateOffsets) \in Nat
           /\ Last(frontier.candidateOffsets) <= frontier.scannedOffset
           /\ frontier.scannedOffset - Last(frontier.candidateOffsets) < MinSize
           /\ origin + frontier.scannedOffset + 2 * MinSize <= fileSize
<1>1. /\ fileSize \in Nat /\ pos \in Nat /\ handedOut \in Nat /\ origin \in Nat
      /\ dataLen \in Nat /\ hashEnd \in Nat /\ frontier \in Frontier
    BY DEF IInv, TypeOK
<1>2. /\ HasFrontier /\ FrontierFits(frontier, origin)
      /\ previousChunkSizeBytes = 0 /\ pos + previousChunkSizeBytes = handedOut
      /\ handedOut <= origin /\ origin <= fileSize
      /\ readyChunkSizes = <<>>
      /\ pos + hashEnd = origin + MinSize + frontier.scannedOffset
      /\ pos + dataLen + MinSize <= fileSize
    BY DEF IInv, AlwaysInv, PlanInv
<1>3. pos = handedOut
    BY <1>1, <1>2
<1> DEFINE c == frontier.candidateOffsets
           s == frontier.scannedOffset
<1>4. c \in Seq(Nat) /\ s \in Nat /\ c # <<>> /\ Len(c) \in Nat /\ Len(c) > 0
    BY <1>1, <1>2, FrontierTypes DEF HasFrontier
<1>5. /\ AreRecordMaxima(c, origin, s) /\ s - Last(c) < MinSize
      /\ origin + s + 2 * MinSize <= fileSize
    BY <1>2 DEF FrontierFits
<1> HIDE DEF c, s
<1>6. Last(c) \in Nat /\ Last(c) <= s
  <2>1. c[Len(c)] <= s
    BY <1>4, <1>5, RecordMaxima
  <2> QED
    BY <1>4, <2>1, ElementOfSeq DEF Last
<1> QED
    BY <1>1, <1>2, <1>3, <1>4, <1>5, <1>6, MinSizeAssumption DEF c, s

\* Steps of a plan that touch neither the frontier nor the completed chunks.
LEMMA PlanKept ==
    ASSUME IInv, pc \notin {"idle", "peek"}, pc' \notin {"idle", "peek"},
           UNCHANGED <<file, peeker, reader, dataLen, hashEnd, completedChunkSizes,
                       history>>
    PROVE  AlwaysInv' /\ QueueInv' /\ PlanInv'
<1>1. AlwaysInv'
    BY FrontierKept, PlanFacts DEF IInv, AlwaysInv, file, peeker, reader, history
<1>2. PlanInv'
    BY DEF IInv, PlanInv, HasFrontier, Adjacent, EndBy, file, peeker, reader, history
<1> QED
    BY <1>1, <1>2 DEF QueueInv

\* A region ends no later than where the last candidate becomes stable.
LEMMA StartRegionIInv ==
    ASSUME IInv, StartRegion PROVE IInv'
<1> DEFINE until == BytesUntilStable
           end == IF ReachesStabilityPoint THEN hashEnd + BytesUntilStable ELSE dataLen
<1>1. /\ pc = "scan" /\ pc' = "region" /\ hashEnd < dataLen
      /\ region' = [end |-> end, candidates |-> Len(frontier.candidateOffsets)]
      /\ UNCHANGED <<file, peeker, reader, result, dataLen, hashEnd,
                     completedChunkSizes, walk, rebase, history>>
    BY DEF StartRegion
<1>2. /\ hashEnd \in Nat /\ dataLen \in Nat /\ until \in Nat
      /\ Len(frontier.candidateOffsets) \in Nat
  <2> DEFINE s == frontier.scannedOffset
             l == Last(frontier.candidateOffsets)
  <2>1. /\ hashEnd \in Nat /\ dataLen \in Nat /\ MinSize \in Nat
        /\ Len(frontier.candidateOffsets) \in Nat
        /\ s \in Nat /\ l \in Nat /\ s - l < MinSize
        /\ until = l + MinSize - 1 - s
    BY <1>1, PlanFacts DEF BytesUntilStable
  <2> HIDE DEF until, s, l
  <2> QED
    BY <2>1
<1>3. end = IF dataLen - hashEnd > until THEN hashEnd + until ELSE dataLen
    BY DEF ReachesStabilityPoint
<1> HIDE DEF end, until
<1>4. /\ end \in Nat /\ hashEnd <= end /\ end <= dataLen /\ end - hashEnd <= until
      /\ end < dataLen => end - hashEnd = until
    BY <1>1, <1>2, <1>3
<1>5. TypeOK'
    BY <1>1, <1>2, <1>4 DEF IInv, TypeOK, file, peeker, reader, history
<1>6. AlwaysInv' /\ QueueInv' /\ PlanInv'
    BY <1>1, PlanKept
<1>7. RegionInv'
  <2>1. BytesUntilStable' = until
    BY <1>1 DEF BytesUntilStable, reader, until
  <2>2. region'.end = end /\ region'.candidates = Len(frontier.candidateOffsets)
    BY <1>1
  <2>3. hashEnd' = hashEnd /\ dataLen' = dataLen /\ frontier' = frontier
    BY <1>1 DEF reader
  <2> QED
    BY <1>2, <1>4, <2>1, <2>2, <2>3 DEF RegionInv, IsStable
<1> QED
    BY <1>1, <1>5, <1>6, <1>7 DEF IInv, WalkInv, RecomputeInv

\* A byte of a region: the cursor stays less than MinSize beyond the last
\* candidate because the region ends before it would not.
LEMMA HashByteIInv ==
    ASSUME IInv, HashByte PROVE IInv'
<1> DEFINE c == frontier.candidateOffsets
           s == frontier.scannedOffset
           i == pos + hashEnd
           g == ScanByte(frontier, i)
<1>1. /\ pc = "region" /\ pc' = "region" /\ hashEnd < region.end
      /\ frontier' = g /\ hashEnd' = hashEnd + 1
      /\ UNCHANGED <<file, peeker, previousChunkSizeBytes, readyChunkSizes, pc, result,
                     dataLen, region, completedChunkSizes, walk, rebase, history>>
    BY DEF HashByte
<1>2. /\ region.end <= dataLen /\ region.end - hashEnd <= Last(c) + MinSize - 1 - s
      /\ region.candidates <= Len(c)
      /\ region.end < dataLen /\ Len(c) = region.candidates
           => region.end - hashEnd = Last(c) + MinSize - 1 - s
      /\ region.end \in Nat /\ region.candidates \in Nat
    BY <1>1 DEF IInv, TypeOK, RegionInv, IsStable, BytesUntilStable
<1>3. /\ MinSize \in Nat /\ MinSize > 0 /\ fileSize \in Nat
      /\ pos \in Nat /\ origin \in Nat /\ dataLen \in Nat /\ hashEnd \in Nat
      /\ i = origin + MinSize + s /\ pos + dataLen + MinSize <= fileSize
      /\ frontier \in Frontier /\ FrontierFits(frontier, origin)
      /\ c \in Seq(Nat) /\ s \in Nat /\ Len(c) \in Nat /\ Last(c) \in Nat /\ Last(c) <= s
    BY <1>1, PlanFacts
<1>4. frontier.currentHash = i
    BY <1>3 DEF FrontierFits
<1> HIDE DEF c, s, i, g
<1>5. origin + s + 2 * MinSize < fileSize /\ s + 1 - Last(c) < MinSize
    BY <1>1, <1>2, <1>3 DEF i
<1>6. /\ g \in Frontier /\ g.scannedOffset = s + 1 /\ FrontierFits(g, origin)
      /\ g.candidateOffsets \in {c, Append(c, s + 1)}
  <2>1. TypeOK
    BY DEF IInv
  <2>2. /\ origin + frontier.scannedOffset + 2 * MinSize < fileSize
        /\ frontier.scannedOffset + 1 - Last(frontier.candidateOffsets) < MinSize
    BY <1>5 DEF c, s
  <2>3. LET h == ScanByte(frontier, frontier.currentHash)
        IN  /\ h \in Frontier
            /\ h.scannedOffset = frontier.scannedOffset + 1
            /\ FrontierFits(h, origin)
            /\ h.candidateOffsets \in
                   {frontier.candidateOffsets,
                    Append(frontier.candidateOffsets, frontier.scannedOffset + 1)}
    BY <1>3, <2>1, <2>2, ScanFrontierFits
  <2> QED
    BY <1>4, <2>3 DEF g, c, s
<1>7. TypeOK'
    BY <1>1, <1>3, <1>6 DEF IInv, TypeOK, file, peeker, history
<1>8. AlwaysInv'
  <2>1. FrontierFits(frontier, origin)'
    BY <1>1, <1>6, FitsNext DEF history
  <2>2. HasFrontier'
    BY <1>1, <1>6 DEF HasFrontier, FrontierFits
  <2> QED
    BY <1>1, <2>1, <2>2 DEF IInv, AlwaysInv, file, peeker, history
<1>9. PlanInv'
  <2>1. HasFrontier'
    BY <1>1, <1>6 DEF HasFrontier, FrontierFits
  <2>2. pos + (hashEnd + 1) = origin + MinSize + (s + 1)
    BY <1>3 DEF i
  <2>3. /\ readyChunkSizes = <<>> /\ Adjacent(completedChunkSizes, handedOut, origin)
        /\ EndBy(completedChunkSizes, origin)
    BY <1>1 DEF IInv, PlanInv
  <2>4. Adjacent(completedChunkSizes, handedOut, origin)' /\ EndBy(completedChunkSizes, origin)'
    BY <1>1, <2>3 DEF Adjacent, EndBy, history
  <2> QED
    BY <1>1, <1>3, <1>6, <2>1, <2>2, <2>3, <2>4 DEF PlanInv, file, peeker, history
<1>10. RegionInv'
  <2>1. /\ hashEnd + 1 <= region.end
        /\ region.end - (hashEnd + 1) <= Last(c) + MinSize - 1 - (s + 1)
        /\ region.end - (hashEnd + 1) <= (s + 1) + MinSize - 1 - (s + 1)
        /\ region.end < dataLen /\ Len(c) = region.candidates
              => region.end - (hashEnd + 1) = Last(c) + MinSize - 1 - (s + 1)
    <3> DEFINE l == Last(c)
               e == region.end
    <3>1. /\ hashEnd < e /\ e - hashEnd <= l + MinSize - 1 - s
          /\ hashEnd \in Nat /\ e \in Nat /\ l \in Nat /\ s \in Nat /\ MinSize \in Nat
          /\ l <= s
      BY <1>1, <1>2, <1>3
    <3>2. region.end < dataLen /\ Len(c) = region.candidates
            => e - hashEnd = l + MinSize - 1 - s
      BY <1>2
    <3> HIDE DEF l, e
    <3>3. /\ hashEnd + 1 <= e
          /\ e - (hashEnd + 1) <= l + MinSize - 1 - (s + 1)
          /\ e - (hashEnd + 1) <= (s + 1) + MinSize - 1 - (s + 1)
          /\ e - hashEnd = l + MinSize - 1 - s
               => e - (hashEnd + 1) = l + MinSize - 1 - (s + 1)
      BY <3>1
    <3> QED
      BY <3>2, <3>3 DEF l, e
  <2>2. BytesUntilStable' = Last(g.candidateOffsets) + MinSize - 1 - (s + 1)
    BY <1>1, <1>6 DEF BytesUntilStable
  <2>3. region' = region /\ dataLen' = dataLen /\ pc' = "region"
    BY <1>1
  <2>4. CASE g.candidateOffsets = c
    BY <1>1, <1>2, <2>1, <2>2, <2>3, <2>4 DEF RegionInv, IsStable
  <2>5. CASE g.candidateOffsets = Append(c, s + 1)
    <3>1. Len(Append(c, s + 1)) = Len(c) + 1 /\ Last(Append(c, s + 1)) = s + 1
      BY <1>3, AppendProperties DEF Last
    <3>2. Len(g.candidateOffsets) > region.candidates /\ Len(g.candidateOffsets) \in Nat
      BY <1>2, <1>3, <2>5, <3>1
    <3> QED
      BY <1>1, <1>2, <2>1, <2>2, <2>3, <2>5, <3>1, <3>2 DEF RegionInv, IsStable
  <2> QED
    BY <1>6, <2>4, <2>5
<1> QED
    BY <1>1, <1>7, <1>8, <1>9, <1>10 DEF IInv, QueueInv, WalkInv, RecomputeInv

\* Candidates are sorted and close; the last is the largest.
LEMMA CandidateFacts ==
    ASSUME IInv, pc \notin {"idle", "peek"}
    PROVE  LET c == frontier.candidateOffsets
           IN  /\ \A k \in 1 .. Len(c) : c[k] \in Nat /\ c[k] <= Last(c)
               /\ \A j, k \in 1 .. Len(c) : j < k => c[j] < c[k]
               /\ \A k \in 1 .. (Len(c) - 1) : c[k + 1] - c[k] < MinSize
               /\ c[1] = 0
<1> DEFINE c == frontier.candidateOffsets
           s == frontier.scannedOffset
           n == Len(c)
<1>1. /\ c \in Seq(Nat) /\ s \in Nat /\ n \in Nat /\ n > 0
      /\ FrontierFits(frontier, origin)
    BY PlanFacts
<1>2. /\ \A j, k \in 1 .. n : j < k => c[j] < c[k]
      /\ \A k \in 1 .. (n - 1) : c[k + 1] - c[k] < MinSize
      /\ AreRecordMaxima(c, origin, s)
    BY <1>1 DEF FrontierFits, Increasing, Close
<1> HIDE DEF c, s
<1>3. \A k \in 1 .. n : c[k] \in Nat
    BY <1>1, ElementOfSeq
<1>4. c[1] = 0
    BY <1>1, <1>2, RecordMaxima
<1> HIDE DEF n
<1>5. ASSUME NEW k \in 1 .. n PROVE c[k] <= c[n]
  <2>1. c[k] \in Nat /\ c[n] \in Nat
    BY <1>1, <1>3
  <2>2. k = n \/ c[k] < c[n]
    BY <1>1, <1>2
  <2> QED
    BY <2>1, <2>2
<1> QED
    BY <1>2, <1>3, <1>4, <1>5 DEF Last, c, n

\* A walk begins at the last candidate with nothing kept.
LEMMA WalkStarts ==
    ASSUME IInv, pc \notin {"idle", "peek"}, StartWalk, UNCHANGED <<frontier, origin>>
    PROVE  /\ walk' \in [selected : Nat, next : Int, batch : Seq(ChunkPlan)]
           /\ WalkFits' /\ BatchFits'
<1> DEFINE c == frontier.candidateOffsets
           n == Len(c)
<1>1. /\ n \in Nat /\ n > 0
      /\ \A k \in 1 .. (n - 1) : c[k + 1] - c[k] < MinSize
    BY PlanFacts, CandidateFacts
<1>2. walk' = [selected |-> n, next |-> n - 2, batch |-> <<>>]
    BY DEF StartWalk
<1> HIDE DEF c, n
<1>3. /\ n - 2 \in Int /\ n \in 1 .. n
      /\ n > 1 => n - 2 \in 0 .. (n - 2) /\ c[n] - c[(n - 2) + 1] < MinSize
  <2>1. n > 1 => n - 1 \in 1 .. (n - 1) /\ (n - 1) + 1 = n /\ (n - 2) + 1 = n - 1
    BY <1>1
  <2> QED
    BY <1>1, <2>1
<1>4. /\ walk'.selected = n /\ walk'.next = n - 2 /\ walk'.batch = <<>>
      /\ walk' \in [selected : Nat, next : Int, batch : Seq(ChunkPlan)]
    BY <1>1, <1>2, <1>3, EmptyQueue
<1>5. WalkFits'
    BY <1>3, <1>4 DEF WalkFits, SelectedOffset, c, n
<1>6. BatchFits'
  <2>1. Adjacent(<<>>, CutAt(n)', CutAt(n)') /\ EndBy(<<>>, CutAt(n)')
    BY EmptyQueue
  <2> QED
    BY <1>4, <2>1 DEF BatchFits, Adjacent, EndBy, CutAt, c, n
<1> QED
    BY <1>4, <1>5, <1>6

\* A region that ends where the last candidate became stable, without a new
\* one, makes the frontier stable.
LEMMA EndRegionIInv ==
    ASSUME IInv, EndRegion PROVE IInv'
<1>1. /\ pc = "region" /\ pc' \in {"scan", "stable"} /\ hashEnd = region.end
      /\ pc' = "stable" => IsStable /\ StartWalk
      /\ pc' = "scan" => walk' = walk
      /\ UNCHANGED <<file, peeker, reader, result, dataLen, hashEnd, region,
                     completedChunkSizes, rebase, history>>
    BY DEF EndRegion
<1>2. AlwaysInv' /\ QueueInv' /\ PlanInv'
    BY <1>1, PlanKept
<1>3. UNCHANGED <<frontier, origin>>
    BY <1>1 DEF reader, history
<1>4. CASE pc' = "scan"
  <2>1. TypeOK'
    BY <1>1, <1>4 DEF IInv, TypeOK, file, peeker, reader, history
  <2> QED
    BY <1>2, <1>4, <2>1 DEF IInv, RegionInv, WalkInv, RecomputeInv
<1>5. CASE pc' = "stable"
  <2>1. /\ walk' \in [selected : Nat, next : Int, batch : Seq(ChunkPlan)]
        /\ WalkFits' /\ BatchFits'
    BY <1>1, <1>3, <1>5, WalkStarts
  <2>2. TypeOK'
    BY <1>1, <1>5, <2>1 DEF IInv, TypeOK, file, peeker, reader, history
  <2>3. hashEnd < dataLen /\ BytesUntilStable = 0
    <3>1. hashEnd < dataLen /\ region.end - hashEnd = BytesUntilStable
      BY <1>1, <1>5 DEF IInv, RegionInv, IsStable
    <3>2. hashEnd \in Nat
      BY DEF IInv, TypeOK
    <3> QED
      BY <1>1, <3>1, <3>2
  <2>4. (hashEnd < dataLen /\ BytesUntilStable = 0)'
    BY <1>1, <1>3, <2>3 DEF BytesUntilStable
  <2> QED
    BY <1>2, <1>5, <2>1, <2>2, <2>4 DEF IInv, RegionInv, WalkInv, RecomputeInv
<1> QED
    BY <1>1, <1>4, <1>5

\* The walk that forces a cut, when no chunk was completed.
LEMMA StartForcedIInv ==
    ASSUME IInv, StartForced PROVE IInv'
<1>1. /\ pc = "scan" /\ pc' = "forced" /\ completedChunkSizes = <<>> /\ StartWalk
      /\ UNCHANGED <<file, peeker, reader, result, dataLen, hashEnd, region,
                     completedChunkSizes, rebase, history>>
    BY DEF StartForced
<1>2. AlwaysInv' /\ QueueInv' /\ PlanInv'
    BY <1>1, PlanKept
<1>3. /\ walk' \in [selected : Nat, next : Int, batch : Seq(ChunkPlan)]
      /\ WalkFits'
    BY <1>1, WalkStarts DEF reader, history
<1>4. TypeOK'
    BY <1>1, <1>3 DEF IInv, TypeOK, file, peeker, reader, history
<1> QED
    BY <1>1, <1>2, <1>3, <1>4 DEF IInv, RegionInv, WalkInv, RecomputeInv

\* While the selected candidate is not the chunk's own first cut, there is one
\* left to compare it with: the walks cannot leave the list.
LEMMA WalkIndices ==
    ASSUME IInv, pc \in {"stable", "forced"}
    PROVE  LET c == frontier.candidateOffsets
           IN  /\ walk.selected \in 1 .. Len(c)
               /\ SelectedOffset = c[walk.selected] /\ SelectedOffset \in Nat
               /\ SelectedOffset <= Last(c)
               /\ SelectedOffset >= MinSize =>
                     /\ walk.next \in 1 .. (walk.selected - 2)
                     /\ SelectedOffset - c[walk.next + 1] < MinSize
<1> DEFINE c == frontier.candidateOffsets
           n == Len(c)
           sel == walk.selected
           next == walk.next
<1>1. /\ n \in Nat /\ n > 0 /\ MinSize \in Nat /\ MinSize > 0
      /\ \A k \in 1 .. n : c[k] \in Nat /\ c[k] <= Last(c)
      /\ c[1] = 0
    BY PlanFacts, CandidateFacts
<1>2. /\ sel \in 1 .. n
      /\ sel > 1 => next \in 0 .. (sel - 2) /\ c[sel] - c[next + 1] < MinSize
      /\ SelectedOffset = c[sel]
    BY DEF IInv, WalkInv, WalkFits, SelectedOffset
<1> HIDE DEF c, n, sel, next
<1>3. c[sel] \in Nat /\ c[sel] <= Last(c)
    BY <1>1, <1>2
<1>4. ASSUME c[sel] >= MinSize
      PROVE  next \in 1 .. (sel - 2) /\ c[sel] - c[next + 1] < MinSize
  <2>1. sel # 1
    BY <1>1, <1>4
  <2>2. sel > 1
    BY <1>1, <1>2, <2>1
  <2>3. next # 0
    BY <1>1, <1>2, <1>3, <1>4, <2>2
  <2> QED
    BY <1>1, <1>2, <2>2, <2>3
<1> QED
    BY <1>2, <1>3, <1>4 DEF c, n, sel, next

\* A step of a walk takes the candidate or passes over it; a taken one is far
\* enough, but the one after it was not.
LEMMA WalkBackIInv ==
    ASSUME IInv, WalkBack PROVE IInv'
<1> DEFINE c == frontier.candidateOffsets
           n == Len(c)
           sel == walk.selected
           next == walk.next
           size == c[sel] - c[next]
           chunk == Chunk(size, CutAt(sel))
<1>1. /\ pc \in {"stable", "forced"} /\ c[sel] >= MinSize
      /\ walk' = IF size >= MinSize
                 THEN [selected |-> next, next |-> next - 2,
                       batch |-> IF pc = "stable" THEN <<chunk>> \o walk.batch
                                                  ELSE walk.batch]
                 ELSE [walk EXCEPT !.next = @ - 1]
      /\ UNCHANGED <<file, peeker, reader, pc, result, dataLen, hashEnd, region,
                     completedChunkSizes, rebase, history>>
    BY DEF WalkBack, FarEnough, SelectedOffset
<1>2. /\ n \in Nat /\ n > 0 /\ MinSize \in Nat /\ MinSize > 0
      /\ origin \in Nat /\ fileSize \in Nat
      /\ \A k \in 1 .. n : c[k] \in Nat /\ c[k] <= Last(c)
      /\ \A k \in 1 .. (n - 1) : c[k + 1] - c[k] < MinSize
      /\ \A j, k \in 1 .. n : j < k => c[j] < c[k]
      /\ Last(c) = c[n]
    BY <1>1, PlanFacts, CandidateFacts DEF Last
<1>3. /\ sel \in 1 .. n /\ c[sel] <= Last(c)
      /\ next \in 1 .. (sel - 2) /\ c[sel] - c[next + 1] < MinSize
    BY <1>1, WalkIndices DEF SelectedOffset
<1>4. /\ walk \in [selected : Nat, next : Int, batch : Seq(ChunkPlan)]
      /\ WalkFits
    BY <1>1 DEF IInv, TypeOK, WalkInv
<1>5. AlwaysInv' /\ QueueInv' /\ PlanInv'
    BY <1>1, PlanKept
<1>6. UNCHANGED <<frontier, origin>>
    BY <1>1 DEF reader, history
<1>7. ASSUME walk' \in [selected : Nat, next : Int, batch : Seq(ChunkPlan)],
             WalkFits', pc = "stable" => BatchFits'
      PROVE  IInv'
  <2>1. TypeOK'
    BY <1>1, <1>7 DEF IInv, TypeOK, file, peeker, reader, history
  <2>2. WalkInv'
    <3>1. (hashEnd < dataLen /\ BytesUntilStable = 0)' <=> hashEnd < dataLen /\ BytesUntilStable = 0
      BY <1>1, <1>6 DEF BytesUntilStable
    <3> QED
      BY <1>1, <1>7, <3>1 DEF IInv, WalkInv
  <2> QED
    BY <1>1, <1>5, <2>1, <2>2 DEF IInv, RegionInv, RecomputeInv
<1> HIDE DEF sel, next, n, c, size, chunk
<1>8. c[next] \in Nat /\ c[sel] \in Nat /\ next \in 1 .. n /\ next + 1 \in 1 .. n
      /\ c[next + 1] \in Nat /\ c[next + 1] - c[next] < MinSize
  <2>1. next \in 1 .. (n - 1) /\ next \in 1 .. n /\ next + 1 \in 1 .. n
    BY <1>2, <1>3
  <2> QED
    BY <1>2, <1>3, <2>1
<1>9. CASE size >= MinSize
  <2>1. /\ walk'.selected = next /\ walk'.next = next - 2
        /\ walk'.batch = IF pc = "stable" THEN <<chunk>> \o walk.batch ELSE walk.batch
    BY <1>1, <1>9
  <2>2. size \in Nat /\ size \in MinSize .. (2 * MinSize - 1)
    BY <1>2, <1>3, <1>8, <1>9 DEF size
  <2>3. WalkFits'
    <3>1. next > 1 => /\ next - 2 \in 0 .. (next - 2)
                     /\ c[next] - c[(next - 2) + 1] < MinSize
      <4>1. next > 1 => /\ next - 1 \in 1 .. (n - 1) /\ (next - 1) + 1 = next
                       /\ (next - 2) + 1 = next - 1
        BY <1>2, <1>8
      <4> QED
        BY <1>2, <1>8, <4>1
    <3>2. Last(c) - c[next] >= MinSize
      <4>1. Last(c) \in Nat
        BY <1>2
      <4> QED
        BY <1>2, <1>3, <1>8, <1>9, <4>1 DEF size
    <3> QED
      BY <1>6, <1>8, <2>1, <3>1, <3>2 DEF WalkFits, SelectedOffset, c, n
  <2>4. CASE pc = "stable"
    <3>1. /\ CutAt(sel) \in Nat /\ CutAt(next) \in Nat /\ CutAt(n) \in Nat
          /\ CutAt(sel) - size = CutAt(next) /\ CutAt(sel) <= CutAt(n)
      BY <1>2, <1>3, <1>8 DEF CutAt, size, c
    <3>2. chunk \in ChunkPlan /\ chunk.size = size /\ chunk.end = CutAt(sel)
      BY <2>2, <3>1 DEF Chunk, ChunkPlan, chunk
    <3>3. <<chunk>> \in Seq(ChunkPlan) /\ Adjacent(<<chunk>>, CutAt(next), CutAt(sel))
      BY <3>1, <3>2, AdjacentSingle
    <3>4. EndBy(<<chunk>>, CutAt(sel))
      BY <2>2, <3>1, <3>2 DEF EndBy
    <3>5. /\ walk.batch \in Seq(ChunkPlan)
          /\ Adjacent(walk.batch, CutAt(sel), CutAt(n)) /\ EndBy(walk.batch, CutAt(n))
      BY <1>4, <2>4 DEF IInv, WalkInv, BatchFits, sel, n, c
    <3>6. /\ <<chunk>> \o walk.batch \in Seq(ChunkPlan)
          /\ Adjacent(<<chunk>> \o walk.batch, CutAt(next), CutAt(n))
      BY <3>3, <3>5, AdjacentConcat, ConcatProperties
    <3>7. EndBy(walk.batch, CutAt(n)) /\ EndBy(<<chunk>>, CutAt(n))
      BY <3>1, <3>2, <3>4, <3>5 DEF EndBy
    <3>8. EndBy(<<chunk>> \o walk.batch, CutAt(n))
      <4>1. CutAt(n) \in Int /\ CutAt(n) <= CutAt(n)
        BY <3>1
      <4> HIDE DEF chunk
      <4> QED
        BY <3>3, <3>5, <3>7, <4>1, EndByConcat
    <3>9. walk'.batch = <<chunk>> \o walk.batch
      BY <2>1, <2>4
    <3>10. BatchFits'
      <4>1. CutAt(walk.selected)' = CutAt(next)
        BY <1>6, <2>1 DEF CutAt
      <4>2. CutAt(Len(frontier.candidateOffsets))' = CutAt(n)
        BY <1>6 DEF CutAt, n, c
      <4> QED
        BY <3>6, <3>8, <3>9, <4>1, <4>2 DEF BatchFits, Adjacent, EndBy
    <3>11. walk' \in [selected : Nat, next : Int, batch : Seq(ChunkPlan)]
      <4>1. walk' = [selected |-> next, next |-> next - 2, batch |-> <<chunk>> \o walk.batch]
        BY <1>1, <1>9, <2>4
      <4> QED
        BY <1>8, <3>6, <4>1
    <3> QED
      BY <1>7, <2>3, <3>10, <3>11
  <2>5. CASE pc # "stable"
    <3>1. walk'.batch = walk.batch /\ walk.batch \in Seq(ChunkPlan)
      BY <1>4, <2>1, <2>5
    <3>2. walk' \in [selected : Nat, next : Int, batch : Seq(ChunkPlan)]
      <4>1. walk' = [selected |-> next, next |-> next - 2, batch |-> walk.batch]
        BY <1>1, <1>9, <2>5
      <4> QED
        BY <1>8, <3>1, <4>1
    <3> QED
      BY <1>7, <2>3, <2>5, <3>2
  <2> QED
    BY <2>4, <2>5
<1>10. CASE ~ (size >= MinSize)
  <2>1. /\ walk'.selected = sel /\ walk'.next = next - 1 /\ walk'.batch = walk.batch
        /\ walk' \in [selected : Nat, next : Int, batch : Seq(ChunkPlan)]
    BY <1>1, <1>4, <1>8, <1>10 DEF sel, next
  <2>2. /\ next - 1 \in 0 .. (sel - 2) /\ (next - 1) + 1 = next
        /\ c[sel] - c[next] < MinSize
    BY <1>2, <1>3, <1>8, <1>10 DEF size
  <2>3. WalkFits'
    BY <1>4, <1>6, <2>1, <2>2 DEF WalkFits, SelectedOffset, c, n, sel
  <2>4. pc = "stable" => BatchFits'
    BY <1>6, <2>1 DEF IInv, WalkInv, BatchFits, Adjacent, EndBy, CutAt, sel
  <2> QED
    BY <1>7, <2>1, <2>3, <2>4
<1> QED
    BY <1>9, <1>10

\* The batch continues the completed chunks up to the last candidate's cut,
\* where a new frontier begins one byte after the cursor.
LEMMA FinishStableIInv ==
    ASSUME IInv, FinishStable PROVE IInv'
<1> DEFINE c == frontier.candidateOffsets
           s == frontier.scannedOffset
           first == MinSize + SelectedOffset
           next == origin + MinSize + Last(c)
           chunk == Chunk(first, CutAt(walk.selected))
           chunks == completedChunkSizes \o <<chunk>>
           all == chunks \o walk.batch
<1>1. /\ pc = "stable" /\ pc' = "scan" /\ SelectedOffset < MinSize
      /\ completedChunkSizes' = all
      /\ frontier' = StableFrontier /\ hashEnd' = hashEnd + 1
      /\ origin' = next /\ walk' = NoWalk
      /\ UNCHANGED <<file, peeker, previousChunkSizeBytes, readyChunkSizes, result,
                     dataLen, region, rebase, handedOut>>
    BY DEF FinishStable
<1>2. /\ MinSize \in Nat /\ MinSize > 0 /\ fileSize \in Nat
      /\ pos \in Nat /\ handedOut \in Nat /\ origin \in Nat
      /\ dataLen \in Nat /\ hashEnd \in Nat
      /\ pos = handedOut /\ handedOut <= origin /\ origin <= fileSize
      /\ previousChunkSizeBytes = 0 /\ readyChunkSizes = <<>>
      /\ pos + hashEnd = origin + MinSize + s
      /\ pos + dataLen + MinSize <= fileSize
      /\ FrontierFits(frontier, origin)
      /\ c \in Seq(Nat) /\ s \in Nat /\ Len(c) \in Nat /\ Len(c) > 0
      /\ Last(c) \in Nat
    BY <1>1, PlanFacts
<1>3. /\ SelectedOffset \in Nat /\ SelectedOffset <= Last(c)
      /\ CutAt(walk.selected) = origin + MinSize + SelectedOffset
    BY <1>1, WalkIndices DEF CutAt, SelectedOffset
<1>4. /\ hashEnd < dataLen /\ Last(c) + MinSize - 1 - s = 0 /\ BatchFits
      /\ Adjacent(completedChunkSizes, handedOut, origin) /\ EndBy(completedChunkSizes, origin)
      /\ completedChunkSizes \in Seq(ChunkPlan) /\ walk.batch \in Seq(ChunkPlan)
    BY <1>1 DEF IInv, TypeOK, WalkInv, PlanInv, BytesUntilStable
<1>5. /\ frontier.currentHash = pos + hashEnd /\ c[1] = 0
    BY <1>1, <1>2, CandidateFacts DEF FrontierFits
<1> HIDE DEF first, next, c, s, chunk, chunks, all
<1>6. /\ next \in Nat /\ origin <= next /\ next + 2 * MinSize <= fileSize
      /\ pos + (hashEnd + 1) = next + MinSize
      /\ first \in Nat /\ first \in MinSize .. (2 * MinSize - 1)
      /\ origin + first <= next /\ (origin + first) - first = origin
      /\ CutAt(walk.selected) = origin + first /\ CutAt(walk.selected) \in Nat
  <2>1. next = origin + MinSize + Last(c) /\ first = MinSize + SelectedOffset
    BY DEF next, first
  <2>2. next \in Nat /\ origin <= next /\ first \in Nat /\ origin + first <= next
    BY <1>2, <1>3, <2>1
  <2>3. pos + (hashEnd + 1) = next + MinSize
    <3> DEFINE l == Last(c)
    <3>1. /\ MinSize \in Nat /\ pos \in Nat /\ hashEnd \in Nat /\ origin \in Nat
          /\ l \in Nat /\ s \in Nat
          /\ pos + hashEnd = origin + MinSize + s /\ l + MinSize - 1 - s = 0
          /\ next = origin + MinSize + l
      BY <1>2, <1>4, <2>1
    <3> HIDE DEF l
    <3> QED
      BY <3>1
  <2>4. next + 2 * MinSize <= fileSize
    BY <1>2, <1>4, <2>2, <2>3
  <2> QED
    BY <1>1, <1>2, <1>3, <2>1, <2>2, <2>3, <2>4
<1>7. StableFrontier = NewFrontier(next)
  <2>1. RollHash(frontier.currentHash, pos + hashEnd) = InitialHash(next + MinSize)
    BY <1>2, <1>5, <1>6 DEF RollHash, InitialHash
  <2>2. SubSeq(c, 1, 1) = <<0>>
    <3> DEFINE sub == SubSeq(c, 1, 1)
    <3>1. \A k \in 1 .. 1 : c[k] \in Nat
      BY <1>5
    <3>2. /\ sub \in Seq(Nat)
          /\ Len(sub) = IF 1 <= 1 THEN 1 - 1 + 1 ELSE 0
          /\ \A k \in 1 .. (1 - 1 + 1) : sub[k] = c[1 + k - 1]
      BY <3>1, SubSeqProperties
    <3> HIDE DEF sub
    <3>3. Len(sub) = 1 /\ sub[1] = 0
      BY <1>5, <3>2
    <3>4. <<0>> \in Seq(Nat) /\ Len(<<0>>) = 1 /\ <<0>>[1] = 0
      OBVIOUS
    <3>5. \A k \in 1 .. Len(sub) : sub[k] = <<0>>[k]
      BY <3>3
    <3>6. sub = <<0>>
      BY <3>2, <3>3, <3>4, <3>5, SeqEqual
    <3> QED
      BY <3>6 DEF sub
  <2> QED
    BY <2>1, <2>2 DEF StableFrontier, NewFrontier, c
<1>8. NewFrontier(next) \in Frontier /\ FrontierFits(NewFrontier(next), next)
    BY <1>6, NewFrontierFits DEF IInv
<1>9. all \in Seq(ChunkPlan) /\ Adjacent(all, handedOut, next) /\ EndBy(all, next)
  <2>1. /\ chunk \in ChunkPlan /\ chunk.size = first /\ chunk.end = origin + first
    BY <1>6 DEF Chunk, ChunkPlan, chunk
  <2>2. <<chunk>> \in Seq(ChunkPlan) /\ Adjacent(<<chunk>>, origin, origin + first)
    BY <1>6, <2>1, AdjacentSingle
  <2>3. EndBy(<<chunk>>, origin + first)
    BY <1>2, <1>6, <2>1 DEF EndBy
  <2>4. origin + first \in Int /\ origin \in Int /\ origin <= origin + first /\ next \in Int
    BY <1>2, <1>6
  <2> HIDE DEF chunk
  <2>5. /\ chunks \in Seq(ChunkPlan) /\ Adjacent(chunks, handedOut, origin + first)
        /\ EndBy(chunks, origin + first)
    BY <1>4, <2>2, <2>3, <2>4, AdjacentConcat, EndByConcat, ConcatProperties DEF chunks
  <2>6. Adjacent(walk.batch, origin + first, next) /\ EndBy(walk.batch, next)
    <3>1. CutAt(Len(frontier.candidateOffsets)) = next
      BY DEF CutAt, next, c, Last
    <3> QED
      BY <1>4, <1>6, <3>1 DEF BatchFits
  <2> QED
    BY <1>4, <1>6, <2>4, <2>5, <2>6, AdjacentConcat, EndByConcat, ConcatProperties DEF all
<1>10. TypeOK'
  <2>1. NoWalk \in [selected : Nat, next : Int, batch : Seq(ChunkPlan)]
    BY EmptyQueue DEF NoWalk
  <2>2. hashEnd + 1 \in Nat
    BY <1>2
  <2> QED
    BY <1>1, <1>6, <1>7, <1>8, <1>9, <2>1, <2>2 DEF IInv, TypeOK, file, peeker
<1>11. AlwaysInv'
  <2>1. FrontierFits(frontier, origin)'
    BY <1>1, <1>7, <1>8, FitsNext
  <2>2. handedOut <= next /\ next <= fileSize
    BY <1>2, <1>6
  <2>3. HasFrontier'
    BY <1>1, <1>7 DEF HasFrontier, NewFrontier
  <2> QED
    BY <1>1, <1>2, <2>1, <2>2, <2>3 DEF IInv, AlwaysInv, file, peeker
<1>12. PlanInv'
  <2>1. frontier'.candidateOffsets # <<>> /\ frontier'.scannedOffset = 0
    BY <1>1, <1>7 DEF NewFrontier
  <2>2. pos + (hashEnd + 1) = next + MinSize + 0
    BY <1>6, <1>2
  <2>3. Adjacent(completedChunkSizes, handedOut, origin)' /\ EndBy(completedChunkSizes, origin)'
    BY <1>1, <1>9 DEF Adjacent, EndBy
  <2> QED
    BY <1>1, <1>2, <2>1, <2>2, <2>3 DEF PlanInv, HasFrontier, file, peeker
<1> QED
    BY <1>1, <1>10, <1>11, <1>12 DEF IInv, QueueInv, RegionInv, WalkInv, RecomputeInv

\* The first completed chunk is returned and the others wait in the queue.
LEMMA ReturnCompletedIInv ==
    ASSUME IInv, ReturnCompletedChunk PROVE IInv'
<1> DEFINE chunks == completedChunkSizes
           rest == Tail(chunks)
           first == chunks[1]
<1>1. /\ pc = "scan" /\ pc' = "idle" /\ chunks # <<>> /\ result' = "chunk"
      /\ readyChunkSizes' = Reverse(rest)
      /\ previousChunkSizeBytes' = first.size
      /\ handedOut' = handedOut + first.size
      /\ completedChunkSizes' = <<>>
      /\ UNCHANGED <<file, peeker, frontier, dataLen, hashEnd, region, walk, rebase,
                     origin>>
    BY DEF ReturnCompletedChunk, ReturnChunk, Queue
<1>2. /\ chunks \in Seq(ChunkPlan)
      /\ Adjacent(chunks, handedOut, origin) /\ EndBy(chunks, origin)
    BY <1>1 DEF IInv, TypeOK, PlanInv
<1>3. /\ pos \in Nat /\ handedOut \in Nat /\ origin \in Nat /\ origin <= fileSize
      /\ pos = handedOut
    BY <1>1, PlanFacts
<1>4. /\ Len(chunks) \in Nat /\ Len(chunks) > 0
      /\ first.size \in Nat /\ first.end \in Nat /\ first.end <= origin
  <2>1. Len(chunks) \in Nat /\ Len(chunks) > 0
    BY <1>1, <1>2, PlannedChunks
  <2> QED
    BY <1>2, <2>1, PlannedChunks DEF EndBy
<1>5. first.end = handedOut + first.size /\ Adjacent(rest, first.end, origin)
    BY <1>1, <1>2, AdjacentTail
<1>6. /\ rest \in Seq(ChunkPlan) /\ Len(rest) = Len(chunks) - 1
      /\ \A k \in 1 .. Len(rest) : rest[k] = chunks[k + 1]
    BY <1>1, <1>2, HeadTailProperties
<1> HIDE DEF rest, first
<1>7. /\ Reverse(rest) \in Seq(ChunkPlan) /\ Reverse(Reverse(rest)) = rest
      /\ Len(Reverse(rest)) = Len(rest)
      /\ \A k \in 1 .. Len(rest) : Reverse(rest)[k] = rest[Len(rest) + 1 - k]
    BY <1>6, ReverseProperties, ReverseTwice
<1>8. EndBy(Reverse(rest), origin)
  <2> SUFFICES ASSUME NEW k \in 1 .. Len(Reverse(rest))
               PROVE  /\ Reverse(rest)[k].end <= origin
                      /\ Reverse(rest)[k].size \in MinSize .. (2 * MinSize - 1)
    BY DEF EndBy
  <2>1. /\ Reverse(rest)[k] = rest[Len(rest) + 1 - k]
        /\ Len(rest) + 1 - k \in 1 .. Len(rest)
    BY <1>4, <1>6, <1>7
  <2>2. PICK j \in 1 .. Len(rest) : Reverse(rest)[k] = rest[j]
    BY <2>1
  <2> HIDE DEF chunks
  <2>3. Reverse(rest)[k] = chunks[j + 1] /\ j + 1 \in 1 .. Len(chunks)
    BY <1>4, <1>6, <2>2
  <2> QED
    BY <1>2, <2>3 DEF EndBy
<1>9. TypeOK'
  <2>1. handedOut + first.size \in Nat
    BY <1>3, <1>4
  <2> QED
    BY <1>1, <1>4, <1>7, <2>1, EmptyQueue DEF IInv, TypeOK, file, peeker
<1>10. AlwaysInv'
    BY <1>1, <1>3, <1>4, <1>5, FrontierKept DEF IInv, AlwaysInv, file, peeker
<1>11. QueueInv'
  <2>1. Adjacent(Reverse(Reverse(rest)), first.end, origin)
    BY <1>5, <1>7
  <2> QED
    BY <1>1, <1>5, <1>8, <2>1 DEF QueueInv, Adjacent, EndBy
<1> QED
    BY <1>1, <1>9, <1>10, <1>11 DEF IInv, PlanInv, RegionInv, WalkInv, RecomputeInv

-----------------------------------------------------------------------------
\* Forced cuts: rebasing and recomputing the frontier

\* A set of natural numbers that is not empty has a smallest element.
LEMMA Minimum ==
    ASSUME NEW S \in SUBSET Nat, S # {}
    PROVE  Min(S) \in S /\ \A y \in S : Min(S) <= y
<1> DEFINE R == OpToRel(<, Nat)
<1>1. IsWellFoundedOn(R, Nat)
    BY NatLessThanWellFounded
<1>2. \A x, y \in Nat : <<y, x>> \in R <=> y < x
    BY DEF OpToRel
<1> HIDE DEF R
<1>3. PICK x \in S : \A y \in S : ~ (<<y, x>> \in R)
    BY <1>1, WFMin
<1>4. ASSUME NEW y \in S PROVE x <= y
  <2>1. x \in Nat /\ y \in Nat /\ ~ (y < x)
    BY <1>2, <1>3
  <2> QED
    BY <2>1
<1> QED
    BY <1>4 DEF Min

\* The scores are those of the file, wherever the chunk is said to begin.
LEMMA AtShift ==
    ASSUME NEW start \in Nat, NEW first \in Nat, NEW o \in Int
    PROVE  At(start + first, o) = At(start, first + o)
<1>1. start + first + MinSize + o = start + MinSize + (first + o)
    BY MinSizeAssumption
<1> QED
    BY <1>1 DEF At

\* The records of a list but for the first being at the chunk's first cut.
RecordTail(d, start, s) ==
    /\ Len(d) > 0 /\ d[Len(d)] <= s
    /\ \A k \in 1 .. (Len(d) - 1) :
          /\ \A o \in d[k] .. (d[k + 1] - 1) : At(start, o) <= At(start, d[k])
          /\ d[k] < d[k + 1]
          /\ At(start, d[k]) < At(start, d[k + 1])
    /\ \A o \in d[Len(d)] .. s : At(start, o) <= At(start, d[Len(d)])

\* The candidates from the r-th on, seen from a chunk that begins first bytes
\* later.
IsShifted(d, c, r, first) ==
    /\ d \in Seq(Nat)
    /\ Len(d) = Len(c) + 1 - r
    /\ \A k \in 1 .. Len(d) : d[k] = c[r + k - 1] - first

\* They are still records, sorted and close.
LEMMA ShiftedFits ==
    ASSUME NEW c \in Seq(Nat), NEW s \in Nat, NEW start \in Nat,
           AreRecordMaxima(c, start, s), Increasing(c), Close(c),
           NEW first \in Nat, first <= s,
           NEW r \in 1 .. Len(c), NEW d, IsShifted(d, c, r, first)
    PROVE  /\ RecordTail(d, start + first, s - first)
           /\ Increasing(d) /\ Close(d) /\ Last(d) = Last(c) - first
<1> DEFINE n == Len(c)
           m == Len(d)
<1>1. /\ n \in Nat /\ m \in Nat /\ m = n + 1 - r /\ m > 0
      /\ \A k \in 1 .. n : c[k] \in Nat
      /\ \A k \in 1 .. m : d[k] \in Nat
  <2>1. d \in Seq(Nat) /\ m = n + 1 - r
    BY DEF IsShifted
  <2>2. n \in Nat /\ m \in Nat
    BY <2>1, LenProperties
  <2>3. \A k \in 1 .. n : c[k] \in Nat
    BY ElementOfSeq
  <2>4. \A k \in 1 .. m : d[k] \in Nat
    BY <2>1, ElementOfSeq
  <2> HIDE DEF n, m
  <2>5. m > 0
    <3>1. r \in 1 .. n
      BY DEF n
    <3> QED
      BY <2>1, <2>2, <3>1
  <2> QED
    BY <2>1, <2>2, <2>3, <2>4, <2>5
<1>2. \A k \in 1 .. m : d[k] = c[r + k - 1] - first
    BY DEF IsShifted
<1>3. /\ c[n] <= s
      /\ \A k \in 1 .. (n - 1) :
            /\ \A o \in c[k] .. (c[k + 1] - 1) : At(start, o) <= At(start, c[k])
            /\ c[k] < c[k + 1]
            /\ At(start, c[k]) < At(start, c[k + 1])
      /\ \A o \in c[n] .. s : At(start, o) <= At(start, c[n])
    BY RecordMaxima
<1>4. /\ \A j, k \in 1 .. n : j < k => c[j] < c[k]
      /\ \A k \in 1 .. (n - 1) : c[k + 1] - c[k] < MinSize
    BY DEF Increasing, Close
<1>5. MinSize \in Nat
    BY MinSizeAssumption
<1> HIDE DEF n, m
<1>6. ASSUME NEW k \in 1 .. m
      PROVE  \E i \in r .. n : i = r + k - 1 /\ i \in 1 .. n /\ d[k] = c[i] - first
    BY <1>1, <1>2
<1>7. ASSUME NEW k \in 1 .. (m - 1)
      PROVE  \E i \in r .. (n - 1) : /\ i \in 1 .. (n - 1) /\ i = r + k - 1
                                    /\ d[k] = c[i] - first /\ d[k + 1] = c[i + 1] - first
                                    /\ c[i] \in Nat /\ c[i + 1] \in Nat
  <2>1. /\ r + k - 1 \in r .. (n - 1) /\ r + k - 1 \in 1 .. (n - 1)
        /\ r + (k + 1) - 1 = (r + k - 1) + 1
        /\ k \in 1 .. m /\ k + 1 \in 1 .. m
    BY <1>1
  <2>2. r + k - 1 \in 1 .. n /\ (r + k - 1) + 1 \in 1 .. n
    BY <1>1, <2>1
  <2> QED
    BY <1>1, <1>2, <2>1, <2>2
<1>8. d[m] = c[n] - first /\ c[n] \in Nat
  <2>1. m \in 1 .. m /\ r + m - 1 = n /\ n \in 1 .. n
    BY <1>1
  <2> QED
    BY <1>1, <1>2, <2>1
<1>9. ASSUME NEW i \in 1 .. n, NEW k \in 1 .. m, d[k] = c[i] - first
      PROVE  At(start + first, d[k]) = At(start, c[i])
  <2>1. c[i] \in Nat /\ c[i] - first \in Int /\ first + (c[i] - first) = c[i]
    BY <1>1
  <2>2. At(start + first, c[i] - first) = At(start, first + (c[i] - first))
    BY <2>1, AtShift
  <2> QED
    BY <1>9, <2>1, <2>2
<1>10. ASSUME NEW k \in 1 .. (m - 1)
       PROVE  /\ \A o \in d[k] .. (d[k + 1] - 1) :
                    At(start + first, o) <= At(start + first, d[k])
              /\ d[k] < d[k + 1]
              /\ At(start + first, d[k]) < At(start + first, d[k + 1])
              /\ d[k + 1] - d[k] < MinSize
  <2>1. PICK i \in 1 .. (n - 1) :
            /\ d[k] = c[i] - first /\ d[k + 1] = c[i + 1] - first
            /\ c[i] \in Nat /\ c[i + 1] \in Nat
    BY <1>7
  <2>2. /\ k \in 1 .. m /\ k + 1 \in 1 .. m /\ i \in 1 .. n /\ i + 1 \in 1 .. n
    BY <1>1
  <2>3. /\ At(start + first, d[k]) = At(start, c[i])
        /\ At(start + first, d[k + 1]) = At(start, c[i + 1])
    BY <1>9, <2>1, <2>2
  <2>4. ASSUME NEW o \in d[k] .. (d[k + 1] - 1)
        PROVE  At(start + first, o) <= At(start + first, d[k])
    <3> DEFINE a == c[i]
               b == c[i + 1]
    <3>1. /\ a \in Nat /\ b \in Nat /\ o \in Int
          /\ a - first <= o /\ o <= (b - first) - 1
      BY <2>1
    <3>2. first + o \in c[i] .. (c[i + 1] - 1)
      <4>1. first + o \in a .. (b - 1)
        <5> HIDE DEF a, b
        <5> QED
          BY <3>1
      <4> QED
        BY <4>1
    <3>3. At(start + first, o) = At(start, first + o)
      BY <3>1, AtShift
    <3> QED
      BY <1>3, <2>3, <3>2, <3>3
  <2>5. d[k] < d[k + 1] /\ d[k + 1] - d[k] < MinSize
    <3> DEFINE a == c[i]
               b == c[i + 1]
    <3>1. a \in Nat /\ b \in Nat /\ a < b /\ b - a < MinSize
      BY <1>3, <1>4, <2>1
    <3>2. d[k] = a - first /\ d[k + 1] = b - first
      BY <2>1
    <3> HIDE DEF a, b
    <3> QED
      BY <1>5, <3>1, <3>2
  <2> QED
    BY <1>3, <2>3, <2>4, <2>5
<1>11. ASSUME NEW o \in d[m] .. (s - first)
       PROVE  At(start + first, o) <= At(start + first, d[m])
  <2>1. o \in Int /\ first + o \in c[n] .. s
    BY <1>8
  <2>2. At(start + first, o) = At(start, first + o)
    BY <2>1, AtShift
  <2>3. At(start + first, d[m]) = At(start, c[n])
    <3>1. m \in 1 .. m /\ n \in 1 .. n
      BY <1>1
    <3> QED
      BY <1>8, <1>9, <3>1
  <2> QED
    BY <1>3, <2>1, <2>2, <2>3
<1>12. ASSUME NEW j \in 1 .. m, NEW k \in 1 .. m, j < k PROVE d[j] < d[k]
  <2>1. PICK i \in 1 .. n : i = r + j - 1 /\ d[j] = c[i] - first
    BY <1>6
  <2>2. PICK h \in 1 .. n : h = r + k - 1 /\ d[k] = c[h] - first
    BY <1>6
  <2>3. i < h
    BY <1>12, <2>1, <2>2
  <2> DEFINE a == c[i]
             b == c[h]
  <2>4. a < b /\ a \in Nat /\ b \in Nat
    BY <1>1, <1>4, <2>3
  <2>5. d[j] = a - first /\ d[k] = b - first
    BY <2>1, <2>2
  <2> HIDE DEF a, b
  <2> QED
    BY <2>4, <2>5
<1>13. d[m] <= s - first
    BY <1>3, <1>8
<1>14. RecordTail(d, start + first, s - first)
    BY <1>1, <1>10, <1>11, <1>13 DEF RecordTail, m
<1>15. Increasing(d) /\ Close(d)
    BY <1>10, <1>12 DEF Increasing, Close, m
<1> QED
    BY <1>8, <1>14, <1>15 DEF Last, m, n

\* Records up to a larger score and the records from there on make one list.
LEMMA JoinedFits ==
    ASSUME NEW e \in Seq(Nat), NEW d \in Seq(Nat), NEW s \in Nat, NEW start \in Nat,
           AreRecordMaxima(e, start, d[1] - 1), RecordTail(d, start, s), d[1] > 0,
           At(start, Last(e)) < At(start, d[1]),
           Increasing(e), Increasing(d), Close(e), Close(d), d[1] - Last(e) < MinSize
    PROVE  /\ e \o d \in Seq(Nat) /\ e \o d # <<>> /\ Last(e \o d) = Last(d)
           /\ AreRecordMaxima(e \o d, start, s)
           /\ Increasing(e \o d) /\ Close(e \o d)
<1> DEFINE n == Len(e)
           m == Len(d)
           j == e \o d
<1>1. n \in Nat /\ m \in Nat /\ m > 0
    BY LenProperties DEF RecordTail
<1>2. /\ \A k \in 1 .. n : e[k] \in Nat
      /\ \A k \in 1 .. m : d[k] \in Nat
    BY ElementOfSeq
<1>3. /\ j \in Seq(Nat) /\ Len(j) = n + m
      /\ \A k \in 1 .. (n + m) : j[k] = IF k <= n THEN e[k] ELSE d[k - n]
    BY ConcatProperties
<1>4. d[1] - 1 \in Nat /\ d[1] \in Nat
    BY <1>1, <1>2
<1>5. /\ n > 0 /\ e[1] = 0 /\ e[n] <= d[1] - 1
      /\ \A k \in 1 .. (n - 1) :
            /\ \A o \in e[k] .. (e[k + 1] - 1) : At(start, o) <= At(start, e[k])
            /\ e[k] < e[k + 1]
            /\ At(start, e[k]) < At(start, e[k + 1])
      /\ \A o \in e[n] .. (d[1] - 1) : At(start, o) <= At(start, e[n])
    BY <1>4, RecordMaxima
<1>6. /\ d[m] <= s
      /\ \A k \in 1 .. (m - 1) :
            /\ \A o \in d[k] .. (d[k + 1] - 1) : At(start, o) <= At(start, d[k])
            /\ d[k] < d[k + 1]
            /\ At(start, d[k]) < At(start, d[k + 1])
      /\ \A o \in d[m] .. s : At(start, o) <= At(start, d[m])
    BY DEF RecordTail
<1>7. /\ \A i, k \in 1 .. n : i < k => e[i] < e[k]
      /\ \A i, k \in 1 .. m : i < k => d[i] < d[k]
      /\ \A k \in 1 .. (n - 1) : e[k + 1] - e[k] < MinSize
      /\ \A k \in 1 .. (m - 1) : d[k + 1] - d[k] < MinSize
      /\ At(start, e[n]) < At(start, d[1]) /\ d[1] - e[n] < MinSize
    BY DEF Increasing, Close, Last
<1> HIDE DEF n, m, j
<1>8. /\ \A k \in 1 .. n : k \in 1 .. (n + m) /\ j[k] = e[k]
      /\ \A k \in 1 .. m : n + k \in 1 .. (n + m) /\ j[n + k] = d[k]
  <2>1. ASSUME NEW k \in 1 .. n PROVE k \in 1 .. (n + m) /\ j[k] = e[k]
    <3>1. k \in 1 .. (n + m) /\ k <= n
      BY <1>1
    <3> QED
      BY <1>3, <3>1
  <2>2. ASSUME NEW k \in 1 .. m PROVE n + k \in 1 .. (n + m) /\ j[n + k] = d[k]
    <3>1. n + k \in 1 .. (n + m) /\ ~ (n + k <= n) /\ (n + k) - n = k
      BY <1>1
    <3> QED
      BY <1>3, <3>1
  <2> QED
    BY <2>1, <2>2
<1>9. ASSUME NEW k \in 1 .. (n + m - 1)
      PROVE  /\ \A o \in j[k] .. (j[k + 1] - 1) : At(start, o) <= At(start, j[k])
             /\ j[k] < j[k + 1]
             /\ At(start, j[k]) < At(start, j[k + 1])
             /\ j[k + 1] - j[k] < MinSize
  <2>1. CASE k < n
    <3>1. k \in 1 .. (n - 1) /\ k \in 1 .. n /\ k + 1 \in 1 .. n
      BY <1>1, <2>1
    <3>2. j[k] = e[k] /\ j[k + 1] = e[k + 1]
      BY <1>8, <3>1
    <3> QED
      BY <1>5, <1>7, <3>1, <3>2
  <2>2. CASE k = n
    <3>1. n \in 1 .. n /\ 1 \in 1 .. m
      BY <1>1, <1>5
    <3>2. j[k] = e[n] /\ j[k + 1] = d[1] /\ e[n] \in Nat
      BY <1>2, <1>8, <2>2, <3>1
    <3>3. e[n] < d[1]
      BY <1>4, <1>5, <3>2
    <3> QED
      BY <1>5, <1>7, <3>2, <3>3
  <2>3. CASE k > n
    <3>1. PICK i \in 1 .. (m - 1) : k = n + i
      <4>1. k - n \in 1 .. (m - 1) /\ k = n + (k - n)
        BY <1>1, <2>3
      <4> QED
        BY <4>1
    <3>2. i \in 1 .. m /\ i + 1 \in 1 .. m /\ k + 1 = n + (i + 1)
      BY <1>1, <3>1
    <3>3. j[k] = d[i] /\ j[k + 1] = d[i + 1]
      BY <1>8, <3>1, <3>2
    <3> QED
      BY <1>6, <1>7, <3>3
  <2> QED
    BY <1>1, <2>1, <2>2, <2>3
<1>10. ASSUME NEW i \in 1 .. (n + m), NEW k \in 1 .. (n + m), i < k PROVE j[i] < j[k]
  <2>1. CASE i \in 1 .. n /\ k \in 1 .. n
    BY <1>7, <1>8, <1>10, <2>1
  <2>2. CASE i \in 1 .. n /\ k \notin 1 .. n
    <3>1. PICK h \in 1 .. m : k = n + h
      <4>1. k - n \in 1 .. m /\ k = n + (k - n)
        BY <1>1, <2>2
      <4> QED
        BY <4>1
    <3> DEFINE x == e[i]
               y == e[n]
               z == d[1]
               w == d[h]
    <3>2. /\ j[i] = x /\ j[k] = w /\ x \in Nat /\ y \in Nat /\ z \in Nat /\ w \in Nat
      <4>1. j[i] = x /\ x \in Nat
        BY <1>2, <1>8, <2>2
      <4>2. j[k] = w /\ w \in Nat
        BY <1>2, <1>8, <3>1
      <4>3. y \in Nat /\ z \in Nat
        <5>1. n \in 1 .. n
          BY <1>1, <1>5
        <5> QED
          BY <1>2, <1>4, <5>1
      <4> QED
        BY <4>1, <4>2, <4>3
    <3>3. i = n \/ x < y
      BY <1>1, <1>7, <2>2
    <3>4. h = 1 \/ z < w
      BY <1>1, <1>7
    <3>5. (i = n => x = y) /\ (h = 1 => z = w) /\ y <= z - 1
      BY <1>5
    <3> HIDE DEF x, y, z, w
    <3> QED
      BY <3>2, <3>3, <3>4, <3>5
  <2>3. CASE i \notin 1 .. n
    <3>1. PICK g \in 1 .. m : i = n + g
      <4>1. i - n \in 1 .. m /\ i = n + (i - n)
        BY <1>1, <2>3
      <4> QED
        BY <4>1
    <3>2. PICK h \in 1 .. m : k = n + h
      <4>1. k - n \in 1 .. m /\ k = n + (k - n)
        BY <1>1, <1>10, <2>3
      <4> QED
        BY <4>1
    <3>3. g < h
      BY <1>1, <1>10, <3>1, <3>2
    <3> QED
      BY <1>7, <1>8, <3>1, <3>2, <3>3
  <2> QED
    BY <1>1, <2>1, <2>2, <2>3
<1>11. j[1] = 0 /\ j[Len(j)] = d[m] /\ Len(j) > 0
  <2>1. 1 \in 1 .. n /\ m \in 1 .. m
    BY <1>1, <1>5
  <2> QED
    BY <1>1, <1>3, <1>5, <1>8, <2>1
<1>12. AreRecordMaxima(j, start, s)
  <2>0. 1 .. (Len(j) - 1) = 1 .. (n + m - 1)
    BY <1>1, <1>3
  <2>1. \A k \in 1 .. (Len(j) - 1) :
           /\ \A o \in j[k] .. (j[k + 1] - 1) : At(start, o) <= At(start, j[k])
           /\ j[k] < j[k + 1]
           /\ At(start, j[k]) < At(start, j[k + 1])
    BY <1>9, <2>0
  <2>2. \A o \in j[Len(j)] .. s : At(start, o) <= At(start, j[Len(j)])
    BY <1>6, <1>11
  <2>3. j[Len(j)] <= s
    BY <1>6, <1>11
  <2> QED
    BY <1>3, <1>11, <2>1, <2>2, <2>3, RecordMaxima
<1>13. Increasing(j) /\ Close(j)
  <2>0. 1 .. (Len(j) - 1) = 1 .. (n + m - 1)
    BY <1>1, <1>3
  <2>1. Increasing(j)
    BY <1>3, <1>10 DEF Increasing
  <2>2. \A k \in 1 .. (Len(j) - 1) : j[k + 1] - j[k] < MinSize
    BY <1>9, <2>0
  <2> QED
    BY <2>1, <2>2 DEF Close
<1>14. j # <<>> /\ Last(j) = Last(d)
    BY <1>3, <1>11, EmptySeq DEF Last, m
<1> QED
    BY <1>3, <1>12, <1>13, <1>14 DEF j

\* What a forced cut knows of the selected candidate and the points after it:
\* nothing was completed, so the Peeker stands at the origin, and if any point
\* is reusable the last candidate is.
LEMMA ReusableFacts ==
    ASSUME IInv, pc = "forced", SelectedOffset < MinSize
    PROVE  LET c == frontier.candidateOffsets
               s == frontier.scannedOffset
               first == MinSize + SelectedOffset
               points == Append(c, s)
               reusable == ReusablePoints(points, first)
               r == Min(reusable)
           IN  /\ first \in MinSize .. (2 * MinSize - 1)
               /\ handedOut = origin /\ origin + first <= fileSize
               /\ points \in Seq(Nat) /\ Len(points) = Len(c) + 1
               /\ \A k \in 1 .. Len(c) : points[k] = c[k]
               /\ points[Len(c) + 1] = s
               /\ reusable # {} => /\ r \in 2 .. Len(c)
                                   /\ c[r - 1] < first /\ first <= c[r]
<1> DEFINE c == frontier.candidateOffsets
           s == frontier.scannedOffset
           n == Len(c)
           sel == walk.selected
           first == MinSize + SelectedOffset
           points == Append(c, s)
           reusable == ReusablePoints(points, first)
           r == Min(reusable)
<1>1. /\ MinSize \in Nat /\ MinSize > 0 /\ fileSize \in Nat /\ origin \in Nat
      /\ c \in Seq(Nat) /\ s \in Nat /\ n \in Nat /\ n > 0
      /\ Last(c) \in Nat /\ Last(c) <= s /\ s - Last(c) < MinSize
      /\ origin + s + 2 * MinSize <= fileSize
    BY PlanFacts
<1>2. \A k \in 1 .. n : c[k] \in Nat
    BY CandidateFacts
<1>3. /\ sel \in 1 .. n /\ SelectedOffset = c[sel] /\ SelectedOffset \in Nat
      /\ SelectedOffset <= Last(c)
    BY WalkIndices
<1>4. sel = n \/ Last(c) - SelectedOffset >= MinSize
    BY DEF IInv, WalkInv, WalkFits
<1>5. handedOut = origin
    BY DEF IInv, WalkInv, PlanInv, Adjacent
<1>6. /\ points \in Seq(Nat) /\ Len(points) = n + 1 /\ points[n + 1] = s
      /\ \A k \in 1 .. n : points[k] = c[k]
    BY <1>1, AppendProperties
<1>7. reusable = {k \in (sel + 1) .. (n + 1) : points[k] >= first}
    BY <1>6 DEF ReusablePoints
<1> HIDE DEF c, s, n, sel, points
<1>8. first \in MinSize .. (2 * MinSize - 1) /\ origin + first <= fileSize
  <2> DEFINE l == Last(c)
             o == SelectedOffset
  <2>1. /\ MinSize \in Nat /\ fileSize \in Nat /\ origin \in Nat
        /\ s \in Nat /\ l \in Nat /\ o \in Nat /\ o < MinSize /\ o <= l /\ l <= s
        /\ origin + s + 2 * MinSize <= fileSize /\ first = MinSize + o
    BY <1>1, <1>3
  <2> HIDE DEF first, l, o
  <2> QED
    BY <2>1
<1>9. sel = n => Last(c) = SelectedOffset
    BY <1>3 DEF Last, n
<1> HIDE DEF first
<1>10. ASSUME reusable # {} PROVE r \in 2 .. n /\ c[r - 1] < first /\ first <= c[r]
  <2>1. sel # n
    <3>1. SUFFICES ASSUME sel = n PROVE FALSE
      OBVIOUS
    <3>2. first = MinSize + Last(c)
      BY <1>9, <3>1 DEF first
    <3>3. PICK k \in (n + 1) .. (n + 1) : points[k] >= first
      BY <1>7, <1>10, <3>1
    <3>4. s >= first
      BY <1>1, <1>6, <3>3
    <3> QED
      BY <1>1, <3>2, <3>4
  <2>2. n \in reusable
    <3>1. c[n] >= first
      BY <1>1, <1>3, <1>4, <2>1 DEF first, Last, n
    <3>2. n \in (sel + 1) .. (n + 1) /\ points[n] = c[n]
      BY <1>1, <1>3, <1>6, <2>1
    <3> QED
      BY <1>7, <3>1, <3>2
  <2>3. reusable \in SUBSET Nat
    BY <1>1, <1>3, <1>7
  <2> HIDE DEF reusable
  <2>4. r \in reusable /\ \A y \in reusable : r <= y
    BY <1>10, <2>3, Minimum
  <2> HIDE DEF r
  <2>5. /\ r \in 2 .. n /\ r \in (sel + 1) .. (n + 1) /\ points[r] >= first
        /\ r - 1 \in 1 .. n /\ r - 1 \in sel .. n
    BY <1>1, <1>3, <1>7, <2>2, <2>4
  <2>6. c[r] >= first
    BY <1>6, <2>5
  <2>7. c[r - 1] < first
    <3>1. CASE r - 1 = sel
      BY <1>1, <1>3, <3>1 DEF first
    <3>2. CASE r - 1 # sel
      <4>1. r - 1 \in (sel + 1) .. (n + 1) /\ ~ (r <= r - 1)
        BY <1>1, <1>3, <2>5, <3>2
      <4>2. ~ (points[r - 1] >= first)
        BY <1>7, <2>4, <4>1
      <4>3. points[r - 1] = c[r - 1] /\ c[r - 1] \in Nat
        BY <1>2, <1>6, <2>5
      <4>4. first \in Nat
        BY <1>1, <1>3 DEF first
      <4> QED
        BY <4>2, <4>3, <4>4
    <3> QED
      BY <3>1, <3>2
  <2>8. first \in Nat /\ c[r] \in Nat
    BY <1>1, <1>2, <1>3, <2>5 DEF first
  <2> QED
    BY <2>5, <2>6, <2>7, <2>8
<1> QED
    BY <1>5, <1>6, <1>8, <1>10 DEF c, s, n, points, first

\* A forced chunk is returned: the queue stays empty, and the next chunk
\* begins where the forced one ends.
LEMMA ForcedReturnIInv ==
    ASSUME IInv, pc \in {"forced", "recompute"}, handedOut = origin,
           NEW f \in Frontier, NEW first \in Nat, origin + first <= fileSize,
           f.candidateOffsets # <<>> => FrontierFits(f, origin + first),
           f.candidateOffsets = <<>> => f.scannedOffset = 0,
           frontier' = f, ReturnChunk(first), origin' = origin + first,
           UNCHANGED <<file, peeker, readyChunkSizes, dataLen, hashEnd, region,
                       completedChunkSizes>>,
           walk' \in [selected : Nat, next : Int, batch : Seq(ChunkPlan)],
           rebase' \in [points : Seq(Nat), reusable : Nat, first : Nat,
                        recomputed : Frontier]
    PROVE  IInv'
<1>1. /\ pc' = "idle" /\ result' = "chunk"
      /\ previousChunkSizeBytes' = first /\ handedOut' = handedOut + first
    BY DEF ReturnChunk
<1>2. /\ pos \in Nat /\ origin \in Nat /\ pos = origin /\ readyChunkSizes = <<>>
    BY PlanFacts
<1>3. origin + first \in Nat /\ pos + first = handedOut + first /\ handedOut + first = origin + first
    BY <1>2
<1>4. TypeOK'
    BY <1>1, <1>2, <1>3 DEF IInv, TypeOK, file, peeker
<1>5. AlwaysInv'
  <2>1. HasFrontier' => FrontierFits(frontier, origin)'
    BY FitsNext DEF HasFrontier
  <2>2. ~ HasFrontier' => frontier'.scannedOffset = 0
    BY DEF HasFrontier
  <2> QED
    BY <1>1, <1>2, <1>3, <2>1, <2>2 DEF AlwaysInv, file, peeker
<1>6. QueueInv'
    BY <1>1, <1>2, <1>3, EmptyQueue DEF QueueInv
<1> QED
    BY <1>1, <1>4, <1>5, <1>6 DEF IInv, PlanInv, RegionInv, WalkInv, RecomputeInv

\* The points of the frontier that survive, and the cursor last.
LEMMA FrontierFromPoints ==
    ASSUME NEW j \in Seq(Nat), j # <<>>, NEW x \in Nat
    PROVE  FrontierFrom(Append(j, x)) =
               [frontier EXCEPT !.candidateOffsets = j, !.scannedOffset = x]
<1> DEFINE q == Append(j, x)
<1>1. Len(j) \in Nat /\ Len(j) > 0 /\ \A k \in 1 .. Len(j) : j[k] \in Nat
    BY ElementOfSeq, EmptySeq
<1>2. /\ q \in Seq(Nat) /\ Len(q) = Len(j) + 1 /\ q[Len(j) + 1] = x /\ q # <<>>
      /\ \A k \in 1 .. Len(j) : q[k] = j[k]
    BY <1>1, AppendProperties
<1> HIDE DEF q
<1>3. /\ Front(q) \in Seq(Nat) /\ Len(Front(q)) = Len(q) - 1
      /\ \A k \in 1 .. (Len(q) - 1) : Front(q)[k] = q[k]
    BY <1>2, ReverseFront
<1>4. Front(q) = j
  <2>1. Len(Front(q)) = Len(j) /\ Len(q) - 1 = Len(j)
    BY <1>1, <1>2, <1>3
  <2>2. \A k \in 1 .. Len(Front(q)) : Front(q)[k] = j[k]
    BY <1>2, <1>3, <2>1
  <2> QED
    BY <1>3, <2>1, <2>2, SeqEqual
<1>5. Last(q) = x /\ ~ (Len(q) < 2)
    BY <1>1, <1>2 DEF Last
<1> QED
    BY <1>4, <1>5 DEF FrontierFrom, q

\* The frontier of the next chunk, whose candidates j end with the last one
\* of this chunk's.
LEMMA SurvivingFits ==
    ASSUME IInv, pc \notin {"idle", "peek"}, NEW first \in Nat, NEW j \in Seq(Nat),
           first <= frontier.scannedOffset, j # <<>>, Increasing(j), Close(j),
           AreRecordMaxima(j, origin + first, frontier.scannedOffset - first),
           Last(j) = Last(frontier.candidateOffsets) - first
    PROVE  LET f == FrontierFrom(Append(j, frontier.scannedOffset - first))
           IN  f \in Frontier /\ FrontierFits(f, origin + first)
<1>1. PICK c \in Seq(Nat), s \in Nat, i \in Nat, maximum \in Nat :
          frontier = [candidateOffsets |-> c, scannedOffset |-> s,
                      currentHash |-> i, maximumHash |-> maximum]
    BY PlanFacts DEF Frontier
<1>2. frontier.candidateOffsets = c /\ frontier.scannedOffset = s
    BY <1>1
<1>3. /\ MinSize \in Nat /\ fileSize \in Nat /\ origin \in Nat
      /\ Last(c) \in Nat /\ s - Last(c) < MinSize
      /\ origin + s + 2 * MinSize <= fileSize
      /\ i = origin + MinSize + s /\ maximum = origin + MinSize + Last(c)
    BY <1>1, <1>2, PlanFacts DEF FrontierFits
<1>4. s - first \in Nat
    BY <1>2
<1> DEFINE f == FrontierFrom(Append(j, s - first))
<1>5. f = [frontier EXCEPT !.candidateOffsets = j, !.scannedOffset = s - first]
    BY <1>4, FrontierFromPoints
<1> HIDE DEF f
<1>6. f = [candidateOffsets |-> j, scannedOffset |-> s - first,
           currentHash |-> i, maximumHash |-> maximum]
    BY <1>1, <1>5
<1>7. f \in Frontier
    BY <1>4, <1>6 DEF Frontier
<1>8. Last(j) = Last(c) - first
    BY <1>2
<1>9. /\ i = (origin + first) + MinSize + (s - first)
      /\ maximum = (origin + first) + MinSize + (Last(c) - first)
      /\ (s - first) - (Last(c) - first) < MinSize
      /\ (origin + first) + (s - first) + 2 * MinSize <= fileSize
  <2> DEFINE l == Last(c)
  <2>1. /\ l \in Nat /\ s - l < MinSize /\ maximum = origin + MinSize + l
        /\ MinSize \in Nat /\ fileSize \in Nat /\ origin \in Nat
        /\ i = origin + MinSize + s /\ origin + s + 2 * MinSize <= fileSize
    BY <1>3
  <2> HIDE DEF l
  <2>2. /\ i = (origin + first) + MinSize + (s - first)
        /\ maximum = (origin + first) + MinSize + (l - first)
        /\ (s - first) - (l - first) < MinSize
        /\ (origin + first) + (s - first) + 2 * MinSize <= fileSize
    BY <2>1
  <2> QED
    BY <2>2 DEF l
<1>10. FrontierFits(f, origin + first)
    BY <1>2, <1>6, <1>8, <1>9 DEF FrontierFits
<1> QED
    BY <1>2, <1>7, <1>10 DEF f

\* A forced cut that keeps no frontier, or keeps the points from the next
\* chunk's first eligible cut on.
LEMMA RebaseIInv ==
    ASSUME IInv, RebaseFrontier PROVE IInv'
<1> DEFINE c == frontier.candidateOffsets
           s == frontier.scannedOffset
           n == Len(c)
           first == MinSize + SelectedOffset
           points == Append(c, s)
           reusable == ReusablePoints(points, first)
           r == Min(reusable)
           q == [k \in 1 .. (Len(points) - r + 1) |-> points[r + k - 1] - first]
<1>1. /\ pc = "forced" /\ SelectedOffset < MinSize
      /\ \/ ReturnForcedChunk(first, <<>>)
         \/ reusable # {} /\ points[r] = first /\ ReturnForcedChunk(first, q)
      /\ walk' = NoWalk
      /\ UNCHANGED <<file, peeker, dataLen, hashEnd, region, completedChunkSizes, rebase>>
    BY DEF RebaseFrontier
<1>2. /\ first \in MinSize .. (2 * MinSize - 1)
      /\ handedOut = origin /\ origin + first <= fileSize
      /\ points \in Seq(Nat) /\ Len(points) = n + 1
      /\ \A k \in 1 .. n : points[k] = c[k]
      /\ points[n + 1] = s
      /\ reusable # {} => /\ r \in 2 .. n
                          /\ c[r - 1] < first /\ first <= c[r]
    BY <1>1, ReusableFacts
<1>3. /\ MinSize \in Nat /\ c \in Seq(Nat) /\ s \in Nat /\ n \in Nat /\ n > 0
      /\ Last(c) \in Nat /\ Last(c) <= s /\ origin \in Nat
      /\ Increasing(c) /\ Close(c) /\ AreRecordMaxima(c, origin, s)
    BY <1>1, PlanFacts DEF FrontierFits
<1>4. \A k \in 1 .. n : c[k] \in Nat /\ c[k] <= Last(c)
    BY <1>1, CandidateFacts
<1>5. first \in Nat
    BY <1>2, <1>3
<1>6. /\ walk' \in [selected : Nat, next : Int, batch : Seq(ChunkPlan)]
      /\ rebase' \in [points : Seq(Nat), reusable : Nat, first : Nat,
                      recomputed : Frontier]
    BY <1>1, EmptyQueue DEF IInv, TypeOK, NoWalk
<1> HIDE DEF c, s, n, first, points, reusable, r
<1>7. CASE ReturnForcedChunk(first, <<>>)
  <2>1. FrontierFrom(<<>>) = NoFrontier
    BY EmptyQueue DEF FrontierFrom
  <2>2. /\ NoFrontier \in Frontier /\ NoFrontier.candidateOffsets = <<>>
        /\ NoFrontier.scannedOffset = 0
    BY DEF NoFrontier, NoHash, Frontier
  <2>3. /\ frontier' = NoFrontier /\ ReturnChunk(first) /\ origin' = origin + first
        /\ UNCHANGED readyChunkSizes
    BY <1>7, <2>1 DEF ReturnForcedChunk
  <2> QED
    BY <1>1, <1>2, <1>5, <1>6, <2>2, <2>3, ForcedReturnIInv
<1>8. CASE reusable # {} /\ points[r] = first /\ ReturnForcedChunk(first, q)
  <2> DEFINE d == [k \in 1 .. (n + 1 - r) |-> c[r + k - 1] - first]
             x == s - first
  <2>1. r \in 2 .. n /\ first <= c[r] /\ c[r] = first
    BY <1>2, <1>8
  <2>2. x \in Nat /\ first <= s
    <3>1. c[r] \in Nat /\ c[r] <= Last(c)
      BY <1>4, <2>1
    <3> QED
      BY <1>3, <1>5, <2>1, <3>1
  <2>3. ASSUME NEW k \in 1 .. (n + 1 - r)
        PROVE  /\ c[r + k - 1] - first \in Nat
               /\ r + k - 1 \in 1 .. n
    <3>1. r + k - 1 \in 1 .. n /\ (r + k - 1 = r \/ r < r + k - 1)
      BY <1>3, <2>1
    <3>2. c[r] <= c[r + k - 1] /\ c[r] \in Nat /\ c[r + k - 1] \in Nat
      <4>1. c[r] \in Nat /\ c[r + k - 1] \in Nat /\ r \in 1 .. n
        BY <1>3, <1>4, <2>1, <3>1
      <4>2. r + k - 1 = r \/ c[r] < c[r + k - 1]
        BY <1>3, <3>1, <4>1 DEF Increasing, n
      <4> QED
        BY <4>1, <4>2
    <3> QED
      BY <1>5, <2>1, <3>1, <3>2
  <2>4. n + 1 - r \in Nat /\ n + 1 - r > 0
    BY <1>3, <2>1
  <2>5. /\ d \in Seq(Nat) /\ Len(d) = n + 1 - r
        /\ \A k \in 1 .. (n + 1 - r) : d[k] = c[r + k - 1] - first
    BY <2>3, <2>4
  <2>6. q = Append(d, x)
    <3>1. Len(points) - r + 1 = (n + 1 - r) + 1 /\ (n + 1 - r) + 1 \in Nat
      BY <1>2, <1>3, <2>1
    <3>2. ASSUME NEW k \in 1 .. ((n + 1 - r) + 1)
          PROVE  points[r + k - 1] - first = IF k <= n + 1 - r THEN d[k] ELSE x
      <4>1. CASE k <= n + 1 - r
        <5>1. k \in 1 .. (n + 1 - r)
          BY <2>4, <4>1
        <5> QED
          BY <1>2, <2>3, <2>5, <4>1, <5>1
      <4>2. CASE ~ (k <= n + 1 - r)
        <5>1. r + k - 1 = n + 1
          BY <1>3, <2>1, <4>2
        <5> QED
          BY <1>2, <4>2, <5>1
      <4> QED
        BY <4>1, <4>2
    <3> DEFINE m == (n + 1 - r) + 1
    <3>3. q = [k \in 1 .. m |-> points[r + k - 1] - first]
      BY <3>1
    <3>4. ASSUME NEW k \in 1 .. m PROVE points[r + k - 1] - first \in Nat
      <4>1. k <= n + 1 - r => k \in 1 .. (n + 1 - r)
        BY <2>4
      <4>2. k <= n + 1 - r => d[k] \in Nat
        BY <2>3, <2>5, <4>1
      <4> QED
        BY <2>2, <3>2, <4>2
    <3> HIDE DEF q, d, x
    <3>5. q \in Seq(Nat) /\ Len(q) = m /\ \A k \in 1 .. m : q[k] = points[r + k - 1] - first
      BY <3>1, <3>3, <3>4
    <3>6. /\ Append(d, x) \in Seq(Nat) /\ Len(Append(d, x)) = m
          /\ \A k \in 1 .. (n + 1 - r) : Append(d, x)[k] = d[k]
          /\ Append(d, x)[m] = x
      BY <2>2, <2>5, AppendProperties
    <3>7. ASSUME NEW k \in 1 .. m PROVE q[k] = Append(d, x)[k]
      <4>1. CASE k <= n + 1 - r
        <5>1. k \in 1 .. (n + 1 - r)
          BY <2>4, <4>1
        <5> QED
          BY <3>2, <3>5, <3>6, <4>1, <5>1
      <4>2. CASE ~ (k <= n + 1 - r)
        <5>1. k = m
          BY <2>4, <4>2
        <5> QED
          BY <3>2, <3>5, <3>6, <4>2, <5>1
      <4> QED
        BY <4>1, <4>2
    <3> QED
      BY <3>5, <3>6, <3>7, SeqEqual
  <2>7. IsShifted(d, c, r, first)
    BY <2>5 DEF IsShifted, n
  <2>8. d[1] = 0 /\ d # <<>>
    <3>1. 1 \in 1 .. (n + 1 - r) /\ r + 1 - 1 = r
      BY <2>1, <2>4
    <3> HIDE DEF d
    <3> QED
      BY <1>5, <2>1, <2>4, <2>5, <3>1, EmptySeq
  <2> HIDE DEF d, x, q
  <2>9. r \in 1 .. Len(c)
    BY <2>1 DEF n
  <2>10. /\ RecordTail(d, origin + first, x)
         /\ Increasing(d) /\ Close(d) /\ Last(d) = Last(c) - first
    BY <1>3, <1>5, <2>2, <2>7, <2>9, ShiftedFits DEF x
  <2>11. AreRecordMaxima(d, origin + first, x)
    BY <2>2, <2>5, <2>8, <2>10, RecordMaxima DEF RecordTail
  <2>12. FrontierFrom(q) \in Frontier /\ FrontierFits(FrontierFrom(q), origin + first)
    BY <1>1, <1>5, <2>2, <2>5, <2>6, <2>8, <2>10, <2>11, SurvivingFits DEF x, s, c
  <2>13. /\ frontier' = FrontierFrom(q) /\ ReturnChunk(first) /\ origin' = origin + first
         /\ UNCHANGED readyChunkSizes
    BY <1>8 DEF ReturnForcedChunk
  <2>14. FrontierFrom(q).candidateOffsets # <<>>
    BY <2>12 DEF FrontierFits
  <2> QED
    BY <1>1, <1>2, <1>5, <1>6, <2>12, <2>13, <2>14, ForcedReturnIInv
<1> QED
    BY <1>1, <1>7, <1>8

\* The recomputation begins like any frontier of the next chunk; the array
\* holds the reusable points as that chunk sees them.
LEMMA StartRecomputeIInv ==
    ASSUME IInv, StartRecompute PROVE IInv'
<1> DEFINE c == frontier.candidateOffsets
           s == frontier.scannedOffset
           n == Len(c)
           first == MinSize + SelectedOffset
           points == Append(c, s)
           reusable == ReusablePoints(points, first)
           r == Min(reusable)
           shifted == [k \in 1 .. Len(points) |->
                          IF k < r THEN points[k] ELSE points[k] - first]
           fresh == [NewFrontier(pos + first) EXCEPT !.candidateOffsets = <<points[1]>>]
<1>1. /\ pc = "forced" /\ pc' = "recompute" /\ SelectedOffset < MinSize
      /\ reusable # {} /\ points[r] > first
      /\ rebase' = [points |-> shifted, reusable |-> r, first |-> first,
                    recomputed |-> fresh]
      /\ walk' = NoWalk
      /\ UNCHANGED <<file, peeker, reader, result, dataLen, hashEnd, region,
                     completedChunkSizes, history>>
    BY DEF StartRecompute
<1>2. /\ first \in MinSize .. (2 * MinSize - 1)
      /\ handedOut = origin /\ origin + first <= fileSize
      /\ points \in Seq(Nat) /\ Len(points) = n + 1
      /\ \A k \in 1 .. n : points[k] = c[k]
      /\ points[n + 1] = s
      /\ reusable # {} => /\ r \in 2 .. n
                          /\ c[r - 1] < first /\ first <= c[r]
    BY <1>1, ReusableFacts
<1>3. /\ MinSize \in Nat /\ c \in Seq(Nat) /\ s \in Nat /\ n \in Nat /\ n > 0
      /\ Last(c) \in Nat /\ Last(c) <= s /\ origin \in Nat /\ fileSize \in Nat
      /\ origin + s + 2 * MinSize <= fileSize /\ pos = handedOut
    BY <1>1, PlanFacts
<1>4. /\ \A k \in 1 .. n : c[k] \in Nat /\ c[k] <= Last(c)
      /\ \A i, k \in 1 .. n : i < k => c[i] < c[k]
      /\ c[1] = 0
    BY <1>1, CandidateFacts
<1> HIDE DEF c, s, n, first, points, reusable, r
<1>5. first \in Nat /\ r \in 2 .. n /\ c[r - 1] < first
  <2>1. r \in 2 .. n /\ c[r - 1] < first
    BY <1>1, <1>2
  <2>2. first \in Nat
    BY <1>2, <1>3
  <2> QED
    BY <2>1, <2>2
<1>6. points[r] = c[r] /\ c[r] \in Nat /\ c[r] <= Last(c) /\ first < c[r]
  <2>1. r \in 1 .. n
    BY <1>3, <1>5
  <2> QED
    BY <1>1, <1>2, <1>4, <2>1
<1>7. first <= s /\ s - first \in Nat /\ (origin + first) + 2 * MinSize <= fileSize
      /\ origin + first \in Nat
    BY <1>3, <1>5, <1>6
<1>8. ASSUME NEW k \in r .. n PROVE c[k] - first \in Nat /\ k \in 1 .. n
  <2>1. k \in 1 .. n /\ r \in 1 .. n /\ (k = r \/ r < k)
    BY <1>3, <1>5
  <2>2. c[k] \in Nat /\ c[r] \in Nat /\ (k = r \/ c[r] < c[k])
    BY <1>4, <2>1
  <2>3. c[r] <= c[k]
    BY <2>2
  <2> QED
    BY <1>5, <1>6, <2>1, <2>2, <2>3
<1>9. ASSUME NEW k \in 1 .. (n + 1)
      PROVE  (IF k < r THEN points[k] ELSE points[k] - first) \in Nat
  <2>1. CASE k < r
    <3>1. k \in 1 .. n
      BY <1>3, <1>5, <2>1
    <3> QED
      BY <1>2, <1>4, <2>1, <3>1
  <2>2. CASE ~ (k < r) /\ k # n + 1
    <3>1. k \in r .. n
      BY <1>3, <1>5, <2>2
    <3> QED
      BY <1>2, <1>8, <2>2, <3>1
  <2>3. CASE k = n + 1
    <3>1. ~ (k < r)
      BY <1>3, <1>5, <2>3
    <3> QED
      BY <1>2, <1>7, <2>3, <3>1
  <2> QED
    BY <2>1, <2>2, <2>3
<1>10. /\ shifted \in Seq(Nat) /\ Len(shifted) = n + 1
       /\ \A k \in r .. n : shifted[k] = c[k] - first
       /\ shifted[n + 1] = s - first
  <2>1. n + 1 \in Nat
    BY <1>3
  <2>2. shifted = [k \in 1 .. (n + 1) |-> IF k < r THEN points[k] ELSE points[k] - first]
    BY <1>2
  <2>3. /\ shifted \in Seq(Nat) /\ Len(shifted) = n + 1
        /\ \A k \in 1 .. (n + 1) :
              shifted[k] = IF k < r THEN points[k] ELSE points[k] - first
    <3> HIDE DEF shifted
    <3> QED
      BY <1>9, <2>1, <2>2
  <2> HIDE DEF shifted
  <2>4. ASSUME NEW k \in r .. n PROVE shifted[k] = c[k] - first
    <3>1. k \in 1 .. (n + 1) /\ k \in 1 .. n /\ ~ (k < r)
      BY <1>3, <1>5
    <3> QED
      BY <1>2, <2>3, <3>1
  <2>5. shifted[n + 1] = s - first
    <3>1. n + 1 \in 1 .. (n + 1) /\ ~ (n + 1 < r)
      BY <1>3, <1>5
    <3> QED
      BY <1>2, <2>3, <3>1
  <2> QED
    BY <2>3, <2>4, <2>5
<1> HIDE DEF shifted
<1>11. fresh = NewFrontier(origin + first)
  <2>1. points[1] = 0
    <3>1. 1 \in 1 .. n
      BY <1>3
    <3> QED
      BY <1>2, <1>4, <3>1
  <2>2. pos + first = origin + first
    BY <1>2, <1>3
  <2>3. fresh = [NewFrontier(origin + first) EXCEPT !.candidateOffsets = <<0>>]
    BY <2>1, <2>2
  <2> HIDE DEF fresh
  <2> QED
    BY <2>3 DEF NewFrontier
<1>12. fresh \in Frontier /\ FrontierFits(fresh, origin + first) /\ fresh.scannedOffset = 0
  <2>1. NewFrontier(origin + first) \in Frontier
        /\ FrontierFits(NewFrontier(origin + first), origin + first)
    BY <1>7, NewFrontierFits DEF IInv
  <2>2. NewFrontier(origin + first).scannedOffset = 0
    BY DEF NewFrontier
  <2> QED
    BY <1>11, <2>1, <2>2
<1> HIDE DEF fresh
<1>13. /\ rebase' \in [points : Seq(Nat), reusable : Nat, first : Nat, recomputed : Frontier]
       /\ walk' \in [selected : Nat, next : Int, batch : Seq(ChunkPlan)]
  <2>1. r \in Nat
    BY <1>3, <1>5
  <2> QED
    BY <1>1, <1>5, <1>10, <1>12, <2>1, EmptyQueue DEF NoWalk
<1>14. TypeOK'
    BY <1>1, <1>13 DEF IInv, TypeOK, file, peeker, reader, history
<1>15. AlwaysInv' /\ QueueInv' /\ PlanInv'
    BY <1>1, PlanKept
<1>16. RecomputeInv'
  <2>1. /\ frontier' = frontier /\ origin' = origin /\ UNCHANGED file
        /\ rebase'.points = shifted /\ rebase'.reusable = r /\ rebase'.first = first
        /\ rebase'.recomputed = fresh
    BY <1>1 DEF reader, history
  <2>2. FrontierFits(rebase.recomputed, origin + rebase.first)'
    BY <1>12, <2>1 DEF FrontierFits, Increasing, Close, AreRecordMaxima, file
  <2>3. 0 < shifted[r]
    <3>1. r \in r .. n
      BY <1>3, <1>5
    <3> QED
      BY <1>5, <1>6, <1>10, <3>1
  <2> QED
    BY <1>2, <1>5, <1>6, <1>10, <1>12, <2>1, <2>2, <2>3 DEF RecomputeInv, c, s, n
<1>17. completedChunkSizes' = <<>>
    BY <1>1 DEF IInv, WalkInv
<1> QED
    BY <1>1, <1>14, <1>15, <1>16, <1>17 DEF IInv, RegionInv, WalkInv

\* What a recomputation knows: it stays between the last candidate that does
\* not survive and the first that does.
LEMMA RecomputeFacts ==
    ASSUME IInv, pc = "recompute"
    PROVE  LET c == frontier.candidateOffsets
               s == frontier.scannedOffset
               r == rebase.reusable
               first == rebase.first
               old == rebase.recomputed
           IN  /\ handedOut = origin /\ pos = origin
               /\ first \in Nat /\ first \in MinSize .. (2 * MinSize - 1)
               /\ r \in 2 .. Len(c)
               /\ c[r - 1] \in Nat /\ c[r] \in Nat
               /\ c[r - 1] < first /\ first < c[r] /\ c[r] - c[r - 1] < MinSize
               /\ c[r] <= Last(c)
               /\ rebase.points \in Seq(Nat) /\ Len(rebase.points) = Len(c) + 1
               /\ \A k \in r .. Len(c) : rebase.points[k] = c[k] - first
               /\ rebase.points[Len(c) + 1] = s - first
               /\ old \in Frontier /\ FrontierFits(old, origin + first)
               /\ old.scannedOffset \in Nat /\ old.scannedOffset < c[r] - first
               /\ Last(old.candidateOffsets) \in Nat
               /\ Last(old.candidateOffsets) <= old.scannedOffset
<1> DEFINE c == frontier.candidateOffsets
           s == frontier.scannedOffset
           n == Len(c)
           r == rebase.reusable
           first == rebase.first
           old == rebase.recomputed
           e == old.candidateOffsets
<1>1. /\ handedOut = origin /\ n \in Nat /\ pos = handedOut
      /\ MinSize \in Nat
  <2>1. handedOut = origin
    BY DEF IInv, WalkInv, PlanInv, Adjacent
  <2> QED
    BY <2>1, PlanFacts
<1>2. /\ \A k \in 1 .. n : c[k] \in Nat /\ c[k] <= Last(c)
      /\ \A k \in 1 .. (n - 1) : c[k + 1] - c[k] < MinSize
    BY CandidateFacts
<1>3. /\ first \in MinSize .. (2 * MinSize - 1)
      /\ r \in 2 .. n
      /\ c[r - 1] < first /\ first < c[r]
      /\ Len(rebase.points) = n + 1
      /\ \A k \in r .. n : rebase.points[k] = c[k] - first
      /\ rebase.points[n + 1] = s - first
      /\ old.scannedOffset < rebase.points[r]
      /\ FrontierFits(old, origin + first)
    BY DEF IInv, RecomputeInv
<1>4. rebase.points \in Seq(Nat) /\ first \in Nat /\ old \in Frontier
    BY DEF IInv, TypeOK
<1>5. e \in Seq(Nat) /\ old.scannedOffset \in Nat /\ Len(e) \in Nat
      /\ \A k \in 1 .. Len(e) : e[k] \in Nat
    BY <1>4, FrontierTypes
<1>6. AreRecordMaxima(e, origin + first, old.scannedOffset)
    BY <1>3 DEF FrontierFits
<1> HIDE DEF c, s, n, r, first, e, old
<1>7. /\ c[r - 1] \in Nat /\ c[r] \in Nat /\ c[r] <= Last(c) /\ c[r] - c[r - 1] < MinSize
  <2>1. /\ r \in 1 .. n /\ r - 1 \in 1 .. (n - 1) /\ r - 1 \in 1 .. n
        /\ (r - 1) + 1 = r
    BY <1>1, <1>3
  <2>2. c[(r - 1) + 1] - c[r - 1] < MinSize
    BY <1>2, <2>1
  <2> QED
    BY <1>2, <2>1, <2>2
<1>8. old.scannedOffset < c[r] - first
  <2>1. r \in r .. n
    BY <1>1, <1>3
  <2> QED
    BY <1>3, <2>1
<1>9. Last(e) \in Nat /\ Last(e) <= old.scannedOffset
  <2>1. Len(e) > 0 /\ e[Len(e)] <= old.scannedOffset
    BY <1>5, <1>6, RecordMaxima
  <2> QED
    BY <1>5, <2>1 DEF Last
<1> QED
    BY <1>1, <1>3, <1>4, <1>5, <1>7, <1>8, <1>9 DEF c, s, n, r, first, old, e

\* A byte of the recomputation: it appends in place before the first reusable
\* point or to a copy, so the points that survive are not overwritten.
LEMMA RecomputeByteIInv ==
    ASSUME IInv, RecomputeByte PROVE IInv'
<1> DEFINE c == frontier.candidateOffsets
           s == frontier.scannedOffset
           n == Len(c)
           r == rebase.reusable
           first == rebase.first
           points == rebase.points
           old == rebase.recomputed
           i == pos + first + MinSize + old.scannedOffset
           new == ScanByte(old, i)
           m == Len(new.candidateOffsets)
           inPlace == m > Len(old.candidateOffsets) /\ m <= r - 1
           written == [points EXCEPT ![m] = Last(new.candidateOffsets)]
           after == IF inPlace THEN written ELSE points
<1>1. /\ pc = "recompute" /\ pc' = "recompute"
      /\ old.scannedOffset < points[r] - 1
      /\ rebase' = [rebase EXCEPT !.recomputed = new, !.points = after]
      /\ UNCHANGED <<file, peeker, reader, pc, result, dataLen, hashEnd, region,
                     completedChunkSizes, walk, history>>
    BY DEF RecomputeByte, RecomputeCapacity
<1>2. /\ MinSize \in Nat /\ fileSize \in Nat /\ origin \in Nat /\ s \in Nat
      /\ n \in Nat /\ Last(c) <= s /\ Last(c) \in Nat
      /\ origin + s + 2 * MinSize <= fileSize
    BY <1>1, PlanFacts
<1>3. /\ pos = origin
      /\ first \in Nat /\ first \in MinSize .. (2 * MinSize - 1)
      /\ r \in 2 .. n
      /\ c[r - 1] \in Nat /\ c[r] \in Nat
      /\ c[r - 1] < first /\ first < c[r] /\ c[r] - c[r - 1] < MinSize
      /\ c[r] <= Last(c)
      /\ points \in Seq(Nat) /\ Len(points) = n + 1
      /\ \A k \in r .. n : points[k] = c[k] - first
      /\ points[n + 1] = s - first
      /\ old \in Frontier /\ FrontierFits(old, origin + first)
      /\ old.scannedOffset \in Nat
      /\ Last(old.candidateOffsets) \in Nat
      /\ Last(old.candidateOffsets) <= old.scannedOffset
    BY <1>1, RecomputeFacts
<1> HIDE DEF c, s, n, r, first, points, old
<1>4. old.scannedOffset < c[r] - first - 1
  <2>1. r \in r .. n
    BY <1>2, <1>3
  <2> QED
    BY <1>1, <1>3, <2>1
<1>5. old.currentHash = i
  <2>1. old.currentHash = (origin + first) + MinSize + old.scannedOffset
    BY <1>3 DEF FrontierFits
  <2> QED
    BY <1>2, <1>3, <2>1
<1> HIDE DEF i
<1>6. /\ new \in Frontier /\ new.scannedOffset = old.scannedOffset + 1
      /\ FrontierFits(new, origin + first)
  <2>1. /\ origin + first \in Nat
        /\ (origin + first) + old.scannedOffset + 2 * MinSize < fileSize
        /\ old.scannedOffset + 1 - Last(old.candidateOffsets) < MinSize
    <3> DEFINE a == c[r - 1]
               b == c[r]
               l == Last(old.candidateOffsets)
               t == Last(c)
               o == old.scannedOffset
    <3>1. /\ a \in Nat /\ b \in Nat /\ l \in Nat /\ o \in Nat /\ t \in Nat
          /\ a < first /\ b - a < MinSize /\ b <= t /\ t <= s /\ o < b - first - 1
          /\ MinSize \in Nat /\ fileSize \in Nat /\ origin \in Nat /\ first \in Nat
          /\ s \in Nat /\ origin + s + 2 * MinSize <= fileSize
      BY <1>2, <1>3, <1>4
    <3> HIDE DEF a, b, l, o, t
    <3>2. /\ origin + first \in Nat
          /\ (origin + first) + o + 2 * MinSize < fileSize
          /\ o + 1 - l < MinSize
      BY <3>1
    <3> QED
      BY <3>2 DEF o, l
  <2>2. LET g == ScanByte(old, old.currentHash)
        IN  /\ g \in Frontier
            /\ g.scannedOffset = old.scannedOffset + 1
            /\ FrontierFits(g, origin + first)
    BY <1>3, <2>1, ScanFrontierFits DEF IInv
  <2> QED
    BY <1>5, <2>2
<1> HIDE DEF new
<1>7. /\ after \in Seq(Nat) /\ Len(after) = n + 1
      /\ \A k \in r .. (n + 1) : after[k] = points[k]
  <2>1. CASE inPlace
    <3>1. m \in Nat /\ m > 0 /\ Last(new.candidateOffsets) \in Nat
      <4>1. m \in Nat /\ \A k \in 1 .. m : new.candidateOffsets[k] \in Nat
        BY <1>6, FrontierTypes
      <4>2. m > 0
        BY <1>6, FrontierTypes DEF FrontierFits
      <4> HIDE DEF m
      <4>3. m \in 1 .. m
        BY <4>1, <4>2
      <4> QED
        BY <4>1, <4>2, <4>3 DEF Last, m
    <3> DEFINE v == Last(new.candidateOffsets)
    <3>2. m <= r - 1 /\ m \in 1 .. (n + 1)
      <4>1. m <= r - 1
        BY <2>1
      <4> HIDE DEF m
      <4>2. m \in Nat /\ m > 0 /\ n \in Nat /\ r \in 2 .. n
        BY <1>2, <1>3, <3>1
      <4> QED
        BY <4>1, <4>2
    <3>3. after = [points EXCEPT ![m] = v]
      BY <2>1
    <3>4. v \in Nat
      BY <3>1
    <3> HIDE DEF v, m, after
    <3>5. points = [k \in 1 .. (n + 1) |-> points[k]] /\ \A k \in 1 .. (n + 1) : points[k] \in Nat
      BY <1>3, ElementOfSeq
    <3>6. /\ after = [k \in 1 .. (n + 1) |-> IF k = m THEN v ELSE points[k]]
          /\ n + 1 \in Nat
      <4> DEFINE dom == 1 .. (n + 1)
      <4>1. points = [k \in dom |-> points[k]]
        BY <3>5
      <4>2. DOMAIN points = dom
        BY <4>1
      <4> HIDE DEF dom
      <4>3. after = [k \in dom |-> IF k = m THEN v ELSE points[k]]
        BY <3>3, <4>2
      <4> QED
        BY <1>2, <4>3 DEF dom
    <3>7. after \in Seq(Nat) /\ Len(after) = n + 1
      BY <3>4, <3>5, <3>6
    <3>8. ASSUME NEW k \in r .. (n + 1) PROVE after[k] = points[k]
      <4>1. k \in 1 .. (n + 1) /\ k # m
        BY <1>2, <1>3, <3>1, <3>2
      <4> QED
        BY <3>6, <4>1
    <3> QED
      BY <3>7, <3>8
  <2>2. CASE ~ inPlace
    BY <1>3, <2>2
  <2> QED
    BY <2>1, <2>2
<1> HIDE DEF after
<1>8. rebase \in [points : Seq(Nat), reusable : Nat, first : Nat, recomputed : Frontier]
    BY DEF IInv, TypeOK
<1>9. /\ rebase'.points = after /\ rebase'.reusable = r /\ rebase'.first = first
      /\ rebase'.recomputed = new
      /\ rebase' \in [points : Seq(Nat), reusable : Nat, first : Nat, recomputed : Frontier]
    BY <1>1, <1>6, <1>7, <1>8 DEF r, first
<1>10. TypeOK'
    BY <1>1, <1>9 DEF IInv, TypeOK, file, peeker, reader, history
<1>11. AlwaysInv' /\ QueueInv' /\ PlanInv'
    BY <1>1, PlanKept
<1>12. RecomputeInv'
  <2>1. frontier' = frontier /\ origin' = origin /\ UNCHANGED file
    BY <1>1 DEF reader, history
  <2>2. FrontierFits(rebase.recomputed, origin + rebase.first)'
    BY <1>6, <1>9, <2>1 DEF FrontierFits, Increasing, Close, AreRecordMaxima, file
  <2>3. /\ \A k \in r .. n : after[k] = c[k] - first
        /\ after[n + 1] = s - first
    <3>1. ASSUME NEW k \in r .. n PROVE after[k] = c[k] - first
      <4>1. k \in r .. (n + 1)
        BY <1>2, <1>3
      <4>2. after[k] = points[k] /\ points[k] = c[k] - first
        BY <1>3, <1>7, <4>1
      <4> QED
        BY <4>2
    <3>2. n + 1 \in r .. (n + 1)
      BY <1>2, <1>3
    <3>3. after[n + 1] = points[n + 1]
      BY <1>7, <3>2
    <3>4. points[n + 1] = s - first
      BY <1>3
    <3> QED
      BY <3>1, <3>3, <3>4
  <2>4. new.scannedOffset < after[r]
    <3>1. r \in r .. n
      BY <1>2, <1>3
    <3> QED
      BY <1>3, <1>4, <1>6, <2>3, <3>1
  <2> QED
    BY <1>3, <1>7, <1>9, <2>1, <2>2, <2>3, <2>4 DEF RecomputeInv, c, s, n
<1> QED
    BY <1>1, <1>10, <1>11, <1>12 DEF IInv, RegionInv, WalkInv

\* The score of every cut at which two chunks still fit is a number.
LEMMA AtTyped ==
    ASSUME TypeOK, NEW start \in Nat, NEW o \in Nat, start + o + 2 * MinSize <= fileSize
    PROVE  At(start, o) \in Nat
<1>1. start + MinSize + o \in MinSize .. (fileSize - MinSize)
    BY MinSizeAssumption DEF TypeOK
<1> QED
    BY <1>1 DEF TypeOK, CutsOf, At

\* The recomputed candidates and the reusable ones are together the records of
\* the next chunk: the first reusable score exceeds all that was recomputed,
\* because it exceeded the last candidate that did not survive.
LEMMA FinishRecomputeIInv ==
    ASSUME IInv, FinishRecompute PROVE IInv'
<1> DEFINE c == frontier.candidateOffsets
           s == frontier.scannedOffset
           n == Len(c)
           r == rebase.reusable
           first == rebase.first
           points == rebase.points
           old == rebase.recomputed
           e == old.candidateOffsets
           t == SubSeq(points, r, Len(points))
           d == SubSeq(points, r, n)
           x == s - first
           start == origin + first
<1>1. /\ pc = "recompute" /\ old.scannedOffset >= points[r] - 1
      /\ ReturnForcedChunk(first, e \o t)
      /\ rebase' = NoRebase
      /\ UNCHANGED <<file, peeker, dataLen, hashEnd, region, completedChunkSizes, walk>>
    BY DEF FinishRecompute
<1>2. /\ MinSize \in Nat /\ fileSize \in Nat /\ origin \in Nat
      /\ c \in Seq(Nat) /\ s \in Nat /\ n \in Nat /\ Last(c) <= s /\ Last(c) \in Nat
      /\ origin + s + 2 * MinSize <= fileSize
      /\ Increasing(c) /\ Close(c) /\ AreRecordMaxima(c, origin, s)
    BY <1>1, PlanFacts DEF FrontierFits
<1>3. /\ handedOut = origin
      /\ first \in Nat /\ r \in 2 .. n
      /\ c[r - 1] \in Nat /\ c[r] \in Nat
      /\ c[r - 1] < first /\ first < c[r] /\ c[r] - c[r - 1] < MinSize
      /\ c[r] <= Last(c)
      /\ points \in Seq(Nat) /\ Len(points) = n + 1
      /\ \A k \in r .. n : points[k] = c[k] - first
      /\ points[n + 1] = s - first
      /\ old \in Frontier /\ FrontierFits(old, origin + first)
      /\ old.scannedOffset \in Nat /\ old.scannedOffset < c[r] - first
      /\ Last(e) \in Nat /\ Last(e) <= old.scannedOffset
    BY <1>1, RecomputeFacts
<1>4. /\ e \in Seq(Nat) /\ Increasing(e) /\ Close(e)
      /\ AreRecordMaxima(e, start, old.scannedOffset)
    BY <1>3, FrontierTypes DEF FrontierFits
<1> HIDE DEF c, s, n, r, first, points, old, e, start
<1>5. old.scannedOffset = (c[r] - first) - 1
  <2>1. r \in r .. n
    BY <1>2, <1>3
  <2>2. points[r] = c[r] - first
    BY <1>3, <2>1
  <2> QED
    BY <1>1, <1>3, <2>2
<1>6. x \in Nat /\ start \in Nat /\ first <= s
    BY <1>2, <1>3 DEF start
<1>7. d \in Seq(Nat) /\ Len(d) = n + 1 - r /\ d # <<>>
      /\ \A k \in 1 .. (n + 1 - r) : d[k] = points[r + k - 1]
  <2>1. \A k \in r .. n : points[k] \in Nat
    <3>1. ASSUME NEW k \in r .. n PROVE k \in 1 .. Len(points)
      BY <1>2, <1>3
    <3> QED
      BY <1>3, <3>1, ElementOfSeq
  <2>2. /\ d \in Seq(Nat)
        /\ Len(d) = IF r <= n THEN n - r + 1 ELSE 0
        /\ \A k \in 1 .. (n - r + 1) : d[k] = points[r + k - 1]
    <3>1. r \in Int /\ n \in Int
      BY <1>2, <1>3
    <3> QED
      BY <2>1, <3>1, SubSeqProperties
  <2> HIDE DEF d
  <2>3. n - r + 1 = n + 1 - r /\ r <= n /\ n + 1 - r > 0
    BY <1>2, <1>3
  <2> QED
    BY <2>2, <2>3, EmptySeq
<1>8. IsShifted(d, c, r, first)
  <2>1. ASSUME NEW k \in 1 .. (n + 1 - r) PROVE points[r + k - 1] = c[r + k - 1] - first
    <3>1. r + k - 1 \in r .. n
      BY <1>2, <1>3
    <3> QED
      BY <1>3, <3>1
  <2> HIDE DEF d
  <2> QED
    BY <1>7, <2>1 DEF IsShifted, n
<1>9. t = Append(d, x)
  <2>1. Len(points) = n + 1 /\ (n + 1) - 1 = n
    BY <1>2, <1>3
  <2>2. t = d \o <<points[n + 1]>>
    <3>1. r \in 1 .. Len(points) /\ n + 1 \in r .. Len(points)
      BY <1>2, <1>3
    <3>2. SubSeq(points, r, n + 1) = SubSeq(points, r, (n + 1) - 1) \o <<points[n + 1]>>
      BY <1>3, <3>1, SubSeqRecursiveSecond
    <3> QED
      BY <2>1, <3>2
  <2> HIDE DEF d, t
  <2>3. points[n + 1] = x
    BY <1>3
  <2> QED
    BY <1>6, <1>7, <2>2, <2>3, AppendIsConcat
<1> HIDE DEF d, t, x
<1>10. e \o t = Append(e \o d, x)
  <2>1. e \o d \in Seq(Nat)
    BY <1>4, <1>7, ConcatProperties
  <2>2. <<x>> \in Seq(Nat)
    BY <1>6
  <2>3. (e \o d) \o <<x>> = e \o (d \o <<x>>)
    BY <1>4, <1>7, <2>2, ConcatAssociative
  <2> QED
    BY <1>6, <1>7, <1>9, <2>1, <2>3, AppendIsConcat
<1>11. /\ RecordTail(d, start, x)
       /\ Increasing(d) /\ Close(d) /\ Last(d) = Last(c) - first
  <2>1. r \in 1 .. n
    BY <1>2, <1>3
  <2>2. r \in 1 .. Len(c)
    BY <2>1 DEF n
  <2>3. /\ first \in Nat /\ c \in Seq(Nat) /\ s \in Nat /\ origin \in Nat
        /\ Increasing(c) /\ Close(c) /\ AreRecordMaxima(c, origin, s)
    BY <1>2, <1>3
  <2> QED
    BY <1>6, <1>8, <2>2, <2>3, ShiftedFits DEF x, start
<1>12. d[1] = c[r] - first /\ d[1] > 0
  <2>1. 1 \in 1 .. (n + 1 - r) /\ r + 1 - 1 = r /\ r \in r .. n
    BY <1>2, <1>3
  <2>2. d[1] = points[r + 1 - 1]
    BY <1>7, <2>1
  <2> QED
    BY <1>3, <2>1, <2>2
<1>13. At(start, Last(e)) < At(start, d[1])
  <2> DEFINE o == first + Last(e)
             a == c[r - 1]
             b == c[r]
  <2>1. a \in Nat /\ b \in Nat /\ o \in Nat /\ a <= o /\ o < b /\ b <= s
    <3> DEFINE l == Last(e)
               u == Last(c)
    <3>1. /\ l \in Nat /\ u \in Nat /\ a \in Nat /\ b \in Nat
          /\ l <= old.scannedOffset /\ old.scannedOffset < b - first
          /\ b <= u /\ u <= s /\ a < first
          /\ o = first + l /\ first \in Nat /\ s \in Nat /\ old.scannedOffset \in Nat
      BY <1>2, <1>3
    <3> HIDE DEF l, u, a, b, o
    <3> QED
      BY <3>1
  <2>2. r - 1 \in 1 .. (n - 1) /\ (r - 1) + 1 = r
    BY <1>2, <1>3
  <2>3. /\ \A y \in c[r - 1] .. (c[(r - 1) + 1] - 1) : At(origin, y) <= At(origin, c[r - 1])
        /\ At(origin, c[r - 1]) < At(origin, c[(r - 1) + 1])
    BY <1>2, <2>2, RecordMaxima DEF n
  <2>4. At(origin, o) <= At(origin, a) /\ At(origin, a) < At(origin, b)
    <3>1. o \in c[r - 1] .. (c[(r - 1) + 1] - 1)
      <4>1. o \in a .. (b - 1)
        <5> HIDE DEF a, b, o
        <5> QED
          BY <2>1
      <4> QED
        BY <2>2, <4>1
    <3> QED
      BY <2>2, <2>3, <3>1
  <2>5. At(origin, o) \in Nat /\ At(origin, a) \in Nat /\ At(origin, b) \in Nat
    <3> HIDE DEF a, b, o
    <3>1. /\ origin + o + 2 * MinSize <= fileSize
          /\ origin + a + 2 * MinSize <= fileSize
          /\ origin + b + 2 * MinSize <= fileSize
      BY <1>2, <2>1
    <3>2. TypeOK
      BY DEF IInv
    <3> QED
      BY <1>2, <2>1, <3>1, <3>2, AtTyped
  <2>6. At(start, Last(e)) = At(origin, o)
    <3>1. Last(e) \in Int /\ origin \in Nat /\ first \in Nat
      BY <1>2, <1>3
    <3> QED
      BY <3>1, AtShift DEF start
  <2>7. At(start, d[1]) = At(origin, b)
    <3>1. c[r] - first \in Int /\ first + (c[r] - first) = c[r]
      BY <1>3
    <3>2. At(origin + first, c[r] - first) = At(origin, first + (c[r] - first))
      <4>1. origin \in Nat /\ first \in Nat
        BY <1>2, <1>3
      <4> QED
        BY <3>1, <4>1, AtShift
    <3> QED
      BY <1>12, <3>1, <3>2 DEF start
  <2> HIDE DEF a, b, o
  <2> QED
    BY <2>4, <2>5, <2>6, <2>7
<1>14. d[1] - Last(e) < MinSize
  <2> DEFINE a == c[r - 1]
             b == c[r]
             l == Last(e)
  <2>1. /\ a \in Nat /\ b \in Nat /\ l \in Nat /\ first \in Nat /\ MinSize \in Nat
        /\ a < first /\ b - a < MinSize
    BY <1>2, <1>3
  <2>2. d[1] = b - first
    BY <1>12
  <2> HIDE DEF a, b, l
  <2>3. (b - first) - l < MinSize
    BY <2>1
  <2> QED
    BY <2>2, <2>3 DEF l
<1>15. AreRecordMaxima(e, start, d[1] - 1)
    BY <1>4, <1>5, <1>12
<1> DEFINE j == e \o d
<1>16. /\ j \in Seq(Nat) /\ j # <<>> /\ Last(j) = Last(d)
       /\ AreRecordMaxima(j, start, x)
       /\ Increasing(j) /\ Close(j)
    BY <1>4, <1>6, <1>7, <1>11, <1>12, <1>13, <1>14, <1>15, JoinedFits
<1> HIDE DEF j
<1>17. LET f == FrontierFrom(Append(j, x))
       IN  f \in Frontier /\ FrontierFits(f, start)
    BY <1>1, <1>3, <1>6, <1>11, <1>16, SurvivingFits DEF x, s, c, start
<1>18. /\ frontier' = FrontierFrom(Append(j, x)) /\ ReturnChunk(first)
       /\ origin' = start /\ UNCHANGED readyChunkSizes
    BY <1>1, <1>10 DEF ReturnForcedChunk, j, start
<1>19. /\ walk' \in [selected : Nat, next : Int, batch : Seq(ChunkPlan)]
       /\ rebase' \in [points : Seq(Nat), reusable : Nat, first : Nat,
                       recomputed : Frontier]
  <2>1. NoRebase \in [points : Seq(Nat), reusable : Nat, first : Nat,
                      recomputed : Frontier]
    BY EmptySeq DEF NoRebase, NoFrontier, NoHash, Frontier
  <2> QED
    BY <1>1, <2>1 DEF IInv, TypeOK
<1>20. origin + first <= fileSize
    BY <1>2, <1>3, <1>6
<1>21. FrontierFrom(Append(j, x)).candidateOffsets # <<>>
    BY <1>17 DEF FrontierFits
<1> QED
    BY <1>1, <1>3, <1>17, <1>18, <1>19, <1>20, <1>21, ForcedReturnIInv DEF start

\* Every step keeps the invariant.
LEMMA NextIInv ==
    ASSUME IInv, [Next]_vars PROVE IInv'
<1>1. CASE DiscardPrevious \/ DiscardFails
    BY <1>1, DiscardIInv
<1>2. CASE PeekFails \/ ReturnEndOfFile
    BY <1>2, GiveUpIInv
<1>3. CASE ReturnReadyChunk
    BY <1>3, ReadyIInv
<1>4. CASE ReturnTail
    BY <1>4, TailIInv
<1>5. CASE StartPlan
    BY <1>5, StartPlanIInv
<1>6. CASE StartRegion
    BY <1>6, StartRegionIInv
<1>7. CASE HashByte
    BY <1>7, HashByteIInv
<1>8. CASE EndRegion
    BY <1>8, EndRegionIInv
<1>9. CASE WalkBack
    BY <1>9, WalkBackIInv
<1>10. CASE FinishStable
    BY <1>10, FinishStableIInv
<1>11. CASE ReturnCompletedChunk
    BY <1>11, ReturnCompletedIInv
<1>12. CASE StartForced
    BY <1>12, StartForcedIInv
<1>13. CASE RebaseFrontier
    BY <1>13, RebaseIInv
<1>14. CASE StartRecompute
    BY <1>14, StartRecomputeIInv
<1>15. CASE RecomputeByte
    BY <1>15, RecomputeByteIInv
<1>16. CASE FinishRecompute
    BY <1>16, FinishRecomputeIInv
<1>17. CASE UNCHANGED vars
  <2>1. UNCHANGED <<file, peeker, reader, pc, result, plan, history>>
    BY <1>17 DEF vars
  <2>2. TypeOK'
    BY <2>1 DEF IInv, TypeOK, file, peeker, reader, plan, history
  <2>3. AlwaysInv'
    BY <2>1, FrontierKept DEF IInv, AlwaysInv, file, peeker, reader, history
  <2>4. QueueInv'
    BY <2>1 DEF IInv, QueueInv, Adjacent, EndBy, reader, history
  <2>5. PlanInv'
    BY <2>1
    DEF IInv, PlanInv, HasFrontier, Adjacent, EndBy, file, peeker, reader, plan, history
  <2>6. RegionInv'
    BY <2>1 DEF IInv, RegionInv, IsStable, BytesUntilStable, reader, plan
  <2>7. WalkInv'
    BY <2>1
    DEF IInv, WalkInv, WalkFits, BatchFits, BytesUntilStable, SelectedOffset, CutAt,
        Adjacent, EndBy, reader, plan, history
  <2>8. RecomputeInv'
    BY <2>1
    DEF IInv, RecomputeInv, FrontierFits, Increasing, Close, AreRecordMaxima, file,
        reader, plan, history
  <2> QED
    BY <2>2, <2>3, <2>4, <2>5, <2>6, <2>7, <2>8 DEF IInv
<1> QED
    BY <1>1, <1>2, <1>3, <1>4, <1>5, <1>6, <1>7, <1>8, <1>9, <1>10, <1>11, <1>12,
       <1>13, <1>14, <1>15, <1>16, <1>17
    DEF Next, ReaderStep

\* So it always holds.
LEMMA Invariance == Spec => []IInv
<1>1. Init => IInv
    BY InitIInv
<1>2. IInv /\ [Next]_vars => IInv'
    BY NextIInv
<1> QED
    BY <1>1, <1>2, PTL DEF Spec

-----------------------------------------------------------------------------
\* The invariants the model checker checks

\* Every variable keeps its type, so that no offset, size or length the reader
\* computes is negative, and the Peeker never stands beyond the end.
THEOREM TypeCorrect == Spec => []TypeOK
<1>1. IInv => TypeOK
    BY DEF IInv
<1> QED
    BY <1>1, Invariance, PTL

\* The chunks ReadNextChunk has returned, the queued ones and the frontier
\* cover the file without a gap or an overlap, whatever Discard and Peek fail.
THEOREM NothingLostCorrect == Spec => []NothingLost
<1>1. IInv => NothingLost
    BY DEF IInv, AlwaysInv, QueueInv, PlanInv, WalkInv, BatchFits, NothingLost
<1> QED
    BY <1>1, Invariance, PTL

\* The frontier always is what the comment on repMaxFrontier says it is.
THEOREM FrontierExact == Spec => []FrontierIsExact
<1>1. IInv => FrontierIsExact
    BY DEF IInv, AlwaysInv, FrontierFits, FrontierIsExact, CutAt, Last
<1> QED
    BY <1>1, Invariance, PTL

\* Its candidates and its cursor are less than MinSize apart, with room for
\* two more chunks.
THEOREM FrontierTight == Spec => []FrontierIsTight
<1>1. IInv => FrontierIsTight
    BY DEF IInv, AlwaysInv, FrontierFits, Close, FrontierIsTight
<1> QED
    BY <1>1, Invariance, PTL

\* Neither backward walk leaves the list of candidates, no region of the scan
\* has a negative length, and a rebase never begins with the cursor.
THEOREM IndicesCorrect == Spec => []IndicesInRange
<1>1. ASSUME IInv PROVE IndicesInRange
  <2>1. ASSUME pc \in {"stable", "forced"}
        PROVE  /\ walk.selected \in 1 .. Len(frontier.candidateOffsets)
               /\ SelectedOffset >= MinSize => walk.next >= 1
    BY <1>1, <2>1, WalkIndices
  <2>2. ASSUME pc = "scan" PROVE BytesUntilStable >= 0
    <3> DEFINE s == frontier.scannedOffset
               l == Last(frontier.candidateOffsets)
    <3>1. MinSize \in Nat /\ s \in Nat /\ l \in Nat /\ s - l < MinSize
      BY <1>1, <2>2, PlanFacts
    <3>2. BytesUntilStable = l + MinSize - 1 - s
      BY DEF BytesUntilStable
    <3> HIDE DEF s, l
    <3> QED
      BY <3>1, <3>2
  <2>3. ASSUME pc = "recompute" PROVE rebase.reusable < Len(rebase.points)
    <3>1. /\ rebase.reusable \in 2 .. Len(frontier.candidateOffsets)
          /\ Len(rebase.points) = Len(frontier.candidateOffsets) + 1
      BY <1>1, <2>3, RecomputeFacts
    <3>2. Len(frontier.candidateOffsets) \in Nat
      BY <1>1, <2>3, PlanFacts
    <3> QED
      BY <3>1, <3>2
  <2> QED
    BY <2>1, <2>2, <2>3 DEF IndicesInRange
<1> QED
    BY <1>1, Invariance, PTL

-----------------------------------------------------------------------------
\* The size of every chunk

\* What is left after the origin is nothing, a chunk at least, or the file.
RestInv == origin = 0 \/ origin = fileSize \/ origin + MinSize <= fileSize

\* A forced chunk and a stable batch leave room for a chunk.
LEMMA NextRestInv ==
    ASSUME IInv, RestInv, [Next]_vars PROVE RestInv'
<1>1. CASE UNCHANGED <<origin, file>>
    BY <1>1 DEF RestInv, file
<1>2. CASE ReturnTail
  <2>1. /\ readyChunkSizes = <<>> /\ pc = "peek"
        /\ Available(fileSize, pos) \in 1 .. (2 * MinSize - 1)
        /\ origin' = origin + Available(fileSize, pos) /\ fileSize' = fileSize
    BY <1>2 DEF ReturnTail, file
  <2>2. /\ pos \in Nat /\ fileSize \in Nat /\ pos <= fileSize /\ origin \in Nat
        /\ MinSize \in Nat /\ Horizon \in Nat
        /\ pos = origin
    <3>1. handedOut = origin
      BY <2>1, EmptyQueue DEF IInv, QueueInv
    <3>2. pos + 0 = handedOut
      BY <2>1 DEF IInv, AlwaysInv
    <3> QED
      BY <3>1, <3>2, MinSizeAssumption, HorizonAssumption DEF IInv, TypeOK
  <2>3. Available(fileSize, pos) = fileSize - pos
    BY <2>1, <2>2 DEF Available, PeekSize
  <2>4. origin + (fileSize - pos) = fileSize
    BY <2>2
  <2> QED
    BY <2>1, <2>3, <2>4 DEF RestInv
<1>3. CASE FinishStable
  <2>1. /\ pc = "stable" /\ fileSize' = fileSize
        /\ origin' = origin + MinSize + Last(frontier.candidateOffsets)
    BY <1>3 DEF FinishStable, file
  <2>2. /\ MinSize \in Nat /\ fileSize \in Nat /\ origin \in Nat
        /\ Last(frontier.candidateOffsets) \in Nat /\ frontier.scannedOffset \in Nat
        /\ Last(frontier.candidateOffsets) <= frontier.scannedOffset
        /\ origin + frontier.scannedOffset + 2 * MinSize <= fileSize
    BY <2>1, PlanFacts
  <2>3. (origin + MinSize + Last(frontier.candidateOffsets)) + MinSize <= fileSize
    BY <2>2
  <2> QED
    BY <2>1, <2>3 DEF RestInv
<1>4. CASE RebaseFrontier \/ FinishRecompute
  <2>1. PICK first \in Nat : /\ origin' = origin + first /\ fileSize' = fileSize
                             /\ origin + first + MinSize <= fileSize
    <3>1. CASE RebaseFrontier
      <4>1. /\ pc = "forced" /\ fileSize' = fileSize
            /\ origin' = origin + (MinSize + SelectedOffset)
        BY <3>1 DEF RebaseFrontier, ReturnForcedChunk, file
      <4>2. /\ MinSize \in Nat /\ fileSize \in Nat /\ origin \in Nat
            /\ SelectedOffset \in Nat /\ frontier.scannedOffset \in Nat
            /\ Last(frontier.candidateOffsets) \in Nat
            /\ SelectedOffset <= Last(frontier.candidateOffsets)
            /\ Last(frontier.candidateOffsets) <= frontier.scannedOffset
            /\ origin + frontier.scannedOffset + 2 * MinSize <= fileSize
        BY <4>1, PlanFacts, WalkIndices
      <4>3. /\ MinSize + SelectedOffset \in Nat
            /\ origin + (MinSize + SelectedOffset) + MinSize <= fileSize
        BY <4>2
      <4> QED
        BY <4>1, <4>3
    <3>2. CASE FinishRecompute
      <4> DEFINE first == rebase.first
                 b == frontier.candidateOffsets[rebase.reusable]
                 l == Last(frontier.candidateOffsets)
                 s == frontier.scannedOffset
      <4>1. pc = "recompute" /\ fileSize' = fileSize /\ origin' = origin + first
        BY <3>2 DEF FinishRecompute, ReturnForcedChunk, file
      <4>2. /\ MinSize \in Nat /\ fileSize \in Nat /\ origin \in Nat
            /\ l \in Nat /\ s \in Nat /\ l <= s /\ origin + s + 2 * MinSize <= fileSize
        BY <4>1, PlanFacts
      <4>3. first \in Nat /\ b \in Nat /\ first < b /\ b <= l
        BY <4>1, RecomputeFacts
      <4> HIDE DEF first, b, l, s
      <4>4. origin + first + MinSize <= fileSize
        BY <4>2, <4>3
      <4> QED
        BY <4>1, <4>3, <4>4
    <3> QED
      BY <1>4, <3>1, <3>2
  <2> QED
    BY <2>1 DEF RestInv
<1> QED
    BY <1>1, <1>2, <1>3, <1>4
    DEF Next, ReaderStep, vars, history, DiscardPrevious, DiscardFails, PeekFails,
        ReturnReadyChunk, ReturnEndOfFile, StartPlan, StartRegion, HashByte, EndRegion,
        WalkBack, ReturnCompletedChunk, StartForced, StartRecompute, RecomputeByte

\* What ChunksAreBounded asks of a step that returns a chunk.
ChunkIsBounded ==
    handedOut' # handedOut =>
        \/ handedOut' - handedOut \in MinSize .. (2 * MinSize - 1)
        \/ handedOut = 0 /\ handedOut' = fileSize

\* Queued, completed and forced chunks have legal sizes; the rest of the file
\* is returned whole when it is less than two chunks, and is one at least.
LEMMA NextChunkIsBounded ==
    ASSUME IInv, RestInv, [Next]_vars PROVE ChunkIsBounded
<1>1. handedOut \in Nat /\ MinSize \in Nat /\ MinSize > 0
    BY MinSizeAssumption DEF IInv, TypeOK
<1>2. ASSUME NEW size \in MinSize .. (2 * MinSize - 1), handedOut' = handedOut + size
      PROVE  ChunkIsBounded
  <2>1. (handedOut + size) - handedOut \in MinSize .. (2 * MinSize - 1)
    BY <1>1, <1>2
  <2> QED
    BY <1>2, <2>1 DEF ChunkIsBounded
<1>3. CASE handedOut' = handedOut
    BY <1>3 DEF ChunkIsBounded
<1>4. CASE ReturnReadyChunk
  <2>1. /\ pc = "peek" /\ readyChunkSizes # <<>> /\ readyChunkSizes \in Seq(ChunkPlan)
        /\ EndBy(readyChunkSizes, origin)
        /\ handedOut' = handedOut + Last(readyChunkSizes).size
    BY <1>4 DEF ReturnReadyChunk, ReturnChunk, IInv, TypeOK, QueueInv
  <2>2. Len(readyChunkSizes) \in 1 .. Len(readyChunkSizes)
    BY <2>1, PlannedChunks
  <2>3. Last(readyChunkSizes).size \in MinSize .. (2 * MinSize - 1)
    BY <2>1, <2>2 DEF EndBy, Last
  <2> QED
    BY <1>2, <2>1, <2>3
<1>5. CASE ReturnCompletedChunk
  <2>1. /\ pc = "scan" /\ completedChunkSizes # <<>> /\ completedChunkSizes \in Seq(ChunkPlan)
        /\ EndBy(completedChunkSizes, origin)
        /\ handedOut' = handedOut + completedChunkSizes[1].size
    BY <1>5 DEF ReturnCompletedChunk, ReturnChunk, IInv, TypeOK, PlanInv
  <2>2. 1 \in 1 .. Len(completedChunkSizes)
    BY <2>1, PlannedChunks
  <2>3. completedChunkSizes[1].size \in MinSize .. (2 * MinSize - 1)
    BY <2>1, <2>2 DEF EndBy
  <2> QED
    BY <1>2, <2>1, <2>3
<1>6. CASE ReturnTail
  <2>1. /\ readyChunkSizes = <<>> /\ pc = "peek"
        /\ Available(fileSize, pos) \in 1 .. (2 * MinSize - 1)
        /\ handedOut' = handedOut + Available(fileSize, pos)
    BY <1>6 DEF ReturnTail, ReturnChunk
  <2>2. handedOut = origin
    BY <2>1, EmptyQueue DEF IInv, QueueInv
  <2>3. /\ pos \in Nat /\ fileSize \in Nat /\ pos <= fileSize
        /\ Horizon \in Nat /\ pos = origin
    <3>1. pos + 0 = handedOut
      BY <2>1 DEF IInv, AlwaysInv
    <3> QED
      BY <2>2, <3>1, HorizonAssumption DEF IInv, TypeOK
  <2>4. Available(fileSize, pos) = fileSize - origin
    BY <1>1, <2>1, <2>3 DEF Available, PeekSize
  <2>5. CASE origin = 0
    <3>1. 0 + (fileSize - 0) = fileSize
      BY <2>3
    <3> QED
      BY <2>1, <2>2, <2>4, <2>5, <3>1 DEF ChunkIsBounded
  <2>6. CASE origin # 0
    <3>1. fileSize - origin \in MinSize .. (2 * MinSize - 1)
      BY <1>1, <2>1, <2>3, <2>4, <2>6 DEF RestInv
    <3> QED
      BY <1>2, <2>1, <2>4, <3>1
  <2> QED
    BY <2>5, <2>6
<1>7. CASE RebaseFrontier
  <2>1. /\ pc = "forced" /\ SelectedOffset < MinSize
        /\ handedOut' = handedOut + (MinSize + SelectedOffset)
    BY <1>7 DEF RebaseFrontier, ReturnForcedChunk, ReturnChunk
  <2>2. MinSize + SelectedOffset \in MinSize .. (2 * MinSize - 1)
    BY <2>1, ReusableFacts
  <2> QED
    BY <1>2, <2>1, <2>2
<1>8. CASE FinishRecompute
  <2>1. pc = "recompute" /\ handedOut' = handedOut + rebase.first
    BY <1>8 DEF FinishRecompute, ReturnForcedChunk, ReturnChunk
  <2>2. rebase.first \in MinSize .. (2 * MinSize - 1)
    BY <2>1, RecomputeFacts
  <2> QED
    BY <1>2, <2>1, <2>2
<1> QED
    BY <1>3, <1>4, <1>5, <1>6, <1>7, <1>8
    DEF Next, ReaderStep, vars, history, DiscardPrevious, DiscardFails, PeekFails,
        ReturnEndOfFile, StartPlan, StartRegion, HashByte, EndRegion, WalkBack,
        FinishStable, StartForced, StartRecompute, RecomputeByte

\* Every chunk returned has MinSize to 2*MinSize - 1 bytes, unless it is the
\* whole of a file shorter than that.
THEOREM ChunksBounded == Spec => ChunksAreBounded
<1>1. Init => RestInv
    BY DEF Init, RestInv
<1>2. IInv /\ RestInv /\ [Next]_vars => RestInv'
    BY NextRestInv
<1>3. IInv /\ RestInv /\ [Next]_vars =>
          [handedOut' # handedOut =>
              \/ handedOut' - handedOut \in MinSize .. (2 * MinSize - 1)
              \/ handedOut = 0 /\ handedOut' = fileSize]_vars
    BY NextChunkIsBounded DEF ChunkIsBounded
<1> QED
    BY <1>1, <1>2, <1>3, Invariance, PTL DEF Spec, ChunksAreBounded

-----------------------------------------------------------------------------
\* What a plan has seen

\* A frontier that waits for the next plan does not reach beyond what that plan
\* will peek, and a plan searches all but MinSize of the bytes it sees.
HorizonInv ==
    /\ pc \in {"idle", "peek"} /\ HasFrontier =>
          origin + frontier.scannedOffset + 2 * MinSize <= handedOut + PeekSize
    /\ pc \notin {"idle", "peek"} =>
          dataLen = Available(fileSize, pos) - MinSize /\ hashEnd <= dataLen

\* Nor does the frontier of a plan reach beyond the data.
LEMMA FrontierIsSeen ==
    ASSUME IInv, HorizonInv, HasFrontier
    PROVE  origin + frontier.scannedOffset + 2 * MinSize <= handedOut + PeekSize
<1>1. CASE pc \in {"idle", "peek"}
    BY <1>1 DEF HorizonInv
<1>2. CASE pc \notin {"idle", "peek"}
  <2> DEFINE a == Available(fileSize, pos)
             s == frontier.scannedOffset
  <2>1. /\ MinSize \in Nat /\ pos \in Nat /\ hashEnd \in Nat /\ dataLen \in Nat
        /\ pos = handedOut /\ pos + hashEnd = origin + MinSize + s
        /\ origin \in Nat /\ s \in Nat /\ pos <= fileSize /\ fileSize \in Nat
    BY <1>2, PlanFacts
  <2>2. a \in Nat /\ a <= PeekSize /\ PeekSize \in Nat
    BY <2>1, AvailableBounds
  <2>3. dataLen = a - MinSize /\ hashEnd <= dataLen
    BY <1>2 DEF HorizonInv
  <2> HIDE DEF a, s
  <2>4. origin + s + 2 * MinSize <= handedOut + PeekSize
    BY <2>1, <2>2, <2>3
  <2> QED
    BY <2>4 DEF s
<1> QED
    BY <1>1, <1>2

\* Nothing is queued when a plan begins: the next chunk is the frontier's.
LEMMA PeekFacts ==
    ASSUME IInv, pc = "peek", readyChunkSizes = <<>>
    PROVE  /\ pos = handedOut /\ handedOut = origin
           /\ HasFrontier => Available(fileSize, pos) >= 2 * MinSize + frontier.scannedOffset
                             \/ Available(fileSize, pos) = PeekSize
<1>1. handedOut = origin /\ pos + previousChunkSizeBytes = handedOut
      /\ previousChunkSizeBytes = 0 /\ pos \in Nat
    BY EmptyQueue DEF IInv, TypeOK, QueueInv, AlwaysInv
<1>2. ASSUME HasFrontier, Available(fileSize, pos) # PeekSize
      PROVE  Available(fileSize, pos) >= 2 * MinSize + frontier.scannedOffset
  <2> DEFINE a == Available(fileSize, pos)
             s == frontier.scannedOffset
  <2>1. /\ origin + s + 2 * MinSize <= fileSize /\ s \in Nat
        /\ fileSize \in Nat /\ pos <= fileSize
    BY <1>2, FrontierTypes DEF IInv, TypeOK, AlwaysInv, FrontierFits
  <2>2. a \in Nat /\ pos + a = fileSize /\ MinSize \in Nat
    BY <1>1, <1>2, <2>1, AvailableBounds
  <2> HIDE DEF a, s
  <2> QED
    BY <1>1, <2>1, <2>2 DEF a, s
<1> QED
    BY <1>1, <1>2

\* What a rebase leaves of a frontier still ends at the same cursor, as its hash
\* shows.
LEMMA CursorKept ==
    ASSUME IInv, IInv', pc \in {"forced", "recompute"}, RebaseFrontier \/ FinishRecompute
    PROVE  HasFrontier' =>
             origin' + frontier'.scannedOffset = origin + frontier.scannedOffset
<1> SUFFICES ASSUME HasFrontier'
             PROVE  origin' + frontier'.scannedOffset = origin + frontier.scannedOffset
    OBVIOUS
<1>1. \E points : frontier' = FrontierFrom(points)
    BY DEF RebaseFrontier, FinishRecompute, ReturnForcedChunk
<1>2. frontier'.currentHash = frontier.currentHash
    BY <1>1 DEF FrontierFrom, NoFrontier, HasFrontier, Frontier
<1>3. /\ frontier.currentHash = origin + MinSize + frontier.scannedOffset
      /\ origin \in Nat /\ frontier.scannedOffset \in Nat /\ MinSize \in Nat
    BY PlanFacts DEF FrontierFits
<1>4. /\ frontier'.currentHash = origin' + MinSize + frontier'.scannedOffset
      /\ origin' \in Nat /\ frontier'.scannedOffset \in Nat
  <2>1. FrontierFits(frontier, origin)' /\ frontier' \in Frontier /\ origin' \in Nat
    BY DEF IInv, TypeOK, AlwaysInv
  <2> QED
    BY <2>1, FrontierTypes DEF FrontierFits
<1> QED
    BY <1>2, <1>3, <1>4

\* Every step keeps a frontier within the horizon.
LEMMA NextHorizonInv ==
    ASSUME IInv, IInv', HorizonInv, [Next]_vars PROVE HorizonInv'
<1>1. /\ MinSize \in Nat /\ MinSize > 0 /\ PeekSize \in Nat /\ 2 * MinSize <= PeekSize
      /\ fileSize \in Nat /\ pos \in Nat /\ origin \in Nat /\ handedOut \in Nat
      /\ handedOut' \in Nat /\ origin' \in Nat
      /\ pos <= fileSize
      /\ dataLen \in Nat /\ hashEnd \in Nat
      /\ frontier \in Frontier /\ frontier.scannedOffset \in Nat
    BY MinSizeAssumption, HorizonAssumption, FrontierTypes
    DEF IInv, TypeOK, AlwaysInv, PeekSize
<1>2. ASSUME UNCHANGED <<frontier, origin>>, handedOut' >= handedOut,
             pc' \in {"idle", "peek"}
      PROVE  HorizonInv'
  <2>1. HasFrontier => origin + frontier.scannedOffset + 2 * MinSize <= handedOut + PeekSize
    BY FrontierIsSeen
  <2>2. HasFrontier' <=> HasFrontier
    BY <1>2 DEF HasFrontier
  <2>3. HasFrontier => origin + frontier.scannedOffset + 2 * MinSize <= handedOut' + PeekSize
    BY <1>1, <1>2, <2>1
  <2> QED
    BY <1>2, <2>2, <2>3 DEF HorizonInv
<1>3. CASE DiscardPrevious \/ DiscardFails \/ PeekFails \/ ReturnEndOfFile
  <2>1. UNCHANGED <<frontier, origin, handedOut>> /\ pc' \in {"idle", "peek"}
    BY <1>3 DEF DiscardPrevious, DiscardFails, PeekFails, ReturnEndOfFile, ReturnError,
                reader, history
  <2> QED
    BY <1>1, <1>2, <2>1
<1>4. CASE ReturnReadyChunk
  <2>1. /\ UNCHANGED <<frontier, origin>> /\ pc' = "idle"
        /\ handedOut' = handedOut + Last(readyChunkSizes).size
        /\ readyChunkSizes \in Seq(ChunkPlan) /\ readyChunkSizes # <<>>
    BY <1>4 DEF ReturnReadyChunk, ReturnChunk, IInv, TypeOK
  <2>2. Last(readyChunkSizes).size \in Nat
    BY <2>1, PlannedChunks DEF Last
  <2> QED
    BY <1>1, <1>2, <2>1, <2>2
<1>5. CASE ReturnCompletedChunk
  <2>1. /\ UNCHANGED <<frontier, origin>> /\ pc' = "idle"
        /\ handedOut' = handedOut + completedChunkSizes[1].size
        /\ completedChunkSizes # <<>>
    BY <1>5 DEF ReturnCompletedChunk, ReturnChunk
  <2>2. completedChunkSizes \in Seq(ChunkPlan)
    BY DEF IInv, TypeOK
  <2>3. completedChunkSizes[1].size \in Nat
    BY <2>1, <2>2, PlannedChunks
  <2> QED
    BY <1>1, <1>2, <2>1, <2>3
<1>6. CASE ReturnTail
  <2> DEFINE a == Available(fileSize, pos)
  <2>1. /\ pc = "peek" /\ readyChunkSizes = <<>> /\ pc' = "idle"
        /\ a \in 1 .. (2 * MinSize - 1) /\ UNCHANGED frontier
    BY <1>6 DEF ReturnTail, ReturnChunk
  <2> HIDE DEF a
  <2>2. ~ HasFrontier
    <3> SUFFICES ASSUME HasFrontier PROVE FALSE
        OBVIOUS
    <3>1. a >= 2 * MinSize + frontier.scannedOffset \/ a = PeekSize
        BY <2>1, PeekFacts DEF a
    <3> QED
        BY <1>1, <2>1, <3>1
  <2> QED
    BY <2>1, <2>2 DEF HorizonInv, HasFrontier
<1>7. CASE RebaseFrontier \/ FinishRecompute
  <2>1. pc \in {"forced", "recompute"} /\ pc' = "idle" /\ HasFrontier
    BY <1>7 DEF RebaseFrontier, FinishRecompute, ReturnForcedChunk, ReturnChunk, IInv, PlanInv
  <2>2. HasFrontier' =>
          origin' + frontier'.scannedOffset = origin + frontier.scannedOffset
    BY <1>7, <2>1, CursorKept
  <2>3. \E first \in Nat : handedOut' = handedOut + first
    <3>1. CASE RebaseFrontier
      <4>1. pc = "forced" /\ handedOut' = handedOut + (MinSize + SelectedOffset)
        BY <3>1 DEF RebaseFrontier, ReturnForcedChunk, ReturnChunk
      <4>2. MinSize + SelectedOffset \in Nat
        BY <1>1, <4>1, WalkIndices
      <4> QED
        BY <4>1, <4>2
    <3>2. CASE FinishRecompute
      <4>1. pc = "recompute" /\ handedOut' = handedOut + rebase.first
        BY <3>2 DEF FinishRecompute, ReturnForcedChunk, ReturnChunk
      <4>2. rebase.first \in Nat
        BY <4>1, RecomputeFacts
      <4> QED
        BY <4>1, <4>2
    <3> QED
      BY <1>7, <3>1, <3>2
  <2>4. origin + frontier.scannedOffset + 2 * MinSize <= handedOut + PeekSize
    BY <2>1, FrontierIsSeen
  <2>5. HasFrontier' => origin' + frontier'.scannedOffset + 2 * MinSize <= handedOut' + PeekSize
    <3> SUFFICES ASSUME HasFrontier'
                 PROVE  origin' + frontier'.scannedOffset + 2 * MinSize
                          <= handedOut' + PeekSize
        OBVIOUS
    <3> DEFINE x == origin' + frontier'.scannedOffset
    <3>1. x = origin + frontier.scannedOffset
        BY <2>2
    <3> HIDE DEF x
    <3>2. x + 2 * MinSize <= handedOut' + PeekSize
        BY <1>1, <2>3, <2>4, <3>1
    <3> QED
        BY <3>2 DEF x
  <2> QED
    BY <2>1, <2>5 DEF HorizonInv
<1>8. ASSUME pc' \notin {"idle", "peek"}, UNCHANGED <<file, pos>>,
             dataLen' = Available(fileSize, pos) - MinSize, hashEnd' <= dataLen'
      PROVE  HorizonInv'
  <2>1. Available(fileSize', pos') = Available(fileSize, pos)
    BY <1>8 DEF file
  <2> QED
    BY <1>8, <2>1 DEF HorizonInv
<1>9. CASE StartPlan
  <2> DEFINE a == Available(fileSize, pos)
             s == frontier'.scannedOffset
  <2>1. /\ pc = "peek" /\ readyChunkSizes = <<>> /\ pc' = "scan"
        /\ a >= 2 * MinSize /\ UNCHANGED <<file, pos>>
        /\ dataLen' = a - MinSize /\ hashEnd' = MinSize + s
        /\ frontier' = IF HasFrontier THEN frontier ELSE NewFrontier(pos)
    BY <1>9, StartsAtOrigin DEF StartPlan, peeker
  <2>2. a \in Nat
    BY <1>1, AvailableBounds
  <2>3. s \in Nat /\ s + 2 * MinSize <= a
    <3>1. CASE HasFrontier
      <4>1. s = frontier.scannedOffset /\ pos = handedOut /\ handedOut = origin
        BY <2>1, <3>1, PeekFacts
      <4>2. a >= 2 * MinSize + s \/ a = PeekSize
        BY <2>1, <3>1, <4>1, PeekFacts
      <4>3. origin + s + 2 * MinSize <= handedOut + PeekSize
        BY <2>1, <3>1, <4>1 DEF HorizonInv
      <4> HIDE DEF a, s
      <4> QED
        BY <1>1, <2>2, <4>1, <4>2, <4>3
    <3>2. CASE ~ HasFrontier
      <4>1. s = 0
        BY <2>1, <3>2 DEF NewFrontier
      <4> HIDE DEF a, s
      <4> QED
        BY <1>1, <2>1, <2>2, <4>1
    <3> QED
      BY <3>1, <3>2
  <2>4. hashEnd' <= dataLen'
    <3> HIDE DEF a, s
    <3> QED
      BY <1>1, <2>1, <2>2, <2>3
  <2> QED
    BY <1>8, <2>1, <2>4
<1>10. CASE StartRegion \/ EndRegion \/ WalkBack \/ StartForced \/ StartRecompute
            \/ RecomputeByte
  <2>1. /\ pc \notin {"idle", "peek"} /\ pc' \notin {"idle", "peek"}
        /\ UNCHANGED <<file, pos, dataLen, hashEnd>>
    BY <1>10 DEF StartRegion, EndRegion, WalkBack, StartForced, StartRecompute, RecomputeByte,
                 peeker
  <2> QED
    BY <1>8, <2>1 DEF HorizonInv
<1>11. CASE HashByte \/ FinishStable
  <2>1. /\ pc \in {"region", "stable"} /\ pc' \notin {"idle", "peek"}
        /\ UNCHANGED <<file, pos, dataLen>> /\ hashEnd' = hashEnd + 1
    BY <1>11 DEF HashByte, FinishStable, peeker
  <2>2. hashEnd < dataLen
    <3>1. CASE HashByte
      <4>1. hashEnd < region.end /\ region.end <= dataLen /\ region.end \in Nat
        BY <3>1 DEF HashByte, IInv, TypeOK, RegionInv
      <4> QED
        BY <1>1, <4>1
    <3>2. CASE FinishStable
        BY <3>2 DEF FinishStable, IInv, WalkInv
    <3> QED
      BY <1>11, <3>1, <3>2
  <2>3. hashEnd' <= dataLen' /\ dataLen' = Available(fileSize, pos) - MinSize
    BY <1>1, <2>1, <2>2 DEF HorizonInv
  <2> QED
    BY <1>8, <2>1, <2>3
<1>12. CASE UNCHANGED vars
  <2>1. UNCHANGED <<fileSize, pos, origin, handedOut, frontier, pc, dataLen, hashEnd>>
    BY <1>12 DEF vars, file, peeker, reader, plan, history
  <2> QED
    BY <2>1 DEF HorizonInv, HasFrontier, Available
<1> QED
    BY <1>3, <1>4, <1>5, <1>6, <1>7, <1>9, <1>10, <1>11, <1>12 DEF Next, ReaderStep

-----------------------------------------------------------------------------
\* Candidates and the rule

\* A record exceeds all that comes before it.
LEMMA RecordsPeak ==
    ASSUME NEW c \in Seq(Nat), NEW start, NEW s \in Nat, AreRecordMaxima(c, start, s),
           \A j \in 1 .. Len(c) : c[j] <= s,
           \A o \in 0 .. s : At(start, o) \in Nat, NEW k \in 1 .. Len(c)
    PROVE  \A o \in 0 .. (c[k] - 1) : At(start, o) < At(start, c[k])
<1> DEFINE bad == {j \in 1 .. Len(c) :
                      \E o \in 0 .. (c[j] - 1) : ~ (At(start, o) < At(start, c[j]))}
<1>1. /\ Len(c) \in Nat /\ c[1] = 0
      /\ \A j \in 1 .. Len(c) : c[j] \in Nat
    BY RecordMaxima
<1>2. bad = {}
  <2> SUFFICES ASSUME bad # {} PROVE FALSE
    OBVIOUS
  <2>1. PICK j \in bad : \A i \in bad : j <= i
    <3>1. bad \in SUBSET Nat
      BY <1>1
    <3> HIDE DEF bad
    <3> QED
      BY <3>1, LeastMember
  <2>2. j \in 1 .. Len(c)
    OBVIOUS
  <2>3. PICK o \in 0 .. (c[j] - 1) : ~ (At(start, o) < At(start, c[j]))
    OBVIOUS
  <2>4. j # 1
    BY <1>1, <2>3
  <2>5. j - 1 \in 1 .. (Len(c) - 1) /\ j - 1 \in 1 .. Len(c) /\ (j - 1) + 1 = j
    BY <1>1, <2>2, <2>4
  <2>6. j - 1 \notin bad
    <3> HIDE DEF bad
    <3> QED
      BY <2>1, <2>2, <2>5
  <2>7. \A x \in 0 .. (c[j - 1] - 1) : At(start, x) < At(start, c[j - 1])
    BY <2>5, <2>6
  <2>8. /\ \A x \in c[j - 1] .. (c[j] - 1) : At(start, x) <= At(start, c[j - 1])
        /\ c[j - 1] < c[j] /\ At(start, c[j - 1]) < At(start, c[j])
    BY <2>5, RecordMaxima
  <2> HIDE DEF bad
  <2>9. /\ c[j - 1] \in Nat /\ c[j] \in Nat /\ c[j] <= s
        /\ o \in 0 .. s /\ c[j - 1] \in 0 .. s /\ c[j] \in 0 .. s
    <3>1. c[j - 1] \in Nat /\ c[j] \in Nat /\ c[j] <= s
      BY <1>1, <2>2, <2>5
    <3>2. c[j - 1] < c[j]
      BY <2>8
    <3>3. o \in 0 .. (c[j] - 1)
      OBVIOUS
    <3>4. s \in Nat
      OBVIOUS
    <3> QED
      BY ONLY <3>1, <3>2, <3>3, <3>4
  <2>10. At(start, o) \in Nat /\ At(start, c[j - 1]) \in Nat /\ At(start, c[j]) \in Nat
    BY <2>9
  <2>11. o \in 0 .. (c[j - 1] - 1) \/ o \in c[j - 1] .. (c[j] - 1)
    BY <2>3, <2>9
  <2>12. At(start, o) <= At(start, c[j - 1])
    BY <2>7, <2>8, <2>10, <2>11
  <2> QED
    BY <2>3, <2>8, <2>10, <2>12
<1> QED
    BY <1>2

\* Where a candidate is cut, and what is known of the scores around it.
LEMMA CutFacts ==
    ASSUME IInv, pc \notin {"idle", "peek"},
           NEW k \in 1 .. Len(frontier.candidateOffsets)
    PROVE  LET c == frontier.candidateOffsets
               until == IF k < Len(c) THEN CutAt(k + 1) - 1
                        ELSE origin + MinSize + frontier.scannedOffset
           IN  /\ CutAt(k) \in Nat /\ CutAt(k) = origin + MinSize + c[k]
               /\ CutAt(k) <= origin + MinSize + frontier.scannedOffset
               /\ \A q \in (origin + MinSize) .. (CutAt(k) - 1) :
                     score[q] < score[CutAt(k)]
               /\ \A q \in CutAt(k) .. until : score[q] <= score[CutAt(k)]
<1> DEFINE c == frontier.candidateOffsets
           s == frontier.scannedOffset
           until == IF k < Len(c) THEN CutAt(k + 1) - 1 ELSE origin + MinSize + s
<1>1. /\ MinSize \in Nat /\ origin \in Nat /\ c \in Seq(Nat) /\ s \in Nat
      /\ Len(c) \in Nat /\ AreRecordMaxima(c, origin, s)
      /\ origin + s + 2 * MinSize <= fileSize /\ Last(c) <= s /\ Last(c) \in Nat
    BY PlanFacts DEF FrontierFits
<1>2. \A j \in 1 .. Len(c) : c[j] \in Nat /\ c[j] <= s
    BY <1>1, CandidateFacts, SMTT(30)
<1>3. \A o \in 0 .. s : At(origin, o) \in Nat
  <2> SUFFICES ASSUME NEW o \in 0 .. s PROVE At(origin, o) \in Nat
    OBVIOUS
  <2>1. o \in Nat /\ origin + o + 2 * MinSize <= fileSize /\ fileSize \in Nat
    BY <1>1, SMTT(30) DEF IInv, TypeOK
  <2> QED
    BY <1>1, <2>1, AtTyped DEF IInv
<1>4. \A o \in 0 .. (c[k] - 1) : At(origin, o) < At(origin, c[k])
    BY <1>1, <1>2, <1>3, RecordsPeak
<1>5. /\ k < Len(c) => \A o \in c[k] .. (c[k + 1] - 1) : At(origin, o) <= At(origin, c[k])
      /\ ~ (k < Len(c)) => \A o \in c[k] .. s : At(origin, o) <= At(origin, c[k])
  <2>1. \/ k \in 1 .. (Len(c) - 1) /\ k < Len(c)
        \/ k = Len(c) /\ ~ (k < Len(c))
    BY <1>1
  <2> QED
    BY <1>1, <2>1, RecordMaxima
<1>6. \A j \in 1 .. Len(c) : CutAt(j) = origin + MinSize + c[j] /\ c[j] \in Nat /\ c[j] <= s
    BY <1>2 DEF CutAt
<1>0. k \in 1 .. Len(c)
    OBVIOUS
<1> HIDE DEF c, s, until
<1>7. ASSUME NEW q \in (origin + MinSize) .. (CutAt(k) - 1)
      PROVE  score[q] < score[CutAt(k)]
  <2>1. /\ q - origin - MinSize \in 0 .. (c[k] - 1)
        /\ origin + MinSize + (q - origin - MinSize) = q
    BY <1>1, <1>0, <1>6
  <2> QED
    BY <1>4, <1>0, <1>6, <2>1 DEF At
<1>8. ASSUME NEW q \in CutAt(k) .. until PROVE score[q] <= score[CutAt(k)]
  <2>1. origin + MinSize + (q - origin - MinSize) = q
    BY <1>1, <1>0, <1>6
  <2>2. CASE k < Len(c)
    <3>1. k + 1 \in 1 .. Len(c) /\ until = CutAt(k + 1) - 1
      BY <1>1, <1>0, <2>2 DEF until
    <3>2. q - origin - MinSize \in c[k] .. (c[k + 1] - 1)
      <4>1. /\ CutAt(k) = origin + MinSize + c[k] /\ c[k] \in Nat
            /\ CutAt(k + 1) = origin + MinSize + c[k + 1] /\ c[k + 1] \in Nat
        BY <1>0, <1>6, <3>1
      <4>2. q \in CutAt(k) .. (CutAt(k + 1) - 1)
        BY <3>1
      <4>3. q \in (origin + MinSize + c[k]) .. ((origin + MinSize + c[k + 1]) - 1)
        BY <4>1, <4>2
      <4>4. origin \in Nat /\ MinSize \in Nat
        BY <1>1
      <4>5. \A x, a, b, e \in Nat : \A y \in (x + a + b) .. ((x + a + e) - 1) :
                y - x - a \in b .. (e - 1)
        OBVIOUS
      <4> QED
        BY <4>1, <4>3, <4>4, <4>5
    <3> QED
      BY <1>5, <1>0, <1>6, <2>1, <2>2, <3>2 DEF At
  <2>3. CASE ~ (k < Len(c))
    <3>0. until = origin + MinSize + s
      BY <2>3 DEF until
    <3>1. q - origin - MinSize \in c[k] .. s
      BY <1>1, <1>0, <1>6, <2>3, <3>0
    <3> QED
      BY <1>5, <1>0, <1>6, <2>1, <2>3, <3>1 DEF At
  <2> QED
    BY <2>2, <2>3
<1>9. CutAt(k) \in Nat /\ CutAt(k) = origin + MinSize + c[k] /\ CutAt(k) <= origin + MinSize + s
    BY <1>1, <1>0, <1>6
<1> QED
    BY <1>7, <1>8, <1>9 DEF c, s, until

\* From the origin on, every candidate is seen by whoever peeks.
LEMMA CutIsSeen ==
    ASSUME IInv, HorizonInv, pc \notin {"idle", "peek"},
           NEW k \in 1 .. Len(frontier.candidateOffsets), NEW p \in origin .. fileSize
    PROVE  /\ p \in Nat /\ p <= fileSize /\ fileSize \in Nat
           /\ score \in [CutsOf(fileSize) -> Nat]
           /\ CutAt(k) \in Nat /\ CutAt(k) <= p + Available(fileSize, p) - MinSize
<1> DEFINE a == Available(fileSize, p)
           s == frontier.scannedOffset
<1>1. /\ MinSize \in Nat /\ origin \in Nat /\ fileSize \in Nat /\ s \in Nat
      /\ handedOut \in Nat /\ handedOut <= origin
      /\ origin + s + 2 * MinSize <= fileSize /\ HasFrontier
    BY PlanFacts DEF HasFrontier
<1>2. origin + s + 2 * MinSize <= handedOut + PeekSize
    BY <1>1, FrontierIsSeen
<1>3. CutAt(k) \in Nat /\ CutAt(k) <= origin + MinSize + s
    BY CutFacts
<1>4. p \in Nat /\ p <= fileSize
    BY <1>1
<1>5. a \in Nat /\ PeekSize \in Nat /\ (a = PeekSize \/ p + a = fileSize)
    BY <1>1, <1>4, AvailableBounds
<1> HIDE DEF a, s
<1>6. CutAt(k) <= p + a - MinSize
    BY <1>1, <1>2, <1>3, <1>4, <1>5
<1> QED
    BY <1>1, <1>3, <1>4, <1>6 DEF a, IInv, TypeOK

\* The last candidate of a stable frontier stands out, wherever a chunk begins.
LEMMA StablePeak ==
    ASSUME IInv, HorizonInv, pc \notin {"idle", "peek"}, BytesUntilStable = 0,
           NEW p \in origin .. fileSize
    PROVE  Reaches(fileSize, score, p, CutAt(Len(frontier.candidateOffsets)))
<1> DEFINE c == frontier.candidateOffsets
           s == frontier.scannedOffset
           cut == CutAt(Len(c))
           a == Available(fileSize, p)
<1>1. /\ MinSize \in Nat /\ MinSize > 0 /\ origin \in Nat /\ s \in Nat
      /\ Len(c) \in 1 .. Len(c) /\ Last(c) \in Nat /\ Last(c) = c[Len(c)]
    BY PlanFacts DEF Last
<1>2. /\ p \in Nat /\ p <= fileSize /\ fileSize \in Nat /\ score \in [CutsOf(fileSize) -> Nat]
      /\ cut \in Nat /\ cut <= p + a - MinSize
    BY <1>1, CutIsSeen
<1>3. /\ cut = origin + MinSize + Last(c)
      /\ \A q \in (origin + MinSize) .. (cut - 1) : score[q] < score[cut]
      /\ \A q \in cut .. (origin + MinSize + s) : score[q] <= score[cut]
  <2> DEFINE n == Len(c)
             until == IF n < n THEN CutAt(n + 1) - 1 ELSE origin + MinSize + s
  <2>1. n \in 1 .. Len(c) /\ n \in Nat
    BY <1>1, PlanFacts
  <2>2. /\ cut = origin + MinSize + c[n]
        /\ \A q \in (origin + MinSize) .. (cut - 1) : score[q] < score[cut]
        /\ \A q \in cut .. until : score[q] <= score[cut]
    BY <2>1, CutFacts, Zenon
  <2>3. until = origin + MinSize + s
    <3> HIDE DEF n
    <3> QED
      BY <2>1
  <2> HIDE DEF n, until
  <2> QED
    BY <1>1, <2>2, <2>3 DEF n
<1>4. Last(c) + MinSize - 1 - s = 0
    BY DEF BytesUntilStable
<1>5. a \in Nat
    BY <1>2, AvailableBounds
<1>6. p >= origin
    BY <1>1, <1>2
<1> HIDE DEF c, s, cut, a
<1>7. origin + MinSize + s = cut + MinSize - 1
  <2> DEFINE l == Last(c)
  <2>1. l \in Nat /\ cut = origin + MinSize + l /\ l + MinSize - 1 - s = 0
    BY <1>1, <1>3, <1>4
  <2> HIDE DEF l
  <2> QED
    BY <1>1, <1>2, <2>1
<1>8. ASSUME NEW q \in (p + MinSize) .. (cut - 1) PROVE score[q] < score[cut]
  <2>1. q \in (origin + MinSize) .. (cut - 1)
    BY <1>1, <1>2, <1>6
  <2> QED
    BY <1>3, <2>1
<1>9. ASSUME NEW q \in (cut + 1) .. (p + a - MinSize), q < cut + MinSize
      PROVE  score[q] <= score[cut]
  <2>1. q \in cut .. (origin + MinSize + s)
    BY <1>1, <1>2, <1>5, <1>7, <1>9
  <2> QED
    BY <1>3, <2>1
<1>10. Reaches(fileSize, score, p, cut)
    BY <1>2, <1>8, <1>9, ReachesPeak DEF a
<1> QED
    BY <1>10 DEF cut, c

\* When all the data is scanned and nothing is finalised, it does so for the
\* chunk that begins at the origin.
LEMMA ForcedPeak ==
    ASSUME IInv, HorizonInv, pc \notin {"idle", "peek"}, hashEnd >= dataLen,
           completedChunkSizes = <<>>
    PROVE  Reaches(fileSize, score, origin, CutAt(Len(frontier.candidateOffsets)))
<1> DEFINE c == frontier.candidateOffsets
           s == frontier.scannedOffset
           cut == CutAt(Len(c))
           a == Available(fileSize, origin)
<1>1. /\ MinSize \in Nat /\ MinSize > 0 /\ origin \in Nat /\ s \in Nat
      /\ Len(c) \in 1 .. Len(c) /\ pos = handedOut /\ origin <= fileSize /\ fileSize \in Nat
      /\ pos + hashEnd = origin + MinSize + s /\ hashEnd \in Nat /\ dataLen \in Nat
    BY PlanFacts, SMTT(30)
<1>2. origin = handedOut
    BY EmptyQueue DEF IInv, PlanInv
<1>3. dataLen = a - MinSize /\ hashEnd <= dataLen
    BY <1>1, <1>2 DEF HorizonInv
<1>4. origin \in origin .. fileSize
    BY <1>1
<1>5. /\ score \in [CutsOf(fileSize) -> Nat]
      /\ cut \in Nat /\ cut <= origin + a - MinSize
    BY <1>1, <1>4, CutIsSeen
<1>6. /\ \A q \in (origin + MinSize) .. (cut - 1) : score[q] < score[cut]
      /\ \A q \in cut .. (origin + MinSize + s) : score[q] <= score[cut]
    BY <1>1, CutFacts
<1>7. a \in Nat
    BY <1>1, AvailableBounds
<1> HIDE DEF c, s, cut, a
<1>8. origin + a - MinSize = origin + MinSize + s
    BY <1>1, <1>2, <1>3, <1>7
<1>9. ASSUME NEW q \in (cut + 1) .. (origin + a - MinSize) PROVE score[q] <= score[cut]
  <2>1. q \in cut .. (origin + MinSize + s)
    BY <1>1, <1>5, <1>7, <1>8
  <2> QED
    BY <1>6, <2>1
<1>10. Reaches(fileSize, score, origin, cut)
    BY <1>1, <1>5, <1>6, <1>9, ReachesPeak DEF a
<1> QED
    BY <1>10 DEF cut, c

\* The candidate a walk selects is the best that leaves room for a chunk before
\* the one selected so far.
LEMMA WalkReaches ==
    ASSUME IInv, HorizonInv, pc \in {"stable", "forced"}, SelectedOffset >= MinSize,
           FarEnough(frontier.candidateOffsets[walk.next], SelectedOffset),
           NEW p \in origin .. fileSize,
           Reaches(fileSize, score, p, CutAt(walk.selected))
    PROVE  Reaches(fileSize, score, p, CutAt(walk.next))
<1> DEFINE c == frontier.candidateOffsets
           near == CutAt(walk.next)
           far == CutAt(walk.selected)
           a == Available(fileSize, p)
<1>1. /\ MinSize \in Nat /\ origin \in Nat /\ Len(c) \in Nat
      /\ \A k \in 1 .. Len(c) : c[k] \in Nat
    BY PlanFacts, CandidateFacts
<1>2. /\ walk.selected \in 1 .. Len(c) /\ walk.next \in 1 .. (walk.selected - 2)
      /\ c[walk.selected] - c[walk.next + 1] < MinSize
      /\ c[walk.selected] - c[walk.next] >= MinSize
    BY WalkIndices DEF FarEnough, SelectedOffset
<1>3. walk.next \in 1 .. Len(c) /\ walk.next + 1 \in 1 .. Len(c) /\ walk.next < Len(c)
    BY <1>1, <1>2
<1>4. /\ p \in Nat /\ p <= fileSize /\ fileSize \in Nat /\ score \in [CutsOf(fileSize) -> Nat]
      /\ far \in Nat /\ far <= p + a - MinSize /\ near \in Nat
    BY <1>2, <1>3, CutIsSeen
<1>5. /\ near = origin + MinSize + c[walk.next]
      /\ \A q \in (origin + MinSize) .. (near - 1) : score[q] < score[near]
      /\ \A q \in near .. (CutAt(walk.next + 1) - 1) : score[q] <= score[near]
    BY <1>3, CutFacts
<1>6. /\ far = origin + MinSize + c[walk.selected]
      /\ CutAt(walk.next + 1) = origin + MinSize + c[walk.next + 1]
    BY DEF CutAt
<1>7. p >= origin
    BY <1>1, <1>4
<1>8. /\ c[walk.next] \in Nat /\ c[walk.next + 1] \in Nat /\ c[walk.selected] \in Nat
    BY <1>1, <1>2, <1>3
<1>9. near + MinSize <= far /\ far - MinSize <= CutAt(walk.next + 1) - 1
      /\ CutAt(walk.next + 1) \in Nat
  <2> DEFINE u == c[walk.next]
             v == c[walk.next + 1]
             w == c[walk.selected]
             n == CutAt(walk.next + 1)
  <2>1. /\ u \in Nat /\ v \in Nat /\ w \in Nat /\ w - v < MinSize /\ w - u >= MinSize
        /\ near = origin + MinSize + u /\ far = origin + MinSize + w
        /\ n = origin + MinSize + v
    BY <1>2, <1>5, <1>6, <1>8
  <2> HIDE DEF u, v, w, n, near, far
  <2>2. near + MinSize <= far /\ far - MinSize <= n - 1 /\ n \in Nat
    BY <1>1, <2>1
  <2> QED
    BY <2>2 DEF n
<1> HIDE DEF c, near, far, a
<1>10. \A q \in (origin + MinSize) .. (far - MinSize) : score[q] \in Nat
  <2>1. \A q \in (origin + MinSize) .. (far - MinSize) : q \in CutsOf(fileSize)
    <3>1. a \in Nat /\ p + a <= fileSize /\ MinSize \in Nat
      BY <1>4, AvailableBounds DEF a
    <3> QED
      BY <1>1, <1>4, <3>1 DEF CutsOf
  <2> QED
    BY <1>4, <2>1
<1>11. ASSUME NEW q \in (p + MinSize) .. (far - MinSize)
       PROVE  score[q] <= score[near] /\ (q < near => score[q] < score[near])
  <2>1. q \in (origin + MinSize) .. (far - MinSize) /\ q \in Int
    BY <1>1, <1>4, <1>7
  <2>2. near \in (origin + MinSize) .. (far - MinSize)
    <3>1. near = origin + MinSize + c[walk.next] /\ c[walk.next] \in Nat
      BY <1>5, <1>8
    <3>2. near >= origin + MinSize
      BY <1>1, <3>1
    <3> QED
      BY <1>1, <1>4, <1>9, <3>2
  <2>3. score[q] \in Nat /\ score[near] \in Nat
    BY <1>10, <2>1, <2>2
  <2>4. CASE q < near
    <3>1. q \in (origin + MinSize) .. (near - 1)
      BY <1>1, <1>4, <2>1, <2>4
    <3> QED
      BY <1>5, <2>3, <3>1
  <2>5. CASE ~ (q < near)
    <3>1. q \in near .. (CutAt(walk.next + 1) - 1)
      BY <1>1, <1>4, <1>9, <2>1, <2>5
    <3> QED
      BY <1>5, <2>5, <3>1
  <2> QED
    BY <2>4, <2>5
<1>12. Reaches(fileSize, score, p, near)
    BY <1>4, <1>9, <1>11, ReachesBefore DEF a, far
<1> QED
    BY <1>12 DEF near

-----------------------------------------------------------------------------
\* Planned chunks and the rule

\* The size the rule gives the chunk that begins at position p of a file.
RuleSize(size, sc, p) == RuleChunkSize(sc, p, Available(size, p))

\* Every planned chunk has the size the rule gives where it begins.
ObeysRule(chunks, size, sc) ==
    \A k \in 1 .. Len(chunks) :
        chunks[k].size = RuleSize(size, sc, chunks[k].end - chunks[k].size)

LEMMA ObeysConcat ==
    ASSUME NEW a \in Seq(ChunkPlan), NEW b \in Seq(ChunkPlan), NEW size, NEW sc,
           ObeysRule(a, size, sc), ObeysRule(b, size, sc)
    PROVE  ObeysRule(a \o b, size, sc)
<1>1. Len(a) \in Nat /\ Len(b) \in Nat
    BY PlannedChunks
<1>2. /\ Len(a \o b) = Len(a) + Len(b)
      /\ \A k \in 1 .. (Len(a) + Len(b)) :
            (a \o b)[k] = IF k <= Len(a) THEN a[k] ELSE b[k - Len(a)]
    BY ConcatProperties
<1>3. ASSUME NEW k \in 1 .. (Len(a) + Len(b))
      PROVE  (a \o b)[k].size = RuleSize(size, sc, (a \o b)[k].end - (a \o b)[k].size)
  <2>1. CASE k <= Len(a)
    <3>1. k \in 1 .. Len(a) /\ (a \o b)[k] = a[k]
      BY <1>1, <1>2, <2>1
    <3> QED
      BY <3>1 DEF ObeysRule
  <2>2. CASE k > Len(a)
    <3>1. k - Len(a) \in 1 .. Len(b) /\ (a \o b)[k] = b[k - Len(a)]
      BY <1>1, <1>2, <2>2
    <3> QED
      BY <3>1 DEF ObeysRule
  <2> QED
    BY <1>1, <2>1, <2>2
<1> QED
    BY <1>2, <1>3 DEF ObeysRule

\* So does a list of which every entry is one of these.
LEMMA ObeysSome ==
    ASSUME NEW a, NEW b, NEW size, NEW sc, ObeysRule(a, size, sc),
           \A k \in 1 .. Len(b) : \E j \in 1 .. Len(a) : b[k] = a[j]
    PROVE  ObeysRule(b, size, sc)
<1>1. ASSUME NEW k \in 1 .. Len(b)
      PROVE  b[k].size = RuleSize(size, sc, b[k].end - b[k].size)
  <2>1. PICK j \in 1 .. Len(a) : b[k] = a[j]
    OBVIOUS
  <2> QED
    BY <2>1 DEF ObeysRule
<1> QED
    BY <1>1 DEF ObeysRule

LEMMA ObeysSingle ==
    ASSUME NEW size, NEW sc, NEW chunk, 
           chunk.size = RuleSize(size, sc, chunk.end - chunk.size)
    PROVE  ObeysRule(<<chunk>>, size, sc)
BY DEF ObeysRule

\* Whatever is planned obeys the rule: the walk over a stable frontier plans
\* chunks the rule gives wherever it reaches the selected candidate, and the
\* forced walk looks for the chunk at the origin.
RuleInv ==
    /\ ObeysRule(readyChunkSizes, fileSize, score)
    /\ ObeysRule(completedChunkSizes, fileSize, score)
    /\ ObeysRule(walk.batch, fileSize, score)
    /\ pc = "stable" => \A p \in origin .. fileSize :
                            Reaches(fileSize, score, p, CutAt(walk.selected))
    /\ pc = "forced" => Reaches(fileSize, score, origin, CutAt(walk.selected))
    /\ pc = "recompute" => rebase.first = RuleSize(fileSize, score, origin)

\* An empty plan does.
LEMMA ObeysEmpty == \A size, sc : ObeysRule(<<>>, size, sc)
BY EmptyQueue DEF ObeysRule

\* The chunk at the origin ends at the candidate a walk ends with.
LEMMA WalkEnds ==
    ASSUME IInv, RuleInv, pc \in {"stable", "forced"}, SelectedOffset < MinSize
    PROVE  /\ MinSize + SelectedOffset = RuleSize(fileSize, score, origin)
           /\ CutAt(walk.selected) = origin + (MinSize + SelectedOffset)
           /\ MinSize + SelectedOffset \in Nat
<1>1. /\ MinSize \in Nat /\ origin \in Nat /\ origin <= fileSize /\ fileSize \in Nat
      /\ SelectedOffset \in Nat
    BY PlanFacts, WalkIndices
<1>2. CutAt(walk.selected) = origin + MinSize + SelectedOffset
    BY DEF CutAt, SelectedOffset
<1>3. origin \in origin .. fileSize
    BY <1>1
<1>4. Reaches(fileSize, score, origin, CutAt(walk.selected))
    BY <1>3 DEF RuleInv
<1> DEFINE cut == CutAt(walk.selected)
           o == SelectedOffset
<1>5. cut = origin + MinSize + o /\ o \in Nat /\ o < MinSize
    BY <1>1, <1>2
<1>6. Reaches(fileSize, score, origin, cut)
    BY <1>4
<1> HIDE DEF cut, o
<1>7. /\ cut \in Nat /\ origin + MinSize <= cut /\ cut < origin + 2 * MinSize
      /\ cut - origin = MinSize + o /\ cut = origin + (MinSize + o) /\ MinSize + o \in Nat
    BY <1>1, <1>5
<1>8. RuleSize(fileSize, score, origin) = cut - origin
    BY <1>1, <1>6, <1>7, ReachesEnd DEF RuleSize
<1> QED
    BY <1>7, <1>8 DEF cut, o

\* The steps of a walk keep the rule.
LEMMA WalkBackRule ==
    ASSUME IInv, HorizonInv, RuleInv, WalkBack PROVE RuleInv'
<1> DEFINE c == frontier.candidateOffsets
           cut == c[walk.next]
           size == SelectedOffset - cut
           chunk == Chunk(size, CutAt(walk.selected))
<1>1. /\ pc \in {"stable", "forced"} /\ SelectedOffset >= MinSize /\ pc' = pc
      /\ walk' = IF FarEnough(cut, SelectedOffset)
                 THEN [selected |-> walk.next, next |-> walk.next - 2,
                       batch |-> IF pc = "stable" THEN <<chunk>> \o walk.batch
                                                  ELSE walk.batch]
                 ELSE [walk EXCEPT !.next = @ - 1]
      /\ UNCHANGED <<fileSize, score, origin, readyChunkSizes, completedChunkSizes, rebase,
                     frontier>>
    BY DEF WalkBack, file, reader, history
<1>2. walk \in [selected : Nat, next : Int, batch : Seq(ChunkPlan)]
    BY DEF IInv, TypeOK
<1>3. CASE ~ FarEnough(cut, SelectedOffset)
  <2>1. walk'.selected = walk.selected /\ walk'.batch = walk.batch
    BY <1>1, <1>2, <1>3
  <2>2. CutAt(walk.selected)' = CutAt(walk.selected)
    BY <1>1, <2>1 DEF CutAt
  <2> QED
    BY <1>1, <2>1, <2>2 DEF RuleInv
<1>4. CASE FarEnough(cut, SelectedOffset)
  <2>1. /\ walk'.selected = walk.next
        /\ walk'.batch = IF pc = "stable" THEN <<chunk>> \o walk.batch ELSE walk.batch
    BY <1>1, <1>4
  <2>2. CutAt(walk.selected)' = CutAt(walk.next)
    BY <1>1, <2>1 DEF CutAt
  <2>3. ASSUME NEW p \in origin .. fileSize,
               Reaches(fileSize, score, p, CutAt(walk.selected))
        PROVE  Reaches(fileSize, score, p, CutAt(walk.next))
    BY <1>1, <1>4, <2>3, WalkReaches
  <2>4. CASE pc = "forced"
    <3>1. origin \in origin .. fileSize
      BY <1>1, PlanFacts
    <3>2. Reaches(fileSize, score, origin, CutAt(walk.next))
      BY <2>3, <2>4, <3>1 DEF RuleInv
    <3> QED
      BY <1>1, <2>1, <2>2, <2>4, <3>2 DEF RuleInv
  <2>5. CASE pc = "stable"
    <3>1. \A p \in origin .. fileSize : Reaches(fileSize, score, p, CutAt(walk.next))
      BY <2>3, <2>5 DEF RuleInv
    <3>2. ObeysRule(<<chunk>> \o walk.batch, fileSize, score)
      <4> DEFINE near == CutAt(walk.next)
                 far == CutAt(walk.selected)
      <4>1. /\ MinSize \in Nat /\ origin \in Nat /\ fileSize \in Nat
            /\ walk.selected \in 1 .. Len(c) /\ walk.next \in 1 .. Len(c)
            /\ walk.next + 1 \in 1 .. Len(c) /\ walk.next \in 1 .. (Len(c) - 1)
            /\ SelectedOffset = c[walk.selected]
            /\ SelectedOffset - c[walk.next + 1] < MinSize
        <5>1. /\ MinSize \in Nat /\ origin \in Nat /\ fileSize \in Nat /\ Len(c) \in Nat
          BY <1>1, PlanFacts
        <5>2. /\ walk.selected \in 1 .. Len(c) /\ walk.next \in 1 .. (walk.selected - 2)
              /\ SelectedOffset = c[walk.selected]
              /\ SelectedOffset - c[walk.next + 1] < MinSize
          BY <1>1, WalkIndices
        <5> HIDE DEF c
        <5>3. /\ walk.next \in 1 .. Len(c) /\ walk.next + 1 \in 1 .. Len(c)
              /\ walk.next \in 1 .. (Len(c) - 1)
          BY <5>1, <5>2
        <5> QED
          BY <5>1, <5>2, <5>3
      <4>2. /\ cut \in Nat /\ SelectedOffset \in Nat /\ c[walk.next + 1] \in Nat
            /\ c[walk.next + 1] - cut < MinSize
        BY <1>1, <4>1, CandidateFacts
      <4>3. near = origin + MinSize + cut /\ far = origin + MinSize + SelectedOffset
        BY <4>1 DEF CutAt
      <4>4. size >= MinSize /\ size < 2 * MinSize
        <5> DEFINE n == c[walk.next + 1]
                   o == SelectedOffset
        <5>1. /\ o \in Nat /\ n \in Nat /\ cut \in Nat /\ o - n < MinSize /\ n - cut < MinSize
              /\ size = o - cut /\ o - cut >= MinSize
          BY <1>4, <4>1, <4>2 DEF FarEnough
        <5> HIDE DEF n, o, cut, size
        <5> QED
          BY <4>1, <5>1
      <4>5. far <= fileSize
        <5>1. origin + MinSize + frontier.scannedOffset <= fileSize
          <6> DEFINE s == frontier.scannedOffset
          <6>1. origin + s + 2 * MinSize <= fileSize /\ s \in Nat
            BY <1>1, PlanFacts
          <6> HIDE DEF s
          <6>2. origin + MinSize + s <= fileSize
            BY <4>1, <6>1
          <6> QED
            BY <6>2 DEF s
        <5>2. far <= origin + MinSize + frontier.scannedOffset
          BY <1>1, <4>1, CutFacts
        <5>3. frontier.scannedOffset \in Nat /\ far \in Nat
          <6>1. frontier.scannedOffset \in Nat
            BY <1>1, PlanFacts
          <6>2. far \in Nat
            <7> DEFINE o == SelectedOffset
            <7>1. MinSize \in Nat /\ origin \in Nat /\ o \in Nat
              BY <4>1, <4>2
            <7>2. far = origin + MinSize + o
              BY <4>3
            <7> HIDE DEF far, o
            <7> QED
              BY <7>1, <7>2
          <6> QED
            BY <6>1, <6>2
        <5> HIDE DEF far
        <5> QED
          BY <4>1, <5>1, <5>2, <5>3
      <4>12. size = SelectedOffset - cut
        OBVIOUS
      <4> HIDE DEF cut, near, far, size
      <4>6. /\ near \in Nat /\ far \in Nat /\ far - near = size /\ far - size = near
            /\ near + MinSize <= far /\ far < near + 2 * MinSize /\ near \in origin .. fileSize
        <5> DEFINE o == SelectedOffset
        <5>1. o \in Nat /\ far = origin + MinSize + o /\ size = o - cut
          BY <4>2, <4>3, <4>12
        <5>2. /\ MinSize \in Nat /\ origin \in Nat /\ fileSize \in Nat /\ cut \in Nat
          BY <4>1, <4>2
        <5>3. near = origin + MinSize + cut
          BY <4>3
        <5> HIDE DEF o
        <5> QED
          BY ONLY <4>4, <4>5, <5>1, <5>2, <5>3
      <4>7. Reaches(fileSize, score, near, far)
        BY <2>5, <4>6 DEF RuleInv, far
      <4>8. size = RuleSize(fileSize, score, near)
        BY <4>6, <4>7, ReachesEnd DEF RuleSize
      <4>9. chunk.size = size /\ chunk.end = far
        BY DEF Chunk, far
      <4>10. ObeysRule(<<chunk>>, fileSize, score)
        <5> HIDE DEF chunk
        <5> QED
          BY <4>6, <4>8, <4>9, ObeysSingle
      <4>11. <<chunk>> \in Seq(ChunkPlan)
        <5>1. size \in Nat
          BY <4>1, <4>4, <4>6
        <5>2. chunk \in ChunkPlan
          BY <4>6, <5>1 DEF Chunk, ChunkPlan, far
        <5> HIDE DEF chunk
        <5> QED
          BY <5>2
      <4> QED
        BY <1>2, <4>10, <4>11, ObeysConcat DEF RuleInv
    <3> QED
      BY <1>1, <2>1, <2>2, <2>5, <3>1, <3>2 DEF RuleInv
  <2> QED
    BY <1>1, <2>4, <2>5
<1> QED
    BY <1>3, <1>4

\* What is queued of a batch obeys the rule as the batch does.
LEMMA QueueObeys ==
    ASSUME NEW chunks \in Seq(ChunkPlan), chunks # <<>>, NEW size, NEW sc,
           ObeysRule(chunks, size, sc)
    PROVE  /\ ObeysRule(Front(chunks), size, sc)
           /\ ObeysRule(Reverse(Tail(chunks)), size, sc)
<1>1. Len(chunks) \in Nat \ {0}
    BY PlannedChunks
<1>2. ObeysRule(Front(chunks), size, sc)
  <2>1. \A k \in 1 .. Len(Front(chunks)) : k \in 1 .. Len(chunks) /\ Front(chunks)[k] = chunks[k]
    BY <1>1, ReverseFront
  <2>2. \A k \in 1 .. Len(Front(chunks)) : \E j \in 1 .. Len(chunks) : Front(chunks)[k] = chunks[j]
    BY <2>1
  <2> QED
    BY <2>2, ObeysSome
<1>3. ObeysRule(Reverse(Tail(chunks)), size, sc)
  <2> DEFINE rest == Tail(chunks)
             back == Reverse(rest)
  <2>1. /\ rest \in Seq(ChunkPlan) /\ Len(rest) = Len(chunks) - 1
        /\ \A k \in 1 .. Len(rest) : rest[k] = chunks[k + 1]
    BY HeadTailProperties
  <2> HIDE DEF rest
  <2>2. /\ Len(back) = Len(rest)
        /\ \A k \in 1 .. Len(rest) : back[k] = rest[Len(rest) + 1 - k]
    BY <2>1, ReverseProperties
  <2> HIDE DEF back
  <2>3. ASSUME NEW k \in 1 .. Len(back) PROVE \E j \in 1 .. Len(chunks) : back[k] = chunks[j]
    <3>1. /\ back[k] = rest[Len(rest) + 1 - k] /\ Len(rest) + 1 - k \in 1 .. Len(rest)
      BY <1>1, <2>1, <2>2
    <3>2. PICK i \in 1 .. Len(rest) : back[k] = rest[i]
      BY <3>1
    <3>3. rest[i] = chunks[i + 1] /\ i + 1 \in 1 .. Len(chunks)
      BY <1>1, <2>1
    <3> QED
      BY <3>2, <3>3
  <2>4. ObeysRule(back, size, sc)
    BY <2>3, ObeysSome
  <2> QED
    BY <2>4 DEF back, rest
<1> QED
    BY <1>2, <1>3

\* The batch is completed by the chunk that begins at the origin.
LEMMA FinishStableRule ==
    ASSUME IInv, HorizonInv, RuleInv, FinishStable PROVE RuleInv'
<1> DEFINE first == MinSize + SelectedOffset
           chunk == Chunk(first, CutAt(walk.selected))
           chunks == completedChunkSizes \o <<chunk>>
<1>1. /\ pc = "stable" /\ pc' = "scan" /\ SelectedOffset < MinSize
      /\ completedChunkSizes' = chunks \o walk.batch
      /\ walk' = NoWalk
      /\ UNCHANGED <<fileSize, score, readyChunkSizes>>
    BY DEF FinishStable, file
<1>2. /\ first = RuleSize(fileSize, score, origin) /\ first \in Nat
      /\ CutAt(walk.selected) = origin + first
    BY <1>1, WalkEnds
<1>3. origin \in Nat
    BY DEF IInv, TypeOK
<1> HIDE DEF first
<1>4. chunk.size = first /\ chunk.end = origin + first /\ chunk \in ChunkPlan
    BY <1>2, <1>3 DEF Chunk, ChunkPlan
<1>5. chunk.end - chunk.size = origin
    BY <1>2, <1>3, <1>4
<1>6. ObeysRule(<<chunk>>, fileSize, score)
  <2> HIDE DEF chunk
  <2> QED
    BY <1>2, <1>4, <1>5, ObeysSingle
<1>7. /\ completedChunkSizes \in Seq(ChunkPlan) /\ walk.batch \in Seq(ChunkPlan)
      /\ <<chunk>> \in Seq(ChunkPlan)
  <2> HIDE DEF chunk
  <2> QED
    BY <1>4 DEF IInv, TypeOK
<1>8. ObeysRule(chunks \o walk.batch, fileSize, score)
  <2> HIDE DEF chunk
  <2>1. chunks \in Seq(ChunkPlan) /\ ObeysRule(chunks, fileSize, score)
    BY <1>6, <1>7, ConcatProperties, ObeysConcat DEF RuleInv
  <2> HIDE DEF chunks
  <2> QED
    BY <1>7, <2>1, ObeysConcat DEF RuleInv
<1> HIDE DEF chunks
<1> QED
    BY <1>1, <1>8, ObeysEmpty DEF RuleInv, NoWalk

\* Every step keeps the rule.
LEMMA NextRuleInv ==
    ASSUME IInv, HorizonInv, RuleInv, [Next]_vars PROVE RuleInv'
<1>1. ASSUME UNCHANGED file, pc' \notin {"stable", "forced", "recompute"},
             readyChunkSizes' \in {readyChunkSizes, <<>>},
             completedChunkSizes' \in {completedChunkSizes, <<>>},
             walk'.batch \in {walk.batch, <<>>}
      PROVE  RuleInv'
    BY <1>1, ObeysEmpty DEF RuleInv, file
<1>2. CASE \/ DiscardPrevious \/ DiscardFails \/ PeekFails \/ ReturnEndOfFile \/ ReturnTail
           \/ StartPlan \/ StartRegion \/ HashByte \/ RebaseFrontier \/ FinishRecompute
  <2>1. /\ UNCHANGED <<file, readyChunkSizes>> /\ pc' \notin {"stable", "forced", "recompute"}
        /\ completedChunkSizes' \in {completedChunkSizes, <<>>}
        /\ walk' \in {walk, NoWalk}
    BY <1>2
    DEF DiscardPrevious, DiscardFails, PeekFails, ReturnEndOfFile, ReturnTail, StartPlan,
        StartRegion, HashByte, RebaseFrontier, FinishRecompute, ReturnForcedChunk,
        ReturnChunk, ReturnError, reader, plan
  <2> QED
    BY <1>1, <2>1 DEF NoWalk
<1>3. CASE ReturnReadyChunk
  <2>1. /\ UNCHANGED <<fileSize, score, completedChunkSizes, walk>> /\ pc' = "idle"
        /\ readyChunkSizes # <<>> /\ readyChunkSizes' = Front(readyChunkSizes)
    BY <1>3 DEF ReturnReadyChunk, ReturnChunk, plan, file
  <2>2. ObeysRule(Front(readyChunkSizes), fileSize, score)
    BY <2>1, QueueObeys DEF RuleInv, IInv, TypeOK
  <2> QED
    BY <2>1, <2>2 DEF RuleInv
<1>4. CASE ReturnCompletedChunk
  <2>1. /\ UNCHANGED <<fileSize, score, walk>> /\ pc' = "idle"
        /\ completedChunkSizes # <<>> /\ completedChunkSizes' = <<>>
        /\ readyChunkSizes' = Reverse(Tail(completedChunkSizes))
    BY <1>4 DEF ReturnCompletedChunk, ReturnChunk, file, Queue
  <2>2. ObeysRule(Reverse(Tail(completedChunkSizes)), fileSize, score)
    BY <2>1, QueueObeys DEF RuleInv, IInv, TypeOK
  <2> QED
    BY <2>1, <2>2, ObeysEmpty DEF RuleInv
<1>5. CASE EndRegion
  <2>1. /\ pc = "region" /\ hashEnd = region.end
        /\ UNCHANGED <<file, readyChunkSizes, completedChunkSizes, frontier, origin>>
        /\ IF IsStable THEN StartWalk /\ pc' = "stable" ELSE UNCHANGED walk /\ pc' = "scan"
    BY <1>5 DEF EndRegion, reader, history
  <2>2. CASE ~ IsStable
    BY <1>1, <2>1, <2>2
  <2>3. CASE IsStable
    <3>1. BytesUntilStable = 0
      <4> DEFINE b == BytesUntilStable
      <4>1. region.end - hashEnd = b /\ hashEnd = region.end /\ hashEnd \in Nat
        BY <2>1, <2>3 DEF IInv, RegionInv, TypeOK
      <4> HIDE DEF b
      <4> QED
        BY <4>1 DEF b
    <3>2. /\ walk'.selected = Len(frontier.candidateOffsets) /\ walk'.batch = <<>>
          /\ pc' = "stable"
      BY <2>1, <2>3 DEF StartWalk
    <3>3. \A p \in origin .. fileSize :
              Reaches(fileSize, score, p, CutAt(Len(frontier.candidateOffsets)))
      BY <2>1, <3>1, StablePeak
    <3>4. CutAt(walk.selected)' = CutAt(Len(frontier.candidateOffsets))
      BY <2>1, <3>2 DEF CutAt
    <3> QED
      BY <2>1, <3>2, <3>3, <3>4, ObeysEmpty DEF RuleInv, file
  <2> QED
    BY <2>2, <2>3
<1>6. CASE StartForced
  <2>1. /\ pc = "scan" /\ hashEnd >= dataLen /\ completedChunkSizes = <<>>
        /\ UNCHANGED <<fileSize, score, readyChunkSizes, completedChunkSizes, frontier, origin>>
        /\ walk'.selected = Len(frontier.candidateOffsets) /\ walk'.batch = <<>>
        /\ pc' = "forced"
    BY <1>6 DEF StartForced, StartWalk, reader, history, file
  <2>2. Reaches(fileSize, score, origin, CutAt(Len(frontier.candidateOffsets)))
    BY <2>1, ForcedPeak
  <2>3. CutAt(walk.selected)' = CutAt(Len(frontier.candidateOffsets))
    BY <2>1 DEF CutAt
  <2> QED
    BY <2>1, <2>2, <2>3, ObeysEmpty DEF RuleInv
<1>7. CASE WalkBack
    BY <1>7, WalkBackRule
<1>8. CASE FinishStable
    BY <1>8, FinishStableRule
<1>9. CASE StartRecompute
  <2>1. /\ pc = "forced" /\ SelectedOffset < MinSize /\ walk' = NoWalk /\ pc' = "recompute"
        /\ rebase'.first = MinSize + SelectedOffset
        /\ UNCHANGED <<fileSize, score, readyChunkSizes, completedChunkSizes, origin>>
    BY <1>9 DEF StartRecompute, reader, history, file
  <2>2. MinSize + SelectedOffset = RuleSize(fileSize, score, origin)
    BY <2>1, WalkEnds
  <2> QED
    BY <2>1, <2>2, ObeysEmpty DEF RuleInv, NoWalk
<1>10. CASE RecomputeByte
  <2>1. /\ pc = "recompute" /\ pc' = pc /\ rebase'.first = rebase.first
        /\ UNCHANGED <<fileSize, score, readyChunkSizes, completedChunkSizes, walk, origin>>
    <3>1. rebase \in [points : Seq(Nat), reusable : Nat, first : Nat, recomputed : Frontier]
      BY DEF IInv, TypeOK
    <3> QED
      BY <1>10, <3>1 DEF RecomputeByte, reader, history, file
  <2> QED
    BY <2>1 DEF RuleInv
<1>11. CASE UNCHANGED vars
  <2>1. UNCHANGED <<fileSize, score, readyChunkSizes, completedChunkSizes, walk, origin, pc,
                    rebase, frontier>>
    BY <1>11 DEF vars, file, reader, plan, history
  <2> QED
    BY <2>1 DEF RuleInv, CutAt
<1> QED
    BY <1>2, <1>3, <1>4, <1>5, <1>6, <1>7, <1>8, <1>9, <1>10, <1>11 DEF Next, ReaderStep

-----------------------------------------------------------------------------
\* What is handed out

LEMMA InitDelivers == Init => HorizonInv /\ RuleInv /\ Stream!Init
BY ObeysEmpty
DEF Init, HorizonInv, RuleInv, HasFrontier, NoFrontier, NoWalk, Stream!Init

\* A chunk of the size the rule gives is the next of the stream.
LEMMA DeliversRule ==
    ASSUME IInv, NEW size, size = RuleSize(fileSize, score, handedOut),
           handedOut < fileSize, ReturnChunk(size)
    PROVE  Stream!Deliver
<1>1. handedOut \in 0 .. (fileSize - 1)
    BY DEF IInv, TypeOK
<1>2. RuleSizes(fileSize, score)[handedOut] = RuleSize(fileSize, score, handedOut)
    BY <1>1 DEF RuleSizes, RuleSize
<1> QED
    BY <1>2 DEF Stream!Deliver, ReturnChunk

\* The first of the chunks that lead from what was handed out is one.
LEMMA FirstObeys ==
    ASSUME IInv, NEW chunk \in ChunkPlan, NEW chunks \in Seq(ChunkPlan), chunks # <<>>,
           chunk = chunks[1], NEW to \in Nat, to <= fileSize,
           Adjacent(chunks, handedOut, to), chunk.end <= to,
           chunk.size = RuleSize(fileSize, score, chunk.end - chunk.size),
           chunk.size \in MinSize .. (2 * MinSize - 1),
           ReturnChunk(chunk.size)
    PROVE  Stream!Deliver
<1>1. /\ chunk.end \in Nat /\ chunk.size \in Nat /\ MinSize \in Nat \ {0}
      /\ handedOut \in Nat /\ fileSize \in Nat
    BY MinSizeAssumption DEF IInv, TypeOK, ChunkPlan
<1>2. chunk.end = handedOut + chunk.size
    BY AdjacentTail
<1>3. handedOut = chunk.end - chunk.size /\ handedOut < fileSize
    BY <1>1, <1>2
<1> QED
    BY <1>3, DeliversRule

LEMMA ReadyDelivers ==
    ASSUME IInv, RuleInv, ReturnReadyChunk PROVE Stream!Deliver
<1> DEFINE s == readyChunkSizes
<1>1. /\ pc = "peek" /\ s # <<>> /\ ReturnChunk(Last(s).size)
      /\ s \in Seq(ChunkPlan) /\ origin \in Nat /\ origin <= fileSize
      /\ Adjacent(Reverse(s), handedOut, origin) /\ EndBy(s, origin)
      /\ ObeysRule(s, fileSize, score)
    BY DEF ReturnReadyChunk, IInv, TypeOK, AlwaysInv, QueueInv, RuleInv
<1> HIDE DEF s
<1>2. Len(s) \in 1 .. Len(s) /\ Last(s) = s[Len(s)] /\ Last(s) \in ChunkPlan
    BY <1>1, PlannedChunks DEF Last
<1>3. /\ Last(s).end <= origin /\ Last(s).size \in MinSize .. (2 * MinSize - 1)
      /\ Last(s).size = RuleSize(fileSize, score, Last(s).end - Last(s).size)
    BY <1>1, <1>2 DEF EndBy, ObeysRule
<1>4. Reverse(s) \in Seq(ChunkPlan) /\ Len(Reverse(s)) = Len(s) /\ Reverse(s)[1] = Last(s)
    BY <1>1, ReverseProperties, ReverseFront
<1>5. Reverse(s) # <<>>
    BY <1>2, <1>4, EmptyQueue
<1> DEFINE chunk == Last(s)
           chunks == Reverse(s)
<1>6. /\ chunk \in ChunkPlan /\ chunks \in Seq(ChunkPlan) /\ chunks # <<>>
      /\ chunk = chunks[1] /\ Adjacent(chunks, handedOut, origin) /\ chunk.end <= origin
      /\ chunk.size = RuleSize(fileSize, score, chunk.end - chunk.size)
      /\ chunk.size \in MinSize .. (2 * MinSize - 1) /\ ReturnChunk(chunk.size)
    BY <1>1, <1>2, <1>3, <1>4, <1>5
<1> HIDE DEF chunk, chunks
<1> QED
    BY <1>1, <1>6, FirstObeys

LEMMA CompletedDelivers ==
    ASSUME IInv, RuleInv, ReturnCompletedChunk PROVE Stream!Deliver
<1> DEFINE s == completedChunkSizes
           chunk == s[1]
<1>1. pc = "scan" /\ s # <<>> /\ ReturnChunk(chunk.size)
    BY DEF ReturnCompletedChunk
<1>2. /\ s \in Seq(ChunkPlan) /\ origin \in Nat /\ origin <= fileSize
      /\ Adjacent(s, handedOut, origin) /\ EndBy(s, origin)
      /\ ObeysRule(s, fileSize, score)
    BY <1>1 DEF IInv, TypeOK, AlwaysInv, PlanInv, RuleInv
<1> HIDE DEF s
<1>3. 1 \in 1 .. Len(s) /\ chunk \in ChunkPlan
    BY <1>1, <1>2, PlannedChunks
<1>4. /\ chunk.end <= origin /\ chunk.size \in MinSize .. (2 * MinSize - 1)
      /\ chunk.size = RuleSize(fileSize, score, chunk.end - chunk.size)
    BY <1>2, <1>3 DEF EndBy, ObeysRule
<1>5. chunk = s[1]
    OBVIOUS
<1> HIDE DEF chunk
<1> QED
    BY <1>1, <1>2, <1>3, <1>4, <1>5, FirstObeys

LEMMA TailDelivers ==
    ASSUME IInv, ReturnTail PROVE Stream!Deliver
<1> DEFINE a == Available(fileSize, pos)
<1>1. /\ pc = "peek" /\ readyChunkSizes = <<>> /\ a \in 1 .. (2 * MinSize - 1)
      /\ ReturnChunk(a)
    BY DEF ReturnTail
<1>2. pos = handedOut /\ pos \in Nat /\ pos <= fileSize /\ fileSize \in Nat
      /\ MinSize \in Nat
    BY <1>1, PeekFacts, MinSizeAssumption DEF IInv, TypeOK
<1>3. pos + a <= fileSize
    BY <1>2, AvailableBounds
<1>4. a = RuleSize(fileSize, score, handedOut)
  <2>1. a < 2 * MinSize
    BY <1>1, <1>2
  <2> QED
    BY <1>2, <2>1 DEF RuleSize, RuleChunkSize
<1>5. handedOut < fileSize
  <2> HIDE DEF a
  <2> QED
    BY <1>1, <1>2, <1>3
<1> HIDE DEF a
<1> QED
    BY <1>1, <1>4, <1>5, DeliversRule

LEMMA ForcedDelivers ==
    ASSUME IInv, RuleInv, RebaseFrontier \/ FinishRecompute PROVE Stream!Deliver
<1>1. CASE RebaseFrontier
  <2>1. /\ pc = "forced" /\ SelectedOffset < MinSize
        /\ ReturnChunk(MinSize + SelectedOffset)
    BY <1>1 DEF RebaseFrontier, ReturnForcedChunk
  <2>2. /\ MinSize + SelectedOffset = RuleSize(fileSize, score, origin)
        /\ MinSize + SelectedOffset \in Nat
    BY <2>1, WalkEnds
  <2>3. handedOut = origin
    BY <2>1, EmptyQueue DEF IInv, PlanInv, WalkInv
  <2>4. handedOut < fileSize
    <3> DEFINE s == frontier.scannedOffset
    <3>1. /\ origin + s + 2 * MinSize <= fileSize /\ s \in Nat /\ MinSize \in Nat
          /\ MinSize > 0 /\ origin \in Nat /\ fileSize \in Nat
      BY <2>1, PlanFacts
    <3> HIDE DEF s
    <3> QED
      BY <2>3, <3>1
  <2> QED
    BY <2>1, <2>2, <2>3, <2>4, DeliversRule
<1>2. CASE FinishRecompute
  <2>1. pc = "recompute" /\ ReturnChunk(rebase.first)
    BY <1>2 DEF FinishRecompute, ReturnForcedChunk
  <2>2. rebase.first = RuleSize(fileSize, score, origin) /\ handedOut = origin
    BY <2>1, RecomputeFacts DEF RuleInv
  <2>3. handedOut < fileSize
    <3> DEFINE s == frontier.scannedOffset
    <3>1. /\ origin + s + 2 * MinSize <= fileSize /\ s \in Nat /\ MinSize \in Nat
          /\ MinSize > 0 /\ origin \in Nat /\ fileSize \in Nat
      BY <2>1, PlanFacts
    <3> HIDE DEF s
    <3> QED
      BY <2>2, <3>1
  <2> QED
    BY <2>1, <2>2, <2>3, DeliversRule
<1> QED
    BY <1>1, <1>2

\* Every step of the reader is one of the stream, or changes nothing a caller
\* sees.
LEMMA NextDelivers ==
    ASSUME IInv, RuleInv, [Next]_vars PROVE [Stream!Next]_(Stream!delivery)
<1> USE DEF Stream!Next, Stream!delivery, Stream!EndOfFile, Stream!Fail
<1>1. CASE ReturnReadyChunk
    BY <1>1, ReadyDelivers
<1>2. CASE ReturnCompletedChunk
    BY <1>2, CompletedDelivers
<1>3. CASE ReturnTail
    BY <1>3, TailDelivers
<1>4. CASE RebaseFrontier \/ FinishRecompute
    BY <1>4, ForcedDelivers
<1>5. CASE ReturnEndOfFile
  <2> DEFINE a == Available(fileSize, pos)
  <2>1. /\ pc = "peek" /\ readyChunkSizes = <<>> /\ a = 0
        /\ result' = "eof" /\ UNCHANGED handedOut
    BY <1>5 DEF ReturnEndOfFile, history
  <2>2. pos = handedOut /\ pos \in Nat /\ pos <= fileSize /\ fileSize \in Nat
    BY <2>1, PeekFacts DEF IInv, TypeOK
  <2>3. (a = PeekSize \/ pos + a = fileSize) /\ PeekSize > 0
    BY <2>2, AvailableBounds, MinSizeAssumption, HorizonAssumption DEF PeekSize
  <2> HIDE DEF a
  <2>4. handedOut = fileSize
    BY <2>1, <2>2, <2>3
  <2> QED
    BY <2>1, <2>4
<1>6. CASE DiscardFails \/ PeekFails
    BY <1>6 DEF DiscardFails, PeekFails, ReturnError, history
<1>7. CASE \/ DiscardPrevious \/ StartPlan \/ StartRegion \/ HashByte \/ EndRegion \/ WalkBack
           \/ FinishStable \/ StartForced \/ StartRecompute \/ RecomputeByte
    BY <1>7
    DEF DiscardPrevious, StartPlan, StartRegion, HashByte, EndRegion, WalkBack, FinishStable,
        StartForced, StartRecompute, RecomputeByte, history
<1>8. CASE UNCHANGED vars
    BY <1>8 DEF vars, history
<1> QED
    BY <1>1, <1>2, <1>3, <1>4, <1>5, <1>6, <1>7, <1>8 DEF Next, ReaderStep

\* Batches, forced cuts, reuse and recomputation included, and however Discard
\* and Peek fail, the reader hands out the chunks the rule of the simple reader
\* gives position by position, and says EOF after the last byte and not before.
THEOREM Implements == Spec => RefinesChunkStream
<1>1. Spec => Stream!Init
    BY InitDelivers DEF Spec
<1>2. Spec => [](HorizonInv /\ RuleInv)
  <2>1. Init => HorizonInv /\ RuleInv
    BY InitDelivers
  <2>2. IInv /\ IInv' /\ HorizonInv /\ [Next]_vars => HorizonInv'
    BY NextHorizonInv
  <2>3. IInv /\ IInv' /\ HorizonInv /\ RuleInv /\ [Next]_vars => RuleInv'
    BY NextRuleInv
  <2> QED
    BY <2>1, <2>2, <2>3, Invariance, PTL DEF Spec
<1>3. IInv /\ RuleInv /\ [Next]_vars => [Stream!Next]_(Stream!delivery)
    BY NextDelivers
<1> QED
    BY <1>1, <1>2, <1>3, Invariance, PTL DEF Spec, RefinesChunkStream, Stream!Safety

-----------------------------------------------------------------------------
\* How far the scan has come

\* With a cursor and a point before it, something survives a forced cut.
LEMMA PointsSurvive ==
    ASSUME frontier \in Frontier, NEW q \in Seq(Int), Len(q) >= 2
    PROVE  FrontierFrom(q).candidateOffsets # <<>>
<1>1. Len(q) \in Nat /\ ~ (Len(q) < 2) /\ q # <<>>
    BY EmptySeq
<1>2. Front(q) \in Seq(Int) /\ Len(Front(q)) = Len(q) - 1
    BY <1>1, ReverseFront
<1>3. Front(q) # <<>>
    BY <1>1, <1>2, EmptySeq
<1>4. FrontierFrom(q).candidateOffsets = Front(q)
    BY <1>1 DEF FrontierFrom, Frontier
<1> QED
    BY <1>3, <1>4

\* A forced cut that leaves no frontier ends where the cursor is or beyond it.
LEMMA DroppedIsPassed ==
    ASSUME IInv, RebaseFrontier \/ FinishRecompute, ~ HasFrontier'
    PROVE  frontier' = NoFrontier /\ origin' >= origin + frontier.scannedOffset
<1> DEFINE c == frontier.candidateOffsets
           s == frontier.scannedOffset
           n == Len(c)
<1>1. CASE RebaseFrontier
  <2> DEFINE first == MinSize + SelectedOffset
             points == Append(c, s)
             reusable == ReusablePoints(points, first)
             r == Min(reusable)
             q == [k \in 1 .. (Len(points) - r + 1) |-> points[r + k - 1] - first]
  <2>1. /\ pc = "forced" /\ SelectedOffset < MinSize
        /\ \/ reusable = {} /\ ReturnForcedChunk(first, <<>>)
           \/ reusable # {} /\ ReturnForcedChunk(first, q)
    BY <1>1 DEF RebaseFrontier
  <2>2. /\ first \in MinSize .. (2 * MinSize - 1)
        /\ points \in Seq(Nat) /\ Len(points) = n + 1 /\ points[n + 1] = s
        /\ reusable # {} => r \in 2 .. n
    BY <2>1, ReusableFacts
  <2>3. /\ MinSize \in Nat /\ n \in Nat /\ s \in Nat /\ origin \in Nat /\ frontier \in Frontier
    BY <2>1, PlanFacts
  <2>4. walk.selected \in 1 .. n
    BY <2>1, WalkIndices
  <2> HIDE DEF c, s, n, first, points
  <2>5. CASE reusable = {} /\ ReturnForcedChunk(first, <<>>)
    <3>1. n + 1 \in (walk.selected + 1) .. Len(points)
      BY <2>2, <2>3, <2>4
    <3>2. ~ (points[n + 1] >= first)
      BY <2>5, <3>1 DEF ReusablePoints
    <3>3. s < first /\ first \in Nat
      BY <2>2, <2>3, <3>2
    <3>4. origin' = origin + first /\ frontier' = FrontierFrom(<<>>)
      BY <2>5 DEF ReturnForcedChunk
    <3>5. FrontierFrom(<<>>) = NoFrontier
      BY EmptyQueue DEF FrontierFrom
    <3>6. origin + first >= origin + s
      BY <2>3, <3>3
    <3> QED
      BY <3>4, <3>5, <3>6 DEF s
  <2>6. CASE reusable # {} /\ ReturnForcedChunk(first, q)
    <3>1. r \in 2 .. n /\ first \in Int
      BY <2>2, <2>3, <2>6
    <3> HIDE DEF reusable, r
    <3>2. ASSUME NEW k \in 1 .. (Len(points) - r + 1) PROVE points[r + k - 1] - first \in Int
      <4>1. r + k - 1 \in 1 .. Len(points)
        BY <2>2, <2>3, <3>1
      <4>2. points[r + k - 1] \in Nat
        BY <2>2, <4>1, ElementOfSeq
      <4> QED
        BY <3>1, <4>2
    <3>3. Len(points) - r + 1 \in Nat /\ Len(points) - r + 1 >= 2
      BY <2>2, <2>3, <3>1
    <3>4. q \in Seq(Int) /\ Len(q) = Len(points) - r + 1
      BY <3>2, <3>3
    <3> HIDE DEF q
    <3>5. FrontierFrom(q).candidateOffsets # <<>>
      BY <2>3, <3>3, <3>4, PointsSurvive
    <3> QED
      BY <2>6, <3>5 DEF ReturnForcedChunk, HasFrontier
  <2> QED
    BY <2>1, <2>5, <2>6
<1>2. CASE FinishRecompute
  <2> DEFINE r == rebase.reusable
             points == rebase.points
             e == rebase.recomputed.candidateOffsets
             t == SubSeq(points, r, Len(points))
  <2>1. pc = "recompute" /\ ReturnForcedChunk(rebase.first, e \o t)
    BY <1>2 DEF FinishRecompute
  <2>2. /\ n \in Nat /\ frontier \in Frontier
    BY <2>1, PlanFacts
  <2>3. /\ r \in 2 .. n /\ points \in Seq(Nat) /\ Len(points) = n + 1
        /\ rebase.recomputed \in Frontier /\ e # <<>>
    BY <2>1, RecomputeFacts DEF FrontierFits
  <2>4. e \in Seq(Nat) /\ Len(e) \in Nat /\ Len(e) > 0
    BY <2>3, FrontierTypes
  <2> HIDE DEF r, points, e, c, n
  <2>5. t \in Seq(Nat) /\ Len(t) = n + 2 - r
    <3>1. \A k \in r .. Len(points) : points[k] \in Nat
      BY <2>2, <2>3, ElementOfSeq
    <3>2. r \in Int /\ Len(points) \in Int /\ r <= Len(points)
      BY <2>2, <2>3
    <3> QED
      BY <2>2, <2>3, <3>1, <3>2, SubSeqProperties
  <2> HIDE DEF t
  <2>6. e \o t \in Seq(Nat) /\ Len(e \o t) = Len(e) + Len(t)
    BY <2>4, <2>5, ConcatProperties
  <2>7. e \o t \in Seq(Int) /\ Len(e \o t) >= 2
    BY <2>2, <2>3, <2>4, <2>5, <2>6
  <2>8. FrontierFrom(e \o t).candidateOffsets # <<>>
    BY <2>2, <2>7, PointsSurvive
  <2> QED
    BY <2>1, <2>8 DEF ReturnForcedChunk, HasFrontier
<1> QED
    BY <1>1, <1>2

\* What ScanNeverGoesBack asks of a step.
IsForward == origin' + frontier'.scannedOffset >= origin + frontier.scannedOffset

LEMMA NextIsForward ==
    ASSUME IInv, IInv', [Next]_vars PROVE IsForward
<1>1. /\ origin \in Nat /\ frontier \in Frontier /\ frontier.scannedOffset \in Nat
      /\ MinSize \in Nat /\ MinSize > 0
    BY FrontierTypes, MinSizeAssumption DEF IInv, TypeOK
<1>2. CASE UNCHANGED <<origin, frontier>>
    BY <1>1, <1>2 DEF IsForward, HasFrontier
<1>3. CASE ReturnTail
  <2>1. /\ pc = "peek" /\ UNCHANGED frontier
        /\ Available(fileSize, pos) \in 1 .. (2 * MinSize - 1)
        /\ origin' = origin + Available(fileSize, pos)
    BY <1>3 DEF ReturnTail
  <2>2. Available(fileSize, pos) \in Nat
    BY <1>1, <2>1
  <2> QED
    BY <1>1, <2>1, <2>2 DEF IsForward, HasFrontier
<1>4. CASE StartPlan
  <2>1. UNCHANGED origin /\ frontier' = IF HasFrontier THEN frontier ELSE NewFrontier(pos)
    BY <1>4, StartsAtOrigin DEF StartPlan, history
  <2>2. CASE HasFrontier
    BY <1>2, <2>1, <2>2
  <2>3. CASE ~ HasFrontier
    <3>1. frontier.scannedOffset = 0 /\ frontier'.scannedOffset = 0
      BY <2>1, <2>3 DEF IInv, AlwaysInv, NewFrontier
    <3> QED
      BY <1>1, <2>1, <3>1 DEF IsForward
  <2> QED
    BY <2>2, <2>3
<1>5. CASE HashByte
  <2>1. /\ pc = "region" /\ pc' = "region" /\ UNCHANGED origin
        /\ frontier'.scannedOffset = frontier.scannedOffset + 1
    BY <1>5 DEF HashByte, ScanByte, history
  <2>2. HasFrontier'
    BY <2>1 DEF IInv, PlanInv
  <2> QED
    BY <1>1, <2>1, <2>2 DEF IsForward
<1>6. CASE FinishStable
  <2> DEFINE l == Last(frontier.candidateOffsets)
             s == frontier.scannedOffset
  <2>1. /\ pc = "stable" /\ origin' = origin + MinSize + l
        /\ frontier'.scannedOffset = 0
    BY <1>6 DEF FinishStable, StableFrontier
  <2>2. l \in Nat /\ s \in Nat /\ s - l < MinSize
    BY <2>1, PlanFacts
  <2> HIDE DEF l, s
  <2>3. origin' + 0 >= origin + s
    BY <1>1, <2>1, <2>2
  <2> QED
    BY <2>1, <2>3 DEF IsForward, s
<1>7. CASE RebaseFrontier \/ FinishRecompute
  <2>1. CASE HasFrontier'
    <3> DEFINE x == origin' + frontier'.scannedOffset
               y == origin + frontier.scannedOffset
    <3>1. x = y
      BY <1>7, <2>1, CursorKept DEF RebaseFrontier, FinishRecompute
    <3>2. y \in Nat
      BY <1>1
    <3> HIDE DEF x, y
    <3>3. x >= y
      BY <3>1, <3>2
    <3> QED
      BY <2>1, <3>3 DEF IsForward, x, y
  <2>2. CASE ~ HasFrontier'
    <3>1. frontier'.scannedOffset = 0 /\ origin' >= origin + frontier.scannedOffset
      BY <1>7, <2>2, DroppedIsPassed DEF NoFrontier
    <3>2. origin' \in Nat
      BY DEF IInv, TypeOK
    <3> QED
      BY <3>1, <3>2 DEF IsForward
  <2> QED
    BY <2>1, <2>2
<1> QED
    BY <1>2, <1>3, <1>4, <1>5, <1>6, <1>7
    DEF Next, ReaderStep, vars, reader, history, DiscardPrevious, DiscardFails, PeekFails,
        ReturnReadyChunk, ReturnEndOfFile, StartRegion, EndRegion, WalkBack,
        ReturnCompletedChunk, StartForced, StartRecompute, RecomputeByte

\* No byte is hashed twice by the scan: a frontier that is kept, restarted or
\* dropped never lets the next byte to hash be before the last one hashed.
THEOREM ScanIsForward == Spec => ScanNeverGoesBack
<1>1. IInv /\ IInv' /\ [Next]_vars =>
          [origin' + frontier'.scannedOffset >= origin + frontier.scannedOffset]_vars
    BY NextIsForward DEF IsForward
<1> QED
    BY <1>1, Invariance, PTL DEF Spec, ScanNeverGoesBack

-----------------------------------------------------------------------------
\* How many chunks are planned

\* Multiples of m.
LEMMA Multiples ==
    ASSUME NEW k \in Nat, NEW m \in Nat
    PROVE  0 * m = 0 /\ 1 * m = m /\ (k + 1) * m = k * m + m /\ k * m \in Nat
<1>1. k * m \in Nat
    OBVIOUS
<1>2. (k + 1) * m = k * m + m
    OBVIOUS
<1>3. 0 * m = 0 /\ 1 * m = m
    OBVIOUS
<1> QED
    BY <1>1, <1>2, <1>3

\* Chunks of MinSize bytes and more that lead from one position to another are
\* no more than fit between the two.
LEMMA AdjacentFit ==
    ASSUME NEW chunks \in Seq(ChunkPlan), NEW from \in Int, NEW to \in Int,
           Adjacent(chunks, from, to), EndBy(chunks, to)
    PROVE  Len(chunks) * MinSize <= to - from
<1> DEFINE n == Len(chunks)
           end(k) == chunks[k].end
           fit(k) == k * MinSize
           Short == {k \in 1 .. n : end(k) < from + fit(k)}
<1>1. n \in Nat /\ MinSize \in Nat /\ MinSize > 0
    BY PlannedChunks, MinSizeAssumption
<1>2. \A k \in 1 .. n : chunks[k].size \in Nat /\ end(k) \in Nat
    BY PlannedChunks
<1>3. fit(0) = 0 /\ fit(1) = MinSize /\ \A k \in Nat : fit(k) \in Nat /\ fit(k + 1) = fit(k) + MinSize
  <2>1. fit(0) = 0 /\ fit(1) = MinSize
    BY <1>1, Multiples
  <2>2. ASSUME NEW k \in Nat PROVE fit(k) \in Nat /\ fit(k + 1) = fit(k) + MinSize
    BY <1>1, Multiples
  <2> QED
    BY <2>1, <2>2
<1>4. CASE n = 0
  <2>1. chunks = <<>>
    BY <1>4, PlannedChunks
  <2>2. from = to
    BY <2>1 DEF Adjacent
  <2> HIDE DEF n, fit
  <2>3. fit(n) <= to - from
    BY <1>3, <1>4, <2>2
  <2> QED
    BY <2>3 DEF fit, n
<1>5. CASE n > 0
  <2>1. chunks # <<>>
    BY <1>5, PlannedChunks
  <2>2. /\ end(1) - chunks[1].size = from /\ end(n) = to
        /\ \A k \in 1 .. (n - 1) : end(k + 1) - chunks[k + 1].size = end(k)
        /\ \A k \in 1 .. n : chunks[k].size >= MinSize
    BY <1>1, <2>1, SMTT(30) DEF Adjacent, EndBy
  <2> HIDE DEF n, fit, end
  <2>3. Short = {}
    <3> SUFFICES ASSUME Short # {} PROVE FALSE
        OBVIOUS
    <3>1. Short \in SUBSET Nat
      BY <1>1
    <3>2. PICK k \in Short : \A j \in Short : k <= j
      BY <3>1, LeastMember
    <3>3. k \in 1 .. n /\ k \in Nat /\ end(k) < from + fit(k) /\ end(k) \in Nat
      BY <1>1, <1>2, <3>2
    <3>4. \A j \in 1 .. n : j < k => ~ (end(j) < from + fit(j))
      BY <3>2, <3>3
    <3> HIDE DEF Short
    <3>5. chunks[k].size \in Nat /\ chunks[k].size >= MinSize
      BY <1>2, <2>2, <3>3
    <3>6. CASE k = 1
      <4>1. end(1) - chunks[1].size = from /\ fit(1) = MinSize
        BY <1>3, <2>2
      <4> QED
        BY <1>1, <3>3, <3>5, <3>6, <4>1
    <3>7. CASE k # 1
      <4> DEFINE j == k - 1
      <4>1. j \in 1 .. (n - 1) /\ j \in 1 .. n /\ j + 1 = k /\ j < k /\ j \in Nat
        BY <1>1, <3>3, <3>7
      <4> HIDE DEF j
      <4>2. ~ (end(j) < from + fit(j)) /\ end(j) \in Nat /\ fit(j) \in Nat
        BY <1>2, <1>3, <3>4, <4>1
      <4>3. end(k) - chunks[k].size = end(j) /\ fit(k) = fit(j) + MinSize
        BY <1>3, <2>2, <4>1
      <4> QED
        BY <1>1, <3>3, <3>5, <4>2, <4>3
    <3> QED
      BY <3>6, <3>7
  <2>4. n \in 1 .. n /\ n \in Nat
    BY <1>1, <1>5
  <2>5. ~ (to < from + fit(n)) /\ fit(n) \in Nat
    BY <1>3, <2>2, <2>3, <2>4
  <2> HIDE DEF Short
  <2>6. fit(n) <= to - from
    BY <2>5
  <2> QED
    BY <2>6 DEF fit, n
<1> QED
    BY <1>1, <1>4, <1>5

\* What fits m times into x is not more than x divided by m.
LEMMA FitsTimes ==
    ASSUME NEW n \in Nat, NEW m \in Nat, m > 0, NEW x \in Nat, n * m <= x
    PROVE  n <= x \div m
<1> DEFINE q == x \div m
           y == x % m
<1>1. q \in Int /\ y \in 0 .. (m - 1) /\ x = m * q + y
    OBVIOUS
<1> HIDE DEF q, y
<1> SUFFICES ASSUME ~ (n <= q) PROVE FALSE
    BY DEF q
<1>2. q + 1 <= n
    BY <1>1
<1>3. m * (q + 1) <= m * n
    BY <1>1, <1>2
<1>4. m * (q + 1) = m * q + m /\ m * n = n * m
    BY <1>1
<1> QED
    BY <1>1, <1>3, <1>4

\* Only a plan has completed chunks, and only the walk of one a batch.
BatchInv ==
    /\ pc \in {"idle", "peek"} => completedChunkSizes = <<>>
    /\ pc # "stable" => walk.batch = <<>>

LEMMA NextBatchInv ==
    ASSUME IInv, BatchInv, [Next]_vars PROVE BatchInv'
<1>1. walk \in [selected : Nat, next : Int, batch : Seq(ChunkPlan)]
    BY DEF IInv, TypeOK
<1>2. CASE WalkBack
  <2>1. /\ pc \in {"stable", "forced"} /\ pc' = pc
        /\ pc = "forced" => walk'.batch = walk.batch
    BY <1>1, <1>2 DEF WalkBack
  <2> QED
    BY <2>1 DEF BatchInv
<1> QED
    BY <1>1, <1>2
    DEF Next, ReaderStep, BatchInv, vars, reader, history, plan, DiscardPrevious, DiscardFails,
        PeekFails, ReturnReadyChunk, ReturnEndOfFile, ReturnTail, StartPlan, StartRegion,
        HashByte, EndRegion, FinishStable, ReturnCompletedChunk, StartForced, RebaseFrontier,
        StartRecompute, RecomputeByte, FinishRecompute, ReturnForcedChunk, ReturnChunk,
        ReturnError, StartWalk, NoWalk, IInv, WalkInv

\* The completed chunks of a plan lie within the horizon.
LEMMA CompletedFit ==
    ASSUME IInv, HorizonInv, BatchInv
    PROVE  Len(completedChunkSizes) <= PeekSize \div MinSize
<1>1. /\ MinSize \in Nat /\ MinSize > 0 /\ PeekSize \in Nat
    BY MinSizeAssumption, HorizonAssumption DEF PeekSize
<1>2. completedChunkSizes \in Seq(ChunkPlan) /\ Len(completedChunkSizes) \in Nat
    BY PlannedChunks DEF IInv, TypeOK
<1>3. Len(completedChunkSizes) * MinSize <= PeekSize
  <2>1. CASE pc \in {"idle", "peek"}
    <3>1. Len(completedChunkSizes) = 0
      BY <2>1, EmptyQueue DEF BatchInv
    <3>2. 0 * MinSize <= PeekSize
      BY <1>1
    <3> QED
      BY <3>1, <3>2
  <2>2. CASE pc \notin {"idle", "peek"}
    <3> DEFINE m == Len(completedChunkSizes) * MinSize
               s == frontier.scannedOffset
    <3>1. /\ Adjacent(completedChunkSizes, handedOut, origin)
          /\ EndBy(completedChunkSizes, origin) /\ HasFrontier
      BY <2>2 DEF IInv, PlanInv
    <3>2. origin \in Nat /\ handedOut \in Nat /\ s \in Nat
      BY <2>2, PlanFacts
    <3>3. m <= origin - handedOut /\ m \in Nat
      BY <1>1, <1>2, <3>1, <3>2, AdjacentFit
    <3>4. origin + s + 2 * MinSize <= handedOut + PeekSize
      BY <3>1, FrontierIsSeen
    <3> HIDE DEF m, s
    <3>5. m <= PeekSize
      BY <1>1, <3>2, <3>3, <3>4
    <3> QED
      BY <3>5 DEF m
  <2> QED
    BY <2>1, <2>2
<1> QED
    BY <1>1, <1>2, <1>3, FitsTimes

\* Every planned chunk has MinSize to 2*MinSize - 1 bytes, and a plan never
\* outgrows what NewChunkReader reserves for its chunks.
THEOREM PlansBounded == Spec => []PlansAreBounded
<1>1. ASSUME IInv, HorizonInv, BatchInv PROVE PlansAreBounded
  <2>1. \A to : EndBy(<<>>, to)
    BY EmptyQueue
  <2>2. \E to : EndBy(readyChunkSizes, to)
    BY <1>1, <2>1 DEF IInv, QueueInv, PlanInv
  <2>3. \E to : EndBy(completedChunkSizes, to)
    BY <1>1, <2>1 DEF IInv, PlanInv, BatchInv
  <2>4. \E to : EndBy(walk.batch, to)
    BY <1>1, <2>1 DEF IInv, WalkInv, BatchFits, BatchInv
  <2>5. Len(completedChunkSizes) <= PeekSize \div MinSize
    BY <1>1, CompletedFit
  <2> QED
    BY <2>2, <2>3, <2>4, <2>5 DEF PlansAreBounded, EndBy
<1>2. Init => HorizonInv /\ BatchInv
    BY InitDelivers DEF Init, BatchInv, NoWalk
<1>3. IInv /\ IInv' /\ HorizonInv /\ [Next]_vars => HorizonInv'
    BY NextHorizonInv
<1>4. IInv /\ BatchInv /\ [Next]_vars => BatchInv'
    BY NextBatchInv
<1> QED
    BY <1>1, <1>2, <1>3, <1>4, Invariance, PTL DEF Spec

-----------------------------------------------------------------------------
\* Every call comes to an end

\* What a step of a call uses up: bytes that are not hashed yet, candidates that
\* a walk may pass, and the steps that do neither.  A byte may become a
\* candidate, and a byte whose walk made the frontier stable is hashed with it.
Unhashed == dataLen - hashEnd
Candidates == Len(frontier.candidateOffsets)

\* The steps that a call has left, at most.
StepsLeft ==
    CASE pc = "idle" -> 0
      [] pc = "peek" -> 9 * fileSize + Candidates + 6
      [] pc = "scan" -> fileSize + 8 * Unhashed + Candidates + 4
      [] pc = "region" -> fileSize + 8 * Unhashed + Candidates
                            + (IF hashEnd = region.end /\ ~ IsStable THEN 5 ELSE 3)
      [] pc \in {"stable", "forced"} -> fileSize + 8 * Unhashed + walk.next + 3
      [] pc = "recompute" ->
             rebase.points[rebase.reusable] - rebase.recomputed.scannedOffset

\* The calls that can still end otherwise than at the end of the file, at most.
CallsLeft == (fileSize - handedOut) + (MaxFaults - faults)

\* A step of a call can be taken: its guards, where they are not the negations of
\* one another, and the elements it indexes.
CanGoOn ==
    \/ pc \in {"peek", "scan"}
    \/ pc = "region" /\ hashEnd <= region.end
    \/ /\ pc \in {"stable", "forced"}
       /\ walk.selected \in 1 .. Candidates
       /\ SelectedOffset >= MinSize => walk.next \in 1 .. Candidates
    \/ pc = "recompute" /\ rebase.reusable \in 1 .. Len(rebase.points)

\* A walk that selects the first or the second candidate is left with an index
\* before the list, which it does not use.
StartsBefore == pc \in {"stable", "forced"} => walk.next >= -1

\* What is known of the numbers that are counted.
LEMMA CountedTypes ==
    ASSUME IInv
    PROVE  /\ fileSize \in Nat /\ dataLen \in Nat /\ hashEnd \in Nat /\ Candidates \in Nat
           /\ Unhashed \in Int /\ region.end \in Nat
           /\ walk.next \in Int /\ walk.selected \in Nat
           /\ MinSize \in Nat /\ MinSize > 0
           /\ pc \in {"idle", "peek", "scan", "region", "stable", "forced", "recompute"}
<1>1. /\ fileSize \in Nat /\ dataLen \in Nat /\ hashEnd \in Nat /\ frontier \in Frontier
      /\ region \in [end : Nat, candidates : Nat]
      /\ walk \in [selected : Nat, next : Int, batch : Seq(ChunkPlan)]
      /\ pc \in {"idle", "peek", "scan", "region", "stable", "forced", "recompute"}
    BY DEF IInv, TypeOK
<1>2. Candidates \in Nat
    BY <1>1, FrontierTypes DEF Candidates
<1> QED
    BY <1>1, <1>2, MinSizeAssumption DEF Unhashed

\* In a plan no more is hashed than there is, and the index of a walk is at most
\* one before the list.
LEMMA CountedFacts ==
    ASSUME IInv, HorizonInv, pc \notin {"idle", "peek"}
    PROVE  Unhashed \in Nat /\ hashEnd <= dataLen
BY CountedTypes DEF HorizonInv, Unhashed

\* A walk never goes further back than that.
LEMMA NextStartsBefore ==
    ASSUME IInv, StartsBefore, [Next]_vars PROVE StartsBefore'
<1>1. CASE WalkBack
  <2>1. /\ pc \in {"stable", "forced"} /\ SelectedOffset >= MinSize
        /\ walk \in [selected : Nat, next : Int, batch : Seq(ChunkPlan)]
        /\ walk'.next \in {walk.next - 2, walk.next - 1}
        /\ walk'.next = walk.next - 2 \/ walk'.next = walk.next - 1
    BY <1>1 DEF WalkBack, IInv, TypeOK
  <2>2. walk.next >= 1 /\ walk.next \in Int
    BY <2>1, WalkIndices, CountedTypes
  <2> QED
    BY <2>1, <2>2 DEF StartsBefore
<1>2. CASE StartWalk /\ pc \in {"region", "scan"}
  <2>1. Candidates \in Nat /\ Candidates > 0
    BY <1>2, PlanFacts DEF Candidates
  <2>2. walk'.next = Candidates - 2
    BY <1>2 DEF StartWalk, Candidates
  <2> QED
    BY <2>1, <2>2 DEF StartsBefore
<1>3. CASE pc' \notin {"stable", "forced"} \/ UNCHANGED <<pc, walk>>
    BY <1>3 DEF StartsBefore
<1> QED
    BY <1>1, <1>2, <1>3
    DEF Next, ReaderStep, vars, plan, DiscardPrevious, DiscardFails, PeekFails,
        ReturnReadyChunk, ReturnEndOfFile, ReturnTail, StartPlan, StartRegion, HashByte,
        EndRegion, FinishStable, ReturnCompletedChunk, StartForced, RebaseFrontier,
        StartRecompute, RecomputeByte, FinishRecompute, ReturnForcedChunk, ReturnChunk,
        ReturnError

\* What is left is a number of steps, one at least, and one of them can be taken.
LEMMA ReaderCanGoOn ==
    ASSUME IInv, HorizonInv, StartsBefore
    PROVE  /\ StepsLeft \in Nat
           /\ pc # "idle" => StepsLeft > 0 /\ CanGoOn
<1>1. /\ fileSize \in Nat /\ Candidates \in Nat /\ walk.next \in Int
      /\ pc \in {"idle", "peek", "scan", "region", "stable", "forced", "recompute"}
    BY CountedTypes
<1>2. CASE pc \in {"idle", "peek"}
    BY <1>1, <1>2 DEF StepsLeft, CanGoOn
<1>3. CASE pc \in {"scan", "region"}
  <2>1. Unhashed \in Nat
    BY <1>3, CountedFacts
  <2>2. pc = "region" => hashEnd <= region.end
    BY DEF IInv, RegionInv
  <2>3. CanGoOn
    BY <1>3, <2>2 DEF CanGoOn
  <2>4. CASE pc = "scan"
    BY <1>1, <2>1, <2>3, <2>4 DEF StepsLeft
  <2>5. CASE pc = "region"
    <3>1. StepsLeft = fileSize + 8 * Unhashed + Candidates
                        + (IF hashEnd = region.end /\ ~ IsStable THEN 5 ELSE 3)
      BY <2>5 DEF StepsLeft
    <3> QED
      BY <1>1, <2>1, <2>3, <3>1
  <2> QED
    BY <1>3, <2>4, <2>5
<1>4. CASE pc \in {"stable", "forced"}
  <2>1. Unhashed \in Nat /\ walk.next >= -1
    BY <1>4, CountedFacts DEF StartsBefore
  <2>2. StepsLeft = fileSize + 8 * Unhashed + walk.next + 3
    BY <1>4 DEF StepsLeft
  <2>3. StepsLeft \in Nat /\ StepsLeft > 0
    BY <1>1, <2>1, <2>2
  <2>4. /\ walk.selected \in 1 .. Candidates
        /\ SelectedOffset >= MinSize => walk.next \in 1 .. (walk.selected - 2)
    BY <1>4, WalkIndices DEF Candidates
  <2>5. CanGoOn
    BY <1>1, <1>4, <2>4 DEF CanGoOn
  <2> QED
    BY <2>3, <2>5
<1>5. CASE pc = "recompute"
  <2> DEFINE n == Len(frontier.candidateOffsets)
             r == rebase.reusable
             b == rebase.points[r]
             o == rebase.recomputed.scannedOffset
  <2>1. /\ n \in Nat /\ r \in 2 .. n /\ Len(rebase.points) = n + 1
        /\ rebase.points \in Seq(Nat) /\ o \in Nat
    BY <1>5, RecomputeFacts, PlanFacts
  <2>2. o < b
    BY <1>5 DEF IInv, RecomputeInv
  <2>3. b \in Nat
    BY <2>1, ElementOfSeq
  <2>4. StepsLeft = b - o
    BY <1>5 DEF StepsLeft
  <2>5. r \in 1 .. Len(rebase.points)
    BY <2>1
  <2>6. CanGoOn
    BY <1>5, <2>5 DEF CanGoOn
  <2> HIDE DEF b, o
  <2> QED
    BY <2>1, <2>2, <2>3, <2>4, <2>6
<1> QED
    BY <1>1, <1>2, <1>3, <1>4, <1>5

\* A plan has room for what it is going to hash, which leaves two chunks unhashed.
LEMMA PlanCounts ==
    ASSUME IInv, IInv', HorizonInv', StartPlan PROVE StepsLeft' < StepsLeft
<1> DEFINE a == Available(fileSize, pos)
           u == Unhashed'
           n == Candidates'
<1>1. /\ pc = "peek" /\ pc' = "scan" /\ fileSize' = fileSize /\ a >= 2 * MinSize
      /\ dataLen' = a - MinSize /\ hashEnd' = MinSize + frontier'.scannedOffset
      /\ frontier' = IF frontier.candidateOffsets = <<>> THEN NewFrontier(pos) ELSE frontier
    BY StartsAtOrigin DEF StartPlan, HasFrontier, file
<1>2. /\ fileSize \in Nat /\ Candidates \in Nat /\ MinSize \in Nat /\ MinSize > 0
      /\ dataLen' \in Nat /\ hashEnd' \in Nat /\ u \in Int /\ n \in Nat
    <2>1. /\ dataLen' \in Nat /\ hashEnd' \in Nat /\ frontier' \in Frontier
      BY DEF IInv, TypeOK
    <2>2. n \in Nat
      BY <2>1, FrontierTypes DEF Candidates
    <2> QED
      BY <2>1, <2>2, CountedTypes DEF Unhashed
<1>3. a \in Nat /\ a <= fileSize
  <2>1. pos \in Nat /\ pos <= fileSize
    BY <1>2 DEF IInv, TypeOK
  <2> QED
    BY <1>2, <2>1, AvailableBounds
<1>4. n <= Candidates + 1
  <2>1. CASE frontier.candidateOffsets = <<>>
    BY <1>1, <1>2, <2>1 DEF NewFrontier, Candidates
  <2>2. CASE frontier.candidateOffsets # <<>>
    BY <1>1, <1>2, <2>2 DEF Candidates
  <2> QED
    BY <2>1, <2>2
<1>5. u <= fileSize - 1
  <2>1. frontier'.scannedOffset \in Nat
    BY FrontierTypes DEF IInv, TypeOK
  <2>2. u = dataLen' - hashEnd'
    BY DEF Unhashed
  <2> QED
    BY <1>1, <1>2, <1>3, <2>1, <2>2
<1>6. /\ StepsLeft = 9 * fileSize + Candidates + 6
      /\ StepsLeft' = fileSize + 8 * u + n + 4
    BY <1>1 DEF StepsLeft
<1> HIDE DEF a, u, n
<1> QED
    BY <1>2, <1>4, <1>5, <1>6

\* The steps of the scan: every byte, a region that begins, and one that ends.
LEMMA ScanCounts ==
    ASSUME IInv, IInv', StartRegion \/ HashByte \/ EndRegion PROVE StepsLeft' < StepsLeft
<1> DEFINE n == Candidates
<1>1. /\ fileSize \in Nat /\ dataLen \in Nat /\ hashEnd \in Nat /\ n \in Nat
      /\ Unhashed \in Int /\ region.end \in Nat /\ fileSize' = fileSize
    BY CountedTypes DEF StartRegion, HashByte, EndRegion, file
<1>2. CASE StartRegion
  <2>1. /\ pc = "scan" /\ pc' = "region" /\ hashEnd < dataLen
        /\ UNCHANGED <<frontier, dataLen, hashEnd>>
        /\ region' = [end |-> IF ReachesStabilityPoint
                              THEN hashEnd + BytesUntilStable ELSE dataLen,
                      candidates |-> Len(frontier.candidateOffsets)]
    BY <1>2 DEF StartRegion, reader
  <2>2. Unhashed' = Unhashed /\ Candidates' = n
    BY <2>1 DEF Unhashed, Candidates
  <2>3. hashEnd' = region'.end => IsStable'
    <3>1. region'.candidates = Len(frontier'.candidateOffsets)
      BY <2>1
    <3> QED
      BY <1>1, <2>1, <3>1 DEF IsStable
  <2>4. /\ StepsLeft = fileSize + 8 * Unhashed + n + 4
        /\ StepsLeft' = fileSize + 8 * Unhashed + n + 3
    BY <1>1, <2>1, <2>2, <2>3 DEF StepsLeft
  <2> HIDE DEF n
  <2> QED
    BY <1>1, <2>4
<1>3. CASE HashByte
  <2>1. /\ pc = "region" /\ pc' = "region" /\ hashEnd < region.end
        /\ hashEnd' = hashEnd + 1 /\ UNCHANGED <<dataLen, region>>
        /\ frontier' = ScanByte(frontier, pos + hashEnd)
    BY <1>3 DEF HashByte
  <2>2. Unhashed' = Unhashed - 1
    BY <1>1, <2>1 DEF Unhashed
  <2>3. Candidates' \in Nat /\ Candidates' <= n + 1
    <3>1. /\ frontier.candidateOffsets \in Seq(Nat) /\ frontier.scannedOffset \in Nat
      BY FrontierTypes DEF IInv, TypeOK
    <3>2. frontier'.candidateOffsets
             \in {frontier.candidateOffsets,
                  Append(frontier.candidateOffsets, frontier.scannedOffset + 1)}
      BY <2>1 DEF ScanByte
    <3>3. Len(Append(frontier.candidateOffsets, frontier.scannedOffset + 1)) = n + 1
      BY <3>1 DEF Candidates
    <3>4. Candidates' = n \/ Candidates' = n + 1
      BY <3>2, <3>3 DEF Candidates
    <3> QED
      BY <1>1, <3>4
  <2>4. /\ StepsLeft = fileSize + 8 * Unhashed + n + 3
        /\ StepsLeft' = fileSize + 8 * Unhashed' + Candidates'
                          + (IF (hashEnd = region.end /\ ~ IsStable)' THEN 5 ELSE 3)
    <3>1. hashEnd # region.end
      BY <1>1, <2>1
    <3> QED
      BY <1>1, <2>1, <3>1 DEF StepsLeft
  <2> DEFINE m == Candidates'
  <2>5. m \in Nat /\ m <= n + 1
    BY <2>3
  <2> HIDE DEF n, m
  <2>6. /\ fileSize + 8 * (Unhashed - 1) + m + 5 < fileSize + 8 * Unhashed + n + 3
        /\ fileSize + 8 * (Unhashed - 1) + m + 3 < fileSize + 8 * Unhashed + n + 3
    BY <1>1, <2>5
  <2> QED
    BY <2>2, <2>4, <2>6 DEF m
<1>4. CASE EndRegion
  <2>1. /\ pc = "region" /\ hashEnd = region.end
        /\ UNCHANGED <<frontier, dataLen, hashEnd>>
        /\ IsStable => pc' = "stable" /\ walk'.next = n - 2
        /\ ~ IsStable => pc' = "scan"
    BY <1>4 DEF EndRegion, StartWalk, reader, Candidates
  <2>2. Unhashed' = Unhashed /\ Candidates' = n
    BY <2>1 DEF Unhashed, Candidates
  <2>3. CASE IsStable
    <3>1. /\ StepsLeft = fileSize + 8 * Unhashed + n + 3
          /\ StepsLeft' = fileSize + 8 * Unhashed + (n - 2) + 3
      BY <1>1, <2>1, <2>2, <2>3 DEF StepsLeft
    <3> HIDE DEF n
    <3> QED
      BY <1>1, <3>1
  <2>4. CASE ~ IsStable
    <3>1. /\ StepsLeft = fileSize + 8 * Unhashed + n + 5
          /\ StepsLeft' = fileSize + 8 * Unhashed + n + 4
      BY <1>1, <2>1, <2>2, <2>4 DEF StepsLeft
    <3> HIDE DEF n
    <3> QED
      BY <1>1, <3>1
  <2> QED
    BY <2>3, <2>4
<1> QED
    BY <1>2, <1>3, <1>4

\* The steps of a walk, and a stable batch, which hashes a byte.
LEMMA WalkCounts ==
    ASSUME IInv, StartsBefore, WalkBack \/ FinishStable \/ StartForced
    PROVE  StepsLeft' < StepsLeft
<1>1. /\ fileSize \in Nat /\ dataLen \in Nat /\ hashEnd \in Nat /\ Candidates \in Nat
      /\ Unhashed \in Int /\ walk.next \in Int /\ fileSize' = fileSize
    BY CountedTypes DEF WalkBack, FinishStable, StartForced, file
<1>2. CASE WalkBack
  <2>1. /\ pc \in {"stable", "forced"} /\ pc' = pc /\ UNCHANGED <<dataLen, hashEnd>>
        /\ walk \in [selected : Nat, next : Int, batch : Seq(ChunkPlan)]
        /\ walk'.next = walk.next - 2 \/ walk'.next = walk.next - 1
    BY <1>2 DEF WalkBack, IInv, TypeOK
  <2>2. /\ StepsLeft = fileSize + 8 * Unhashed + walk.next + 3
        /\ StepsLeft' = fileSize + 8 * Unhashed + walk'.next + 3
    BY <1>1, <2>1 DEF StepsLeft, Unhashed
  <2> QED
    BY <1>1, <2>1, <2>2
<1>3. CASE FinishStable
  <2>1. /\ pc = "stable" /\ pc' = "scan" /\ hashEnd' = hashEnd + 1 /\ dataLen' = dataLen
        /\ frontier'.candidateOffsets = SubSeq(frontier.candidateOffsets, 1, 1)
    BY <1>3 DEF FinishStable, StableFrontier
  <2>2. Unhashed' = Unhashed - 1
    BY <1>1, <2>1 DEF Unhashed
  <2>3. Candidates' = 1
    <3>1. /\ frontier.candidateOffsets \in Seq(Nat)
          /\ Len(frontier.candidateOffsets) > 0
      BY <2>1, PlanFacts
    <3>2. frontier.candidateOffsets[1] \in Nat
      BY <3>1, ElementOfSeq
    <3> QED
      BY <2>1, <3>1, <3>2 DEF Candidates
  <2>4. walk.next >= -1
    BY <2>1 DEF StartsBefore
  <2>5. /\ StepsLeft = fileSize + 8 * Unhashed + walk.next + 3
        /\ StepsLeft' = fileSize + 8 * (Unhashed - 1) + 1 + 4
    BY <1>1, <2>1, <2>2, <2>3 DEF StepsLeft
  <2> QED
    BY <1>1, <2>4, <2>5
<1>4. CASE StartForced
  <2>1. /\ pc = "scan" /\ pc' = "forced" /\ UNCHANGED <<dataLen, hashEnd>>
        /\ walk'.next = Candidates - 2
    BY <1>4 DEF StartForced, StartWalk, Candidates
  <2>2. /\ StepsLeft = fileSize + 8 * Unhashed + Candidates + 4
        /\ StepsLeft' = fileSize + 8 * Unhashed + (Candidates - 2) + 3
    BY <1>1, <2>1 DEF StepsLeft, Unhashed
  <2> QED
    BY <1>1, <2>2
<1> QED
    BY <1>2, <1>3, <1>4

\* The bytes that are hashed again lie before the first reusable point, which no
\* append overwrites.
LEMMA RecomputeCounts ==
    ASSUME IInv, HorizonInv, StartsBefore, StartRecompute \/ RecomputeByte
    PROVE  StepsLeft' < StepsLeft
<1>1. CASE StartRecompute
  <2> DEFINE c == frontier.candidateOffsets
             s == frontier.scannedOffset
             first == MinSize + SelectedOffset
             points == Append(c, s)
             reusable == ReusablePoints(points, first)
             r == Min(reusable)
  <2>1. /\ pc = "forced" /\ pc' = "recompute" /\ SelectedOffset < MinSize
        /\ reusable # {} /\ points[r] > first
        /\ rebase'.points = [k \in 1 .. Len(points) |->
                                IF k < r THEN points[k] ELSE points[k] - first]
        /\ rebase'.reusable = r
        /\ rebase'.recomputed.scannedOffset = 0
    BY <1>1 DEF StartRecompute, NewFrontier
  <2>2. /\ first \in MinSize .. (2 * MinSize - 1)
        /\ Len(points) = Len(c) + 1 /\ r \in 2 .. Len(c)
        /\ \A k \in 1 .. Len(c) : points[k] = c[k]
    BY <2>1, ReusableFacts
  <2>3. /\ Len(c) \in Nat /\ s \in Nat /\ Last(c) \in Nat /\ Last(c) <= s
        /\ MinSize \in Nat /\ fileSize \in Nat /\ origin \in Nat
        /\ origin + s + 2 * MinSize <= fileSize
    BY <2>1, PlanFacts
  <2>4. \A k \in 1 .. Len(c) : c[k] \in Nat /\ c[k] <= Last(c)
    BY <2>1, CandidateFacts
  <2> DEFINE n == Len(c)
             l == Last(c)
             b == rebase'.points[r]
  <2>5. b = c[r] - first
    <3> HIDE DEF c, s, first, points, reusable, r
    <3>1. r \in 1 .. Len(points) /\ ~ (r < r) /\ r \in 1 .. Len(c)
      BY <2>2, <2>3
    <3> QED
      BY <2>1, <2>2, <3>1
  <2>6. c[r] \in Nat /\ c[r] <= l
    <3> HIDE DEF c, s, first, points, reusable, r
    <3> QED
      BY <2>2, <2>3, <2>4
  <2>7. StepsLeft' = b - 0
    BY <2>1 DEF StepsLeft
  <2>8. StepsLeft = fileSize + 8 * Unhashed + walk.next + 3
    BY <2>1 DEF StepsLeft
  <2>9. Unhashed \in Nat /\ walk.next \in Int /\ walk.next >= -1
    BY <2>1, CountedFacts, CountedTypes DEF StartsBefore
  <2> HIDE DEF c, s, first, points, reusable, r, l, b, n
  <2> QED
    BY <2>2, <2>3, <2>5, <2>6, <2>7, <2>8, <2>9 DEF l
<1>2. CASE RecomputeByte
  <2> DEFINE n == Len(frontier.candidateOffsets)
             r == rebase.reusable
             old == rebase.recomputed
             i == pos + rebase.first + MinSize + old.scannedOffset
             new == ScanByte(old, i)
             m == Len(new.candidateOffsets)
  <2>1. /\ pc = "recompute" /\ pc' = "recompute"
        /\ rebase'.recomputed = new /\ rebase'.reusable = r
        /\ \/ rebase'.points = rebase.points
           \/ /\ m <= r - 1
              /\ rebase'.points = [rebase.points EXCEPT ![m] = Last(new.candidateOffsets)]
    <3>1. rebase \in [points : Seq(Nat), reusable : Nat, first : Nat, recomputed : Frontier]
      BY DEF IInv, TypeOK
    <3> QED
      BY <1>2, <3>1 DEF RecomputeByte, RecomputeCapacity
  <2>2. new.scannedOffset = old.scannedOffset + 1
    BY DEF ScanByte
  <2>3. /\ n \in Nat /\ r \in 2 .. n /\ rebase.points \in Seq(Nat) /\ old.scannedOffset \in Nat
        /\ Len(rebase.points) = n + 1 /\ old \in Frontier
    BY <2>1, RecomputeFacts, PlanFacts
  <2>4. m \in Nat
    <3>1. /\ old.candidateOffsets \in Seq(Nat) /\ old.scannedOffset + 1 \in Nat
      BY <2>3, FrontierTypes
    <3>2. new.candidateOffsets \in {old.candidateOffsets,
                                    Append(old.candidateOffsets, old.scannedOffset + 1)}
      BY DEF ScanByte
    <3>3. new.candidateOffsets \in Seq(Nat)
      <4> DEFINE c == old.candidateOffsets
                 o == old.scannedOffset + 1
                 d == new.candidateOffsets
      <4>1. Append(c, o) \in Seq(Nat)
        BY <3>1
      <4>2. d = c \/ d = Append(c, o)
        BY <3>2
      <4> HIDE DEF c, o, d
      <4> QED
        BY <3>1, <4>1, <4>2 DEF c, d
    <3> QED
      BY <3>3, LenProperties
  <2> HIDE DEF n, r, old, new, m
  <2>5. rebase'.points[r] = rebase.points[r]
    BY <2>1, <2>3, <2>4
  <2>6. rebase.points[r] \in Nat
    BY <2>3, ElementOfSeq
  <2>7. /\ StepsLeft = rebase.points[r] - old.scannedOffset
        /\ StepsLeft' = rebase.points[r] - (old.scannedOffset + 1)
    BY <2>1, <2>2, <2>5 DEF StepsLeft, r, old
  <2> QED
    BY <2>3, <2>6, <2>7
<1> QED
    BY <1>1, <1>2

\* Every step of a call leaves fewer, the one that ends it none.
LEMMA ReaderStepCounts ==
    ASSUME IInv, IInv', HorizonInv, HorizonInv', StartsBefore, Next, pc # "idle"
    PROVE  StepsLeft' < StepsLeft
<1>1. StepsLeft \in Nat /\ StepsLeft > 0
    BY ReaderCanGoOn
<1>2. CASE pc' = "idle"
  <2>1. StepsLeft' = 0
    BY <1>2 DEF StepsLeft
  <2> QED
    BY <1>1, <2>1
<1>3. CASE StartPlan
    BY <1>3, PlanCounts
<1>4. CASE StartRegion \/ HashByte \/ EndRegion
    BY <1>4, ScanCounts
<1>5. CASE WalkBack \/ FinishStable \/ StartForced
    BY <1>5, WalkCounts
<1>6. CASE StartRecompute \/ RecomputeByte
    BY <1>6, RecomputeCounts
<1> QED
    BY <1>2, <1>3, <1>4, <1>5, <1>6
    DEF Next, ReaderStep, DiscardPrevious, DiscardFails, PeekFails, ReturnReadyChunk,
        ReturnEndOfFile, ReturnTail, ReturnCompletedChunk, RebaseFrontier, FinishRecompute,
        ReturnForcedChunk, ReturnChunk, ReturnError

\* The invariants that the counting rests on.
LEMMA CountingInvariance == Spec => [](IInv /\ HorizonInv /\ StartsBefore)
<1>1. Init => HorizonInv /\ StartsBefore
    BY InitDelivers DEF Init, StartsBefore
<1>2. IInv /\ IInv' /\ HorizonInv /\ [Next]_vars => HorizonInv'
    BY NextHorizonInv
<1>3. IInv /\ StartsBefore /\ [Next]_vars => StartsBefore'
    BY NextStartsBefore
<1> QED
    BY <1>1, <1>2, <1>3, Invariance, PTL DEF Spec

\* Every step of ReadNextChunk, whichever of its loops takes it, brings the end of
\* the call nearer: no loop goes round without hashing a byte or passing over a
\* candidate, and what is recomputed is not recomputed again.
THEOREM ReaderStepsCount == Spec => [][pc # "idle" => StepsLeft' < StepsLeft]_vars
<1> DEFINE I == IInv /\ HorizonInv /\ StartsBefore
<1>1. I /\ I' /\ [Next]_vars => [pc # "idle" => StepsLeft' < StepsLeft]_vars
    BY ReaderStepCounts
<1>2. Spec => []I
    BY CountingInvariance
<1> QED
    BY <1>1, <1>2, PTL DEF Spec

\* A call is never stuck, and the steps and the calls that are left are numbers.
ReaderGoesOn == /\ StepsLeft \in Nat /\ CallsLeft \in Nat
                /\ pc # "idle" => CanGoOn

\* ReadNextChunk is never stuck: while it runs, one of its steps can be taken, and
\* the number of steps that it can still take is finite, as that of the calls is.
THEOREM ReaderNeverStuck == Spec => []ReaderGoesOn
<1>1. IInv /\ HorizonInv /\ StartsBefore => ReaderGoesOn
  <2>1. IInv => CallsLeft \in Nat
    BY MaxFaultsAssumption DEF IInv, TypeOK, AlwaysInv, CallsLeft
  <2> QED
    BY <2>1, ReaderCanGoOn DEF ReaderGoesOn
<1> QED
    BY <1>1, CountingInvariance, PTL

\* What a step does to the calls that are left.
CallsCount == /\ CallsLeft' <= CallsLeft
              /\ pc' = "idle" => CallsLeft' < CallsLeft \/ result' = "eof"

\* A call that ends returns bytes, or used up one of the errors of the Peeker, or
\* is at the end of the file.
LEMMA ReaderCallCounts ==
    ASSUME IInv, Next
    PROVE  CallsCount
<1>0. fileSize' = fileSize
  <2>1. UNCHANGED file
    BY DEF Next, ReaderStep, DiscardPrevious, DiscardFails, PeekFails, ReturnReadyChunk,
       ReturnEndOfFile, ReturnTail, StartPlan, StartRegion, HashByte, EndRegion, WalkBack,
       FinishStable, ReturnCompletedChunk, StartForced, RebaseFrontier, StartRecompute,
       RecomputeByte, FinishRecompute
  <2> QED
    BY <2>1 DEF file
<1>1. /\ fileSize \in Nat /\ fileSize' = fileSize /\ handedOut \in Nat
      /\ faults \in Nat /\ MaxFaults \in Nat /\ MinSize \in Nat /\ MinSize > 0
    BY <1>0, MinSizeAssumption, MaxFaultsAssumption DEF IInv, TypeOK
<1>2. ASSUME NEW size \in Nat \ {0}, handedOut' = handedOut + size, faults' = faults
      PROVE  CallsCount
    BY <1>1, <1>2 DEF CallsCount, CallsLeft
<1>3. CASE DiscardFails \/ PeekFails
  <2>1. faults' = faults + 1 /\ handedOut' = handedOut
    BY <1>3 DEF DiscardFails, PeekFails, ReturnError, history
  <2> QED
    BY <1>1, <2>1 DEF CallsCount, CallsLeft
<1>4. CASE ReturnReadyChunk
  <2>1. /\ pc = "peek" /\ readyChunkSizes # <<>> /\ readyChunkSizes \in Seq(ChunkPlan)
        /\ EndBy(readyChunkSizes, origin) /\ faults' = faults
        /\ handedOut' = handedOut + Last(readyChunkSizes).size
    BY <1>4 DEF ReturnReadyChunk, ReturnChunk, IInv, TypeOK, QueueInv, peeker
  <2>2. Len(readyChunkSizes) \in 1 .. Len(readyChunkSizes)
    BY <2>1, PlannedChunks
  <2>3. Last(readyChunkSizes).size \in MinSize .. (2 * MinSize - 1)
    BY <2>1, <2>2 DEF EndBy, Last
  <2>4. Last(readyChunkSizes).size \in Nat \ {0}
    BY <1>1, <2>3
  <2> QED
    BY <1>2, <2>1, <2>4
<1>5. CASE ReturnCompletedChunk
  <2>1. /\ pc = "scan" /\ completedChunkSizes # <<>> /\ completedChunkSizes \in Seq(ChunkPlan)
        /\ EndBy(completedChunkSizes, origin) /\ faults' = faults
        /\ handedOut' = handedOut + completedChunkSizes[1].size
    BY <1>5 DEF ReturnCompletedChunk, ReturnChunk, IInv, TypeOK, PlanInv, peeker
  <2>2. 1 \in 1 .. Len(completedChunkSizes)
    BY <2>1, PlannedChunks
  <2>3. completedChunkSizes[1].size \in MinSize .. (2 * MinSize - 1)
    BY <2>1, <2>2 DEF EndBy
  <2>4. completedChunkSizes[1].size \in Nat \ {0}
    BY <1>1, <2>3
  <2> QED
    BY <1>2, <2>1, <2>4
<1>6. CASE ReturnTail
  <2>1. /\ Available(fileSize, pos) \in 1 .. (2 * MinSize - 1) /\ faults' = faults
        /\ handedOut' = handedOut + Available(fileSize, pos)
    BY <1>6 DEF ReturnTail, ReturnChunk, peeker
  <2> QED
    BY <1>1, <1>2, <2>1
<1>7. CASE RebaseFrontier
  <2>1. /\ pc = "forced" /\ SelectedOffset < MinSize /\ faults' = faults
        /\ handedOut' = handedOut + (MinSize + SelectedOffset)
    BY <1>7 DEF RebaseFrontier, ReturnForcedChunk, ReturnChunk, peeker
  <2>2. MinSize + SelectedOffset \in MinSize .. (2 * MinSize - 1)
    BY <2>1, ReusableFacts
  <2> QED
    BY <1>1, <1>2, <2>1, <2>2
<1>8. CASE FinishRecompute
  <2>1. pc = "recompute" /\ handedOut' = handedOut + rebase.first /\ faults' = faults
    BY <1>8 DEF FinishRecompute, ReturnForcedChunk, ReturnChunk, peeker
  <2>2. rebase.first \in MinSize .. (2 * MinSize - 1)
    BY <2>1, RecomputeFacts
  <2> QED
    BY <1>1, <1>2, <2>1, <2>2
<1>9. ASSUME UNCHANGED <<fileSize, handedOut, faults>>, pc' # "idle" \/ result' = "eof"
      PROVE  CallsCount
    BY <1>1, <1>9 DEF CallsCount, CallsLeft
<1>10. CASE ReturnEndOfFile
    BY <1>9, <1>10 DEF ReturnEndOfFile, file, peeker, history
<1>11. CASE \/ DiscardPrevious \/ StartPlan \/ StartRegion \/ HashByte \/ EndRegion \/ WalkBack
            \/ FinishStable \/ StartForced \/ StartRecompute \/ RecomputeByte
  <2>1. pc' # "idle"
    BY <1>11
    DEF DiscardPrevious, StartPlan, StartRegion, HashByte, EndRegion, WalkBack, FinishStable,
        StartForced, StartRecompute, RecomputeByte
  <2>2. UNCHANGED <<fileSize, handedOut, faults>>
    BY <1>11
    DEF DiscardPrevious, StartPlan, StartRegion, HashByte, EndRegion, WalkBack, FinishStable,
        StartForced, StartRecompute, RecomputeByte, file, peeker, history
  <2> QED
    BY <1>9, <2>1, <2>2
<1> QED
    BY <1>3, <1>4, <1>5, <1>6, <1>7, <1>8, <1>10, <1>11 DEF Next, ReaderStep

\* There are only so many calls: each one that ends otherwise than with io.EOF
\* leaves fewer, a Discard or a Peek that fails included, and no step leaves more.
\* No call hands out an empty chunk.
THEOREM ReaderCallsCount == Spec => [][CallsCount]_vars
<1>1. IInv /\ [Next]_vars => [CallsCount]_vars
    BY ReaderCallCounts
<1> QED
    BY <1>1, Invariance, PTL DEF Spec

=============================================================================
