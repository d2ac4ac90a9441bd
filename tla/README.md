# A verification of go-cdc

go-cdc is a library of content-defined chunkers: functions that cut a byte
stream into chunks at positions that depend on the bytes around them. This
directory holds a TLA+ model of the library's chunk readers, of the hashes they
use and of the simulation tool beside them, TLC configurations that check it on
small instances, and proofs that TLAPS checks for every value of the
parameters.

Read `ChunkStream` first, then `RepMaxRule` and `RepMaxReader`.

## Inventory of the system

A caller owns a `Peeker` (in practice a `bufio.Reader`) and asks a
`ContentDefinedChunker` for a `ChunkReader` over it. Each call of
`ReadNextChunk` first discards the chunk the previous call handed out (a slice
of the Peeker's own buffer), then peeks at a bounded number of bytes, decides
where the next chunk ends and returns it. A call ends with a chunk, with
`io.EOF`, or with the Peeker's error. The library has no goroutine, lock or
channel: what is hard there is the state that survives from one call to the
next, errors between its updates, the arithmetic that relates offsets with
different origins, and that several implementations of one thing must agree.
Concurrency is in what uses the library: callers that chunk the pieces of a
file in parallel, and `cmd/simulate_maxcdc`.

| Component | State | Operations | What makes it correct |
|---|---|---|---|
| RepMaxCDC reader, `rep_max_chunk_reader.go` | size to discard, queue of ready chunks, frontier (record maxima, cursor, two hashes) | `ReadNextChunk`: plan, scan, stable batch, forced cut, rebase, recompute | the chunks are those of the simple algorithm; no byte lost or repeated; the frontier is what its comment says |
| RepMaxCDC rule, `simple_rep_max_content_defined_chunker.go` | size to discard | the search from scratch | reference for the reader above |
| RepMax hashes: gear, polynomial, lexicographic, SIMD scanners | hashes of the frontier; per scan: block, lanes, buffer of candidates | initial hash, roll, scan | a rolled hash is the hash of its window; scanners agree, whatever their blocks |
| Streaming hash, `repMaxStreamingHash` and `polynomialRollingHash` | hash, ring of the window | add a byte, scan data | the hash is that of the last bytes; the scan stops at the right byte |
| Guaranteed chunk search, `rep_max_content_defined_chunker.go` | streaming hash, maxima of two regions, rest of a region | `DiscardUpToGuaranteedChunk` | it stops only at a boundary of every reader of a longer stream; every call returns |
| Chunking in parallel (a use the documentation describes) | positions of searches and readers | search, split, chunk each piece | the chunks are those of the whole file |
| MaxCDC reader, `max_content_defined_chunker.go` | stack of chunks with their hashes, scan cursor | `ReadNextChunk` | same chunks as the simple algorithm; no byte hashed twice; bounded stack |
| MaxCDC rule, `simple_max_content_defined_chunker.go` | size to discard | the search from scratch | reference for the reader above |
| Finite blocks, `hashless_chunk_reader.go` | size to discard, copy of a long chunk | begin, peek, consume, finish | blocks join without a gap |
| AE-Max and wide AE, `*asymmetric_extremum*.go` | per call: maximum, candidate, block offset | `ReadNextChunk` | chunks follow the rule however the blocks fall |
| RAM and RAML, `ram_content_defined_chunker.go` | per call: maximum, block offset | `ReadNextChunk` | the same |
| FastCDC, `fast_content_defined_chunker.go` | size to discard; per call: hash, region, block | `ReadNextChunk` | unrolled hash is the hash; chunks follow the rule |
| SeqCDC, `seq_content_defined_chunker.go` | size to discard; per call: position, two counters | `ReadNextChunk` | chunks follow the rule, skips included; sizes are bounded |
| `cmd/simulate_maxcdc` | semaphore, goroutines, files of samples | dispatch, reload, write, rename | no sample lost or counted twice; every size is simulated |
| other commands | none | loops over `ReadNextChunk` | not modelled |

Behaviours that are hard to test, each at its line, are the `hazards` of
`PROJECT.json`. Most of them are of four kinds: an error after part of an
update (a `Discard` that discards some bytes, an error between blocks, a process
that ends between a write and a rename); state of an earlier call read after
the stream moved (frontier, stack, queue, ring, candidate in another block);
boundaries where one byte decides (stability point, region ends, the last block
of a vector, the smallest supported horizon, a limit inside a block, a skip past
the end); and arithmetic that wraps or keeps half of its result.

## Modules

| Module | Models |
|---|---|
| `ChunkStream` | the contract of a `ChunkReader`, as an abstract specification |
| `RepMaxRule` | the RepMaxCDC cutting rule as a function of the scores |
| `RepMaxReader` | the optimised RepMaxCDC reader; implements `ChunkStream` under `RepMaxRule` |
| `RepMaxHash`, on `GearHash` | the three RepMax hashes: rolled, computed, and described without a loop |
| `HashScan` | `scanHorizon` with the arithmetic of all five scanners |
| `StreamingHash` | the hash of the search for a guaranteed boundary |
| `RepMaxHashes` | the two modules above together |
| `RepMaxSync` | `DiscardUpToGuaranteedChunk`; uses an instance of `RepMaxRule` for the boundaries |
| `ParallelChunking` | searches and readers of the pieces they find, composed |
| `MaxRule`, `MaxReader` | the MaxCDC rule, and its reader with the stack; implements `ChunkStream` |
| `FinitePeek` | the blocks of the hashless readers, extended by the two modules below |
| `AEReader` | AE-Max (a region of one byte) and wide AE |
| `RAMReader` | RAM and RAML |
| `BlockReaders` | the two modules above together |
| `SinglePeek` | the one peek of a call, extended by the two modules below |
| `SeqReader` | SeqCDC; implements `ChunkStream` under its rule |
| `FastReader`, on `GearHash` | FastCDC; implements `ChunkStream` under its rule |
| `PeekReaders` | the two modules above together |
| `SimulateStats` | the tool `simulate_maxcdc` |
| `..._proofs` | proofs about the module of that name |
| `MC...` | sets of files and constants for TLC |

`BlockReaders` (AE and RAM), `PeekReaders` (SeqCDC and FastCDC) and
`RepMaxHashes` (scanners and streaming hash) join two components that share
their base: one of them is `EXTEND`ed and the other is an instance, and the
behavior chooses at its start which one it is about. Runs and theorems are about
these joint specifications.

### How the models correspond to the code

*Data.* The RepMaxCDC and MaxCDC readers see the content of a file only through
the order of the hash values at its cutting points. A file is therefore its
size and a `score` for each cutting point, and a hash value is represented by
the cutting point whose window it is the hash of. Rolling a hash over the byte
after its window gives the next point; rolling it over any other byte gives
`NoHash`. A wrong window is thus a wrong position, whichever hash is in use,
and equal hashes at different points are equal scores. That this is what the
hashes do is shown by `HashScan`, `StreamingHash` and `FastReader`, where a file
is its bytes and integers have `Width` bits. AE, RAM and SeqCDC compare bytes,
so there too a file is its bytes.

*Steps.* A call is split at its loops. `pc` says where it stands: `idle` between
calls, `peek` once the previous chunk is discarded, then the loops. Locals that
live across those points (`hashEnd`, `region`, `walk`, `rebase`, ...) are
variables. A reader's fields keep their names. Slices are sequences, with
indices one higher; where slices share an array (`recomputeFrontierPrefix`) the
capacity and the writes through the shared array are modelled. Unrolled and
vector loops are taken byte by byte, with the block, its lanes and what the
loop keeps of it as state, because where a block ends is what can be wrong.

*Peeker.* `pos` is the number of bytes discarded. `Peek(n)` returns n bytes, or
fewer with EOF at the end of the file. `Discard` and `Peek` may fail at any
call, up to `MaxFaults` times; a `Discard` that fails has discarded any smaller
number of bytes. A caller may call again after an error, which the code
provides for by subtracting what was discarded.

*Histories.* `handedOut`, `origin` (where the frontier's next chunk begins),
`begin`, `fed` and `called` are not in the code; they say which bytes of the
file the code's relative numbers stand for. `end` in a planned chunk of
`RepMaxReader`, and `finished`, `overlapped` and `forgotten` in `SimulateStats`,
are of the same kind. No guard reads them.

`RepMaxSync`: `hashed` is the point up to which the streaming hash has been fed.
Until `Window` bytes of the stream are hashed, its value is that of a shorter
window, which may be anything and is chosen anew. The initial maxima are
`^uint64(0)`; `MaxHash` is that value, and a real score may equal it. The stream
starts at any position of a file, with bytes before it that the search does not
see; the boundaries it is compared with are those of a reader that started at
the beginning.

`ParallelChunking` takes a search as what the runs and proofs of `RepMaxSync` say
of it (it may stop at any point that stands out in what it has seen, or at the
end of the file), and a reader as `RepMaxRule`, which `RepMaxReader` implements.
`Truncate` chooses between readers whose streams go on past their pieces and
streams that end with them.

`HashScan`: `name` and `window` of a scanner choose among the code's
implementations. Multiplications that vectors do in halves of an integer are
taken apart as the code does. The amd64 core loads `LoadSize` bytes for a block
of `ArchLanes` and keeps its candidates in a buffer of `BufferSize`. A
lexicographic hash is the first `PrefixSize` bytes of a window, which fill an
integer exactly as eight bytes fill 64 bits.

`SimulateStats`: the contents of a file of samples are the number of simulations
it holds the samples of. Files have inodes, because a rename takes the inode
away from a goroutine that still has it open. The simulation itself, a loop over
the tool's own buffer of random hashes (`cmd/simulate_maxcdc/main.go:46-66`), which
uses no reader, adds one.

## Runs

| Run | Instance | Shows |
|---|---|---|
| `rep_max_reader` | MinSize 2, Horizon 8, files of 1 to 3, 10 and 11 bytes with three scores and of 14 and 15 with two, files of 14 with five and seven rising scores, one Peeker error | safety of the reader, and that it implements `ChunkStream` |
| `rep_max_walks` | MinSize 5, Horizon 10, files of 20 and 24 bytes with long lists of candidates and forced cuts | walks skip the candidates that are too close, lists stay within their capacities, the recomputed frontier is exact |
| `rep_max_live` | MinSize 2, Horizon 3, files of up to 9 bytes with two scores and with three for the longest, two errors | every call returns, empty regions included; `io.EOF` is reached |
| `rep_max_hashes` | 4-bit integers, 1-bit bytes, 16-byte files, all scanners; streams of 7 bytes and a ring of 5 | scanners agree and their hashes are right; the streaming hash and its scan are exact |
| `rep_max_sync` | MinSize 3, window 2, Horizons 3 to 5, 10-byte files, every start, one error | found positions are boundaries; every search ends |
| `parallel_chunking` | MinSize 2, 9- and 11-byte files, two searches | readers of the pieces read the chunks of the file |
| `parallel_pieces` | one file of 9 bytes | a disagreement, below |
| `max_reader` | MinSize 2, MaxSize 7, files of up to 11 bytes with three scores, one error | the stack is exact and bounded; implements `ChunkStream` |
| `block_readers` | AE: window 2, blocks of 4, regions of 1 and 2 bytes, files of up to 8 bytes of three values. RAM: window 2, blocks of 3, limits 0 and 8, files of up to 10 bytes of two values. One error | chunks follow the rules over up to four blocks |
| `dropped_bytes` | the same | a disagreement, below |
| `peek_readers` | SeqCDC: chunks of 4 to 9 bytes, files of up to 10. FastCDC: chunks of 2 to 32 bytes, blocks of 3, files of up to 35. One error | both implement `ChunkStream`; the unrolled hash is the hash |
| `simulate_stats` | two sizes, two processors, four goroutines a process, one interruption, one restart, one failing read | no simulation is lost where one goroutine works on a size, and none is ever counted twice; every size is simulated |

Why the bounds are enough. A ready queue has an order when a call finalises three
chunks or more. With three scores these are of two batches or more; a single batch
of three needs five rising scores, one of four seven, and the points that make the
last of them stable, within one horizon. MinSize 2 and Horizon 8 leave room for
that, and `RisingFiles` have the scores. A region is empty when a plan ended, for
want of data, exactly where the last candidate becomes stable, and its forced cut
left that candidate to the next plan; `rep_max_live` reaches it with Horizon 3.
A peek is then 12 bytes: files of 10 and 11 bytes are seen whole by the first
one, those of 14 and 15 are longer than it sees; the small ones end in the tail
without a search. Scores make ties, rising and falling runs. With MinSize 2 two
candidates are too close only when they are adjacent, and leaving one out is
then always right; `rep_max_walks` has a larger MinSize and four scores, where a
walk must measure the distance to the chunk after the candidate. A prefix is
recomputed only when a candidate was forgotten between two others, and more
candidates than its capacity holds need a gap of several points, which a MinSize
below 5 does not leave; the files of `rep_max_walks` fix the scores that force
the cut and leave the others free. In `rep_max_sync` regions have two points, so
that a region has a trailing and a leading portion, the window is shorter than
MinSize, and the horizons lie on both sides of the smallest supported one; with
files of 9 bytes a horizon one too short does no harm, hence 10. `MaxSize` 7
holds a stack of three chunks and a cursor. Files of the block readers span
three blocks and more, so that a candidate can lie two blocks back and the limit
of RAML falls inside a block and at its end. FastCDC's patterns begin around the
normal and the largest size, so that both masks, the region between them and a
tail after the last block decide. In `rep_max_hashes` an integer of 4 bits wraps
and splits in halves and quarters as 64 bits do, and windows are shorter than,
as long as and longer than a prefix; regions have blocks that are loaded and
ones that are not, and rising scores overflow the buffer of two. `simulate_stats`
has as many processors as sizes, so that goroutines of both sizes interleave,
and of one size overlap across rounds.

`CHECK_DEADLOCK FALSE` appears where the system really stops: `rep_max_sync`,
where a chunker with too small a horizon may not be called at all;
`rep_max_hashes`, where the reader's last call and the stream's last byte have no
successor; the parallel runs, which end when all pieces are chunked; and
`simulate_stats`, whose processes stop at `MaxDispatched`.

*Fairness.* `WF_vars(Next)` in `RepMaxReader` and `RepMaxSync`: a call is
sequential code that does not block, and the caller calls again.
`RepMaxHashes` assumes it of a scan's own steps only, not of the caller's next
call. `SimulateStats` assumes it of the loop that dispatches, of each goroutine
(Go schedules every one, and a simulation ends), and of the user who starts the
tool again; never of a failure. Nothing else is assumed; errors are bounded by
`MaxFaults` and the like, not by fairness, and which of several steps is taken is
never assumed.

### Two disagreements

`dropped_bytes` shows that the hashless readers do not return "the contents of
a file as a sequence of chunks" (`content_defined_chunker.go:13`) once an error
arrives in a call that consumed a block: the bytes in `ownedChunk` were
discarded from the Peeker, and `beginRead` of the next call forgets them
(`hashless_chunk_reader.go:38`). A caller that retries, as every reader's
handling of a partial `Discard` allows, gets a stream with a gap and no sign of
it. `BlocksAreAligned` and `ChunksFollowRule`, which hold, say that this is the
only way: without a fault nothing is lost, and what follows a gap is cut as the
rule cuts a stream that begins there.

`parallel_pieces` shows what "chunking to be performed in parallel"
(`content_defined_chunker.go:29`) needs. A piece that is given to a reader as a
stream of its own ends at the boundary, and a reader keeps its last chunks
`minSizeBytes` away from the end of its stream, so the chunks before the boundary
may differ from those of the whole file. `parallel_chunking` shows that readers
whose streams go on past their pieces, and stop where the next one started, do
give the chunks of the file.

`AloneIsExact`, the first half of `CountsAreExact`, leaves out two kinds of sizes,
because for them `simulate_maxcdc` does lose samples: those that two goroutines
worked on at once (rounds are not waited for, `cmd/simulate_maxcdc/main.go:84`), and,
for their counts, those for which a read failed (`:70`). No document promises
otherwise, so these are `hazards` and not findings. `NoneIsCountedTwice`, the second
half, leaves out none: whatever overlaps or fails, samples can be missing from a
file, but none are in it twice.

## Proofs

The eight `_proofs` modules prove their theorems for every value of the
constants, from the assumptions the component's module names: sizes, windows and
numbers of errors are natural numbers in the order the constructors enforce, and
files have scores or bytes at the points the readers look at. `RAMReader` and
`FastReader` state their assumptions, `RAMAssumption` and `FastAssumption`, as
definitions, since they are used as instances; `BlockReaders` and `PeekReaders`
assume them (`RAMConstants`, `FastConstants`), and TLC evaluates them there.
Every proof has the same layout: parts of the inductive invariant `IInv`, facts
about data that hold in any state, one lemma per action, `NextIInv`, and then the
theorems.

### The RepMaxCDC reader

`RepMaxReader_proofs` proves

* `TypeCorrect`: `Spec => []TypeOK`;
* `NothingLostCorrect`: what was discarded, what is still to be discarded, the
  queued chunks and the frontier join without a gap (`NothingLost`);
* `FrontierExact`, `FrontierTight`: the frontier is what the comment on
  `repMaxFrontier` says, and its entries are close (`FrontierIsExact`,
  `FrontierIsTight`);
* `IndicesCorrect`: no walk leaves the list of candidates (`IndicesInRange`);
* `ChunksBounded`: every chunk has MinSize to 2*MinSize - 1 bytes, or is the
  whole of a shorter file (`ChunksAreBounded`);
* `ScanIsForward`: no byte is hashed twice by the scan (`ScanNeverGoesBack`);
* `PlansBounded`: planned chunks have legal sizes, and are no more than the
  capacity, a hint, that `NewChunkReader` reserves (`PlansAreBounded`);
* `Implements`: `Spec => RefinesChunkStream`, the reader hands out the chunks of
  the simple reader's rule.

The inductive invariant `IInv` has one part per place the reader can be in,
because what makes the next step right is known only there:

* `AlwaysInv`, `QueueInv`, `PlanInv`: a frontier fits the chunk that begins at
  `origin` (`FrontierFits`), the queue or the completed chunks lead there, and
  `hashEnd` is the frontier's cursor. Without candidates the cursor is at the
  origin, because `planChunks` does not put it there (`StartsAtOrigin`). The
  properties speak of neighbouring
  candidates; `Increasing` speaks of any two, which no induction over the list
  has to supply then.
* `RegionInv`: a region ends no later than where the last candidate becomes
  stable. Without it the cursor could move MinSize beyond the last candidate.
* `WalkInv`: what a walk has passed over is less than MinSize before the
  selected candidate, so the candidate it takes leaves a chunk of less than
  2*MinSize bytes; the selected candidate is the last or MinSize before it, so
  that a rebase never takes the cursor for a candidate.
* `RecomputeInv`: the recomputation stays before the first reusable point, and
  the points it shares an array with are not overwritten.

`FinishRecomputeIInv` holds the main argument. The candidates found anew are
records up to the first reusable point; that point's score exceeded the last
candidate that did not survive, which in turn no point between them exceeded;
so it exceeds them all, and the joined list is again the list of records
(`JoinedFits`), seen from the next chunk (`ShiftedFits`). `ChunksBounded` needs
one more fact, `RestInv`: after the origin there is nothing, or at least
MinSize bytes, or the whole file.

`Implements` needs two invariants more. `HorizonInv`: a plan searches all but
MinSize of the bytes a simple reader would peek at, and a frontier kept for the
next plan does not reach beyond those. `RuleInv`: every chunk that waits in a
queue, in a plan or in a batch has the size the rule gives at its position
(`ObeysRule`), and the search of the rule `Reaches` the candidate a walk has
selected. A walk is then the rounds of the search, taken from their end: a
candidate the walk takes is the best point far enough before the selected one,
which is where the search goes next. A stable candidate is reached from
whatever position the chunks before it lead to, because nothing less than
MinSize after it exceeds it (`PassesThrough`, below); the candidate of a forced
cut because the frontier's cursor then stands at the end of what the search
sees. `ScanIsForward` rests on `DroppedIsPassed`: a forced cut drops the frontier only
when its chunk ends at the cursor or beyond. `PlansBounded` needs
`BatchInv`; the chunks of a plan have at least MinSize bytes each, so their number
is at most the distance they cover divided by MinSize (`Multiples`).

### The rule of RepMaxCDC

`RepMaxRule_proofs` is about data only. The rule and the list of its boundaries
are recursive functions, and every proof about a recursion here is one by a least
counterexample (`LeastMember`), which needs no induction rule with an operator in
it. Its theorems are `PassesThrough` (a point that stands out in a search decides it,
whatever lies beyond), `RuleSizesAreLegal` (chunks have MinSize to
2*MinSize - 1 bytes wherever two fit) and `ChunkRespectsPeak`: with a horizon of
at least 2*(MinSize - 1), no chunk passes over a peak, a point that exceeds the
MinSize - 1 points before it and is not exceeded by the MinSize - 1 after it, or
ends too close before it. Either the reader sees the peak, and then the search
reaches it or stops far enough before it; or it does not, and then a chunk of
less than 2*MinSize bytes ends far enough before it. The bound on the horizon is
the one `DiscardUpToGuaranteedChunk` demands. `PeakIsBoundary` follows: a peak is
one of the `Boundaries` of every stream that a reader began to chunk early enough.

### The search for a guaranteed boundary

`RepMaxSync_proofs` proves

* `TypeCorrect`: `Spec => []TypeOK`;
* `AlignmentCorrect`: the streaming hash leaves no gap and no index leaves the
  data that was peeked (`HashIsAligned`);
* `LocalMaximumCorrect`: where the search stops the score is larger than at
  each of the MinSize - 1 points before and not smaller than at those after,
  all of them seen through whole windows (`FoundIsLocalMaximum`);
* `BoundaryCorrect`: that point is a boundary of the chunks of the whole file,
  whatever comes before the stream (`FoundIsBoundary`).

`FoundIsLocalMaximum` alone is not inductive: when the search stops, most of
the points it speaks of were discarded long before. `MaximaBound` carries what
the two maxima remember of them: each bounds the scores of its region as far as
it is scanned, and a maximum below the initial value is of a region all of
whose points had whole windows. `CandidateIsFirst` says that while the current
region's maximum exceeds that of the region before, the stream stands at the
first point that has it. `CandidateStandsOut` is what remains to be confirmed
in the leading portion. Each action has a lemma; an error ends the call and
leaves only the types and the alignment to show (`FailedIInv`).

`BoundaryCorrect` joins this with the rule: a local maximum is a peak, which no
chunk of a whole file passes over (`ChunkRespectsPeak`), and a point that no
chunk passes over or ends too close to is one at which some chunk ends
(`IsBoundary`, again by a least counterexample: the chunk that begins nearest to
the point and does not lead to it).

Two more theorems are about the use of the search in `ParallelChunking`.
`SearchIsAllowed` says that wherever `RepMaxSync` stops, the search that stands
for it there in one step may stop (`Guaranteed`). `PiecesOfWholeFileCorrect`
proves `ChunksAreOfWholeFile` of that module, for readers whose streams go on
past their pieces (`~ Truncate`; the other case is the disagreement above):
however the searches and the readers of the pieces interleave, every cut of a
piece is a cut of the whole file, and once all pieces are read all cuts of the
file were found. Its invariant, `PiecesInv`, says of each reader that it stands on
a cut of the file, that the next beginning of a piece is still to come or just
reached, and that what is left of its piece is what is left of the file's cuts
(`ReaderInv`); a reader cannot pass over the next beginning, since that is a peak
(`PeakIsBoundary`), and beginnings of pieces are MinSize apart (`PeaksAreApart`).

### The MaxCDC reader

`MaxReader_proofs` proves every property of the run `max_reader`, the refinement
included: `TypeCorrect`, `NothingLostCorrect`, `StackExact`, `StackFitsCorrect`,
`ScanIsForward`, and `Implements`, which is `Spec => RefinesChunkStream`.

A stack is treated as data first, whichever variables hold it. `Sound` of a
stack, a start and a cursor says that its entries are MinSize apart (`Spaced`),
that each is the leftmost best cutting point between the entry before and the
cursor (`Exact`), and that the scores fall along the stack (`Steep`), without
which a new byte that beats the last entry could not be compared with the
entries below it one after the other. Lemmas say what moving a stack with the
stream, dropping its first entry, collapsing it and pushing the cursor do to
`Sound`; the lemmas of the actions only have to find the stack again. Of `StackFits`,
`StackHasRoom` follows from `Spaced`, and `OffsetsInData` (`OffsetsAreInData`) from
`Spaced` and from `ScanInv`, which says that neither the cursor nor the rest of a
region leaves the data. For the refinement, `FirstChunkIsRule` and `TailIsRule`
show that the chunk a call returns is the rule's: the first entry of a sound
stack whose cursor is at the end of the data is the best cutting point of all.
`MaxRule` needs no recursion, so nothing has to be unfolded here.

### The hashless readers

`BlockReaders_proofs` proves every property of the run `block_readers`, for any
block size, window, region and limit: `ReadersTypeCorrect`,
`BlocksAreAlignedCorrect`, and `ChunksFollowRuleCorrect`, that every chunk of
AE, RAM and RAML ends where its rule says, over however many blocks. Blocks are
where a scan may be wrong and a rule knows nothing of them, so the invariants say
in absolute positions what the relative offsets of the code stand for:
`BlockIsOfFile` and `ScanIsAligned` (what was copied is what the offsets count).

For AE the rest of the invariant is that the candidate is a record of what was
scanned, with the maximum for its value (`CandidateIsRecord`), and that no
earlier record stood its window (`NoEarlierExtremum`). A value of the wide
variant is several bytes, which `LittleEndian` folds; that it is a natural number
for any number of bytes is a least-counterexample argument of its own. For RAM,
`WindowIsSeen` says that the maximum is that of the window, and `NoEndYet` that no
byte between the window and the scan ends the chunk. `ReadersInv` joins the two.

### SeqCDC and FastCDC

`PeekReaders_proofs` proves every property of the run `peek_readers`:
`NothingLostCorrect`, `HashIsContinuousCorrect`, `ChunksBounded`, the types
(`TypesCorrect`), and `Implements`, that either reader refines `ChunkStream` under
its rule.

*SeqCDC.* `SequenceIsRecent` says that an increasing sequence lies behind the
position byte by byte, so that no chunk ends before the minimum size. The rule
knows no scan: it divides the offsets into stretches, which end with a skip.
`RuleInv` says that the scan is in the stretch of the rule and has counted its
falls (`StretchIsCurrent`), that the increasing length is that of the longest
sequence behind it in this stretch (`SequenceIsLongest`), and that no sequence
before ends a chunk (`NoSequenceYet`). A step over a comparison is
`ComparisonRuleInv`; a skip, which moves many offsets to the next stretch at once,
`SkipRuleInv`. `FallenGrows` counts falls one comparison at a time.

*FastCDC.* `GearWindow` is a sum over the last `Width` bytes, modulo a power of
two. Its lemmas come first: division with a remainder, and with it that wrapping
early or late makes no difference (`WrapOfWrapped`, `WrapDrops`); that sums over a
window exist and unfold (`GearWindowUnfolds`); and `GearRolls`, that a byte more
turns the hash of a window into the hash of the next one, because the byte that
is `Width` bytes back is multiplied by the modulus. The reader's invariant says
that the hash of all bytes from the minimum size on is the hash before the
block, shifted, plus the block's own (`BlockIsHashed`), which is
`HashIsContinuous` of a block taken further, and that it has not matched yet
(`NoMatchYet`). `BlocksAreWhole` says that only whole blocks precede a block or a
tail, which needs the sizes to be multiples of a block; so a match in the tail,
which ends the chunk one byte earlier, is one in the bytes that the rule calls
the last ones.

### The streaming hash and the scanners

`RepMaxHashes_proofs` proves every safety property of the run `rep_max_hashes`,
for any width, Gear table, base, window, sizes of blocks and file. Its invariant
`HashesInv` is `SearchInv` or `ReaderInv`, by the user of the hashes. Of the hash
that `DiscardUpToGuaranteedChunk` streams its bytes through:

* `RingHoldsWindowCorrect`: before, during and after every scan the byte that a
  full ring overwrites is the one that leaves the window;
* `HashIsOfLastBytesCorrect`: the hash is that of the last bytes, however single
  bytes and scans follow each other;
* `ScanIsExactCorrect`: a scan stops behind the first byte whose hash exceeds its
  limit and the maximum it was given, and returns the maximum of the hashes it saw.

The invariant, `SearchInv`, is that of the ring (`RingInv`), the types, that the
running hash is that of the bytes so far, in the middle of a scan too
(`HashIsCurrent`), and what the scan has found of its data (`ScanInv`).

Most of the work is in the hashes themselves. Both are sums over a window modulo
2^Width, written without a loop in `RepMaxHash` and `GearHash`, and the code never
computes one: it adds a byte and takes one away. `Same` says that two integers
leave the same remainder, which sums and products respect (`SameAdds`,
`SameTimes`) and wrapping does not disturb (`WrapSame`), so that a proof can leave
out every wrap but the last. `Adds` describes a running sum of any terms; such sums
exist (`SumsExist`), agree (`SumsAgree`) and shift (`SumsShift`), and when all terms
are multiplied and one is added, so is the sum (`SumsRoll`). From these follow
`GearRolls`, `PolynomialFills` while the window is not full, and
`PolynomialRolls` once it is: the outgoing byte has been multiplied by the base as
often as the window is long, and `RemovalFactor` is that power (`BaseToGrows`).

Of the scanners of a reader:

* `ScannersAgreeCorrect`: the candidates of a frontier are the cuts whose whole
  window has a score above that of every earlier cut, whichever scanner found them;
* `FrontierHashesAreExactCorrect`: the hashes that a frontier carries over regions,
  calls and restarts are those of the windows they stand for;
* `HashesTypeCorrect`: in particular the amd64 core's buffer holds what it finds.

`ReaderInv` says where a region ends (`Regions`: never past the data, before its
end if the batch may become stable, so that `Restart` has a byte to roll in, and
less than the minimum size after the best cut); that a block that is begun fits,
the Gear scanner's in the region and the amd64 core's in the region and the buffer
(`Blocks`); that the running hash, or in a Gear block the hash before it with what
the block has added, is that of the window before the next byte (`Hashed`); and
that the candidates, with those that the core has not handed over, are the records
of the offsets scanned (`Recorded`). An offset more keeps that if it is appended
just when its score beats that of the last candidate (`FindsNext`), so one lemma
for all scanners, `FoundNext`, is left with a question for each: does its
comparison decide that?

* Gear and polynomial scanners compare hashes, and a hash is the score once it is
  exact. `InitialIsKey` is the first one (`initialHash` computes with a loop what
  `KeyOf` says without one), `KeyRolls` all others. `BlockHashSteps` takes a Gear
  block apart; `PortableRemovalIs` and `ArchRemovalIs` show that products of halves
  and quarters, where the lane of the high half drops what does not fit, are the
  product with the factor, and `RollVectorIs` that the vectors' step is the scalar
  one.
* The lexicographic scanner keeps a prefix. A window is a number with its bytes as
  digits (`NumberOf`), whose prefix is its high part (`NumberSplits`), so that the
  first byte, the prefix and then the suffix decide between windows as the number
  does (`PrefixAndSuffixDecide`), and `ExceedsIsGreater`. `PrefixSlides` is the
  step of a restart, for windows shorter than a prefix too.

### The simulation

* `SimulateStats_proofs`: `TypeCorrect` and `CountsAreExactCorrect`, for any number
  of sizes, processors, interruptions and restarts. `Alone` says that two
  goroutines of a size were noticed when the second one started; `InodesAreApart`
  that no path and no open file of one size has the inode of another;
  `WorkIsSound` what a goroutine that is alone has read and written. That a new
  file finds a free inode is a pigeonhole argument (`FreeInodeExists`).
  `CountedInv` is about goroutines that are not alone: each has at most one
  simulation more to write than were written, and none more when its temporary file
  has become the file of its size, for then one was written since it read.
* `EverySizeHasItsTurn`, `GoroutinesCount` and `ToolNeverStuck`, below. The
  invariant of the first, `SizesAreTaken`, says that the first round goes through
  the sizes in their order and that what is dispatched is worked on until its
  file is renamed.

### Every call comes to an end

TLAPS does not prove liveness, but almost all of it is safety, and that is proved
for every reader, for the search, for the scanners and for the tool, for every
value of the constants:

* *No step is in vain.* `StepsLeft` is the number of steps that the call can
  still take, at most; `ReaderStepsCount`, `ReadersStepsCount`, `SearchStepsCount`
  and `ScanStepsCount` say that each step of a call lowers it. Mostly it is a
  multiple of the bytes not scanned yet plus a number that depends on `pc`. Two are
  less plain. In `RepMaxReader` a walk passes over candidates and hashes nothing,
  so candidates count too; and after a forced cut a recomputation hashes points
  again that the scan has passed. It has its own count, the distance to the first
  reusable point, for which the steps before it leave room, and its call then
  returns. In the scanners the amd64 core hands over to the loop for the rest of
  a region, and the step that enters the core must be paid for by a block (`Ahead`).
* *No call is stuck.* `ReaderNeverStuck`, `ReadersNeverStuck`, `SearchGoesOn` and
  `ScanNeverStuck`: `StepsLeft` is a natural number, and while a call runs
  `CanGoOn` holds, which lists what a step needs where its guards are not the
  negations of another's: no region has been left by more bytes than it has, the
  candidates that a walk indexes exist, a block that is not the last one holds
  a whole region.
* *There are only so many calls.* `CallsLeft` is the bytes not handed out and the
  errors that may still occur. `ReaderCallsCount` and `ReadersCallsCount` say that
  each call that does not end in `io.EOF` lowers it and that no step raises it; so
  after that many calls a caller that ignores errors has read the file.
* *No size is left out* (`EverySizeHasItsTurn`): once a process of the simulation
  has dispatched as many goroutines as there are sizes, each size was simulated
  or is being worked on, for any shuffle and after any restarts. A goroutine only
  goes forward (`GoroutinesCount`), and where the loop has to wait for a permit
  there is a goroutine that will return one (`ToolNeverStuck`).

What is missing to `ReaderIsLive`, `SearchEnds`, `ScanEnds` and
`AllSizesSimulated` is that a step that can be taken is taken, which is the
fairness, and that a natural number does not fall for ever.

### Only model-checked

* Liveness under fairness itself: TLAPS knows neither `ENABLED`, of which `WF` is
  made, nor the induction over a variant. Its safety half is proved, above.
* `ChunksAreOfWholeFile` for readers whose streams end with their pieces, where it
  is false.

## Not modelled

* `chunker`, `chunk_tarball`, `measure_throughput` and `print_maxcdc_stats` under
  `cmd/`: loops over `ReadNextChunk` until `io.EOF`, with a clock or an archive
  writer behind a pipe, and a fit in floating point. What they need of their
  input is a property of the readers or of `SimulateStats`.
* The numbers in `gear_table.go` and the masks of FastCDC: constants; any table
  and any masks are allowed by the modules' assumptions.
* Panics of constructors and the range of `int`: sizes are checked there once
  and are far below overflow.
* `io.ErrNoProgress` of wide AE, which needs a Peeker that breaks its contract.
* FastCDC with a size that has no mask, or below four bytes, for which the code
  makes no promise.
* The paper and the figures.

## Plan

Done: all components above, each with its run, and the proofs of eight modules:
every safety property that a passing run checks is proved, and of the liveness
properties what is safety in them. Left to TLC is the last step of these, from a
number that falls and a step that can be taken to something that happens.
