----------------------------- MODULE RepMaxSync -----------------------------
(***************************************************************************)
(* DiscardUpToGuaranteedChunk of rep_max_content_defined_chunker.go: given *)
(* a stream that begins at an arbitrary position of a file, advance it to  *)
(* a position at which a reader that began at the start of the file cuts,  *)
(* whatever came before the stream.  One step per byte that is hashed.     *)
(*                                                                         *)
(* As in RepMaxReader a hash is the position its window ends at.  Until    *)
(* Window bytes of the stream are hashed the streaming hash covers a       *)
(* shorter window, whose value is any value: it is chosen anew for each    *)
(* byte.  MaxHash stands for ^uint64(0), the initial maxima, which is also *)
(* a value a window may have.                                              *)
(***************************************************************************)
EXTENDS Integers

CONSTANTS
    MinSize,      \* minSizeBytes
    Horizons,     \* the values of horizonSizeBytes that are tried
    Window,       \* windowSizeBytes
    MaxHash,      \* the largest hash value
    Files,        \* the files, each a record of its size and scores
    MaxFaults     \* how often the Peeker may return an error other than EOF

ASSUME MinSizeAssumption == MinSize \in Nat \ {0, 1}
ASSUME HorizonsAssumption == Horizons \subseteq Nat
ASSUME WindowAssumption == Window \in 1 .. MinSize
ASSUME MaxHashAssumption == MaxHash \in Nat
ASSUME FilesAssumption ==
    \A f \in Files : /\ f.size \in Nat
                     /\ f.score \in [Window .. f.size -> 0 .. MaxHash]
ASSUME MaxFaultsAssumption == MaxFaults \in Nat

VARIABLES
    horizon, fileSize, score,    \* the chunker's horizon and the file
    pos, faults,                 \* the Peeker: stream position, errors returned
    start,                       \* where the stream began, at this call
    scanned,                     \* bytes of the Peeker's data hashed so far
    hashed,                      \* the streaming hash: its window ends here
    maximumCurrent, maximumNext, \* largest hash of the current, the next region
    bytesUntilNextRegion,
    pc, result

chunker == <<horizon, fileSize, score>>
peeker == <<pos, faults>>
search == <<start, scanned, hashed, maximumCurrent, maximumNext,
            bytesUntilNextRegion>>
vars == <<chunker, peeker, search, pc, result>>

Rule == INSTANCE RepMaxRule WITH Horizon <- horizon

Init ==
    /\ horizon \in Horizons
    /\ \E f \in Files : fileSize = f.size /\ score = f.score
    /\ pos \in 0 .. fileSize
    /\ faults = 0
    /\ start = pos /\ scanned = 0 /\ hashed = pos
    /\ maximumCurrent = MaxHash /\ maximumNext = MaxHash
    /\ bytesUntilNextRegion = Window - 1
    /\ pc = "idle" /\ result = "none"

-----------------------------------------------------------------------------
\* The chunker may be asked at all: newRepMaxChunker.
\* Mutant: a horizon one byte shorter will do.
SupportsDiscardShort(h) == h >= 2 * (MinSize - 1) - 1
SupportsDiscard(h) == h >= 2 * (MinSize - 1)

Call ==
    /\ pc = "idle" /\ SupportsDiscard(horizon)
    /\ start' = pos /\ scanned' = 0 /\ hashed' = pos
    /\ maximumCurrent' = MaxHash /\ maximumNext' = MaxHash
    /\ bytesUntilNextRegion' = Window - 1
    /\ pc' = "peek"
    /\ UNCHANGED <<chunker, peeker, result>>

Return(outcome) == result' = outcome /\ pc' = "idle"

PeekFails ==
    /\ pc = "peek" /\ faults < MaxFaults
    /\ faults' = faults + 1
    /\ Return("error")
    /\ UNCHANGED <<chunker, pos, search>>

\* A cut needs MinSize bytes after it.
PeekShort ==
    /\ pc = "peek" /\ fileSize - pos < MinSize
    /\ Return("eof")
    /\ UNCHANGED <<chunker, peeker, search>>

PeekFull ==
    /\ pc = "peek" /\ fileSize - pos >= MinSize
    /\ scanned' = 0
    /\ pc' = "trailing"
    /\ UNCHANGED <<chunker, peeker, start, hashed, maximumCurrent, maximumNext,
                   bytesUntilNextRegion, result>>

-----------------------------------------------------------------------------
\* addByte of the next byte of the Peeker's data: the streaming hash moves to
\* the next point if that byte is the one after its window, and has one of
\* these values there.
NoHash == -1
AddByte == /\ hashed' = IF hashed = pos + scanned THEN hashed + 1 ELSE NoHash
           /\ scanned' = scanned + 1
ValuesAt(p) == IF p - start >= Window THEN {score[p]} ELSE 0 .. MaxHash

\* One byte of scanUntilHashExceeds.  It stops at the first new maximum of the
\* region that is larger than the whole region before it.
Exceeds(value) == maximumNext < value /\ maximumCurrent < value
Larger(a, b) == IF a < b THEN b ELSE a

\* Discard n bytes and go on with the search, or fail after fewer.
\* Mutants: the last byte stays in the stream; every byte does.
DiscardOneLess(n) == /\ pos' = pos + n - 1
                     /\ pc' = "peek"
                     /\ UNCHANGED <<faults, result>>
DiscardNothing(n) == /\ pc' = "peek"
                     /\ UNCHANGED <<pos, faults, result>>
DiscardScanned(n) ==
    \/ /\ pos' = pos + n
       /\ pc' = "peek"
       /\ UNCHANGED <<faults, result>>
    \/ /\ faults < MaxFaults
       /\ faults' = faults + 1
       /\ \E discarded \in 0 .. (n - 1) : pos' = pos + discarded
       /\ Return("error")

\* Finish the trailing portion of the current region.  A point that exceeds
\* the region is the new candidate, in the same region.
ScanTrailing ==
    /\ pc = "trailing" /\ scanned < bytesUntilNextRegion
    /\ AddByte
    /\ \E value \in ValuesAt(hashed') :
          /\ maximumNext' = Larger(maximumNext, value)
          /\ IF Exceeds(value)
             THEN /\ DiscardScanned(scanned')
                  /\ bytesUntilNextRegion' = bytesUntilNextRegion - scanned'
             ELSE UNCHANGED <<pos, faults, bytesUntilNextRegion, pc, result>>
    /\ UNCHANGED <<chunker, start, maximumCurrent>>

\* The first byte of the next region.  The current region's candidate is kept
\* only if it is larger than the region before and not exceeded by this byte.
\* Mutants: equal to the region before will do; the next byte is not compared.
NotGuaranteedTie(previous, current, next) == previous > current \/ current < next
NotGuaranteedBefore(previous, current, next) == previous >= current
NotGuaranteed(previous, current, next) == previous >= current \/ current < next
EnterRegion ==
    /\ pc = "trailing" /\ scanned = bytesUntilNextRegion
    /\ AddByte
    /\ \E value \in ValuesAt(hashed') :
          /\ maximumCurrent' = maximumNext
          /\ maximumNext' = value
          /\ IF NotGuaranteed(maximumCurrent, maximumNext, value)
             THEN /\ DiscardScanned(bytesUntilNextRegion + 1)
                  /\ bytesUntilNextRegion' = MinSize - 2
             ELSE /\ pc' = "leading"
                  /\ UNCHANGED <<pos, faults, bytesUntilNextRegion, result>>
    /\ UNCHANGED <<chunker, start>>

\* The leading portion of the next region, up to MinSize - 1 points after the
\* candidate.  After a point that exceeds it the rest of its region is left.
\* Mutant: one byte less.
LessOfNextRegion(scannedOfRegion) == MinSize - scannedOfRegion - 3
LeftOfNextRegion(scannedOfRegion) == MinSize - scannedOfRegion - 2
ScanLeading ==
    /\ pc = "leading" /\ scanned < MinSize - 1
    /\ AddByte
    /\ \E value \in ValuesAt(hashed') :
          /\ maximumNext' = Larger(maximumNext, value)
          /\ IF Exceeds(value)
             THEN /\ DiscardScanned(scanned')
                  /\ bytesUntilNextRegion' =
                        LeftOfNextRegion(scanned' - bytesUntilNextRegion - 1)
             ELSE UNCHANGED <<pos, faults, bytesUntilNextRegion, pc, result>>
    /\ UNCHANGED <<chunker, start, maximumCurrent>>

\* Nothing near the candidate exceeds it: the stream stands at a chunk boundary.
Found ==
    /\ pc = "leading" /\ scanned >= MinSize - 1
    /\ Return("found")
    /\ UNCHANGED <<chunker, peeker, search>>

Next == Call \/ PeekFails \/ PeekShort \/ PeekFull
        \/ ScanTrailing \/ EnterRegion \/ ScanLeading \/ Found

Spec == Init /\ [][Next]_vars
FairSpec == Spec /\ WF_vars(Next)

-----------------------------------------------------------------------------
\* Properties

\* Every variable has its type.
TypeOK ==
    /\ horizon \in Horizons
    /\ fileSize \in Nat
    /\ score \in [Window .. fileSize -> 0 .. MaxHash]
    /\ pos \in Nat /\ start \in Nat
    /\ scanned \in Nat /\ hashed \in Int
    /\ faults \in 0 .. MaxFaults
    /\ maximumCurrent \in 0 .. MaxHash /\ maximumNext \in 0 .. MaxHash
    /\ bytesUntilNextRegion \in Nat
    /\ pc \in {"idle", "peek", "trailing", "leading"}
    /\ result \in {"none", "found", "eof", "error"}

\* The search never leaves a gap in the hash: what was discarded was hashed,
\* byte by byte and once, and no index leaves the data that was peeked.
HashIsAligned ==
    /\ pos <= fileSize
    /\ pc = "peek" => hashed = pos
    /\ pc \in {"trailing", "leading"} =>
          /\ hashed = pos + scanned
          /\ pos + MinSize <= fileSize
    /\ pc # "idle" => bytesUntilNextRegion \in 0 .. (MinSize - 1)
    /\ pc = "trailing" => scanned \in 0 .. bytesUntilNextRegion
    /\ pc = "leading" => scanned \in (bytesUntilNextRegion + 1) .. (MinSize - 1)

\* Where it stops the score is larger than at each of the MinSize - 1 points
\* before, and not smaller than at the MinSize - 1 points after, all of them
\* seen in the stream.
FoundIsLocalMaximum ==
    result = "found" /\ pc = "idle" =>
        /\ pos - (MinSize - 1) >= start + Window
        /\ \A p \in (pos - (MinSize - 1)) .. (pos - 1) : score[p] < score[pos]
        /\ \A p \in (pos + 1) .. (pos + MinSize - 1) : score[p] <= score[pos]

\* The position it stops at is a chunk boundary "that is guaranteed to exist
\* regardless of the contents of the stream prior to the current position":
\* it is one in every file that ends with what the stream held.
FoundIsBoundary ==
    result = "found" /\ pc = "idle" => pos \in Rule!Boundaries(fileSize, score)

\* Every call returns.
SearchEnds == (pc = "peek") ~> (pc = "idle")
=============================================================================
