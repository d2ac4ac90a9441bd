------------------------------ MODULE HashScan ------------------------------
(***************************************************************************)
(* scanHorizon of rep_max_chunk_reader.go with the bytes and the           *)
(* arithmetic of the scanners it calls: the unrolled Gear scanner, the     *)
(* polynomial scanner in its scalar, portable SIMD and amd64 versions, and *)
(* the lexicographic scanner, which keeps only a prefix of its windows.    *)
(* RepMaxReader models the same loop with windows that are compared by a   *)
(* score, and what is done with the candidates; here one step is a byte of *)
(* a scanner.                                                              *)
(***************************************************************************)
EXTENDS RepMaxHash, Sequences, SequencesExt

CONSTANTS
    MinSize,         \* minSizeBytes
    Scanners,        \* the scanners: a set of records of a name and a window
    Unroll,          \* bytes of a block of the Gear scanner, 8
    PortableLanes,   \* laneCount
    LoadSize,        \* bytes loaded for a block by the amd64 scanner, 16
    ArchLanes,       \* bytes of such a block, 4
    BufferSize,      \* polynomialArchSIMDCandidateBufferSize, 32
    Files            \* what may be scanned: sequences of bytes, from index 0 on

ScannerNames == {"gear", "scalar", "portable", "archsimd", "lexicographic"}
ASSUME ScannersAssumption ==
    /\ MinSize \in Nat
    /\ \A sc \in Scanners :
          /\ sc.name \in ScannerNames
          /\ sc.window \in 1 .. MinSize
          /\ sc.name = "gear" => sc.window = Width
          /\ sc.name \in {"scalar", "portable", "archsimd"} =>
                sc.window = PolynomialWindow
ASSUME LanesAssumption ==
    /\ Unroll \in Nat \ {0} /\ PortableLanes \in Nat \ {0}
    /\ ArchLanes \in Nat \ {0} /\ LoadSize \in Nat /\ BufferSize \in Nat
    /\ LoadSize >= ArchLanes /\ BufferSize >= ArchLanes
ASSUME FilesAssumption ==
    \A f \in Files : LET size == Cardinality(DOMAIN f)
                     IN  size \in Nat /\ size > MinSize /\ f \in [0 .. (size - 1) -> 0 .. Top]

VARIABLES
    scanner, byte,                             \* the scanner; the file
    dataLen,                                   \* how much of it is in data
    candidateOffsets, scannedOffset,           \* the frontier
    currentHash, maximumHash,
    hashEnd,                                   \* absolute end of what is hashed
    finalized,                                 \* completedChunkSizes is not empty
    pc,                                        \* progress of scanHorizon
    regionLen, reachesStabilityPoint, before,  \* hashRegion, and the number of
                                               \* candidates before its scan
    i, k, s,                                   \* the scan: next byte; bytes done
                                               \* of a block, and their hash
    core, processed, buffer                    \* amd64: in the core; scanned when
                                               \* it was entered; candidateBuffer

input == <<scanner, byte, dataLen>>
frontier == <<candidateOffsets, scannedOffset, currentHash, maximumHash>>
region == <<regionLen, reachesStabilityPoint, before>>
block == <<k, s>>
arch == <<core, processed, buffer>>
vars == <<input, frontier, hashEnd, finalized, pc, region, i, block, arch>>

Window == scanner.window
Kind == CASE scanner.name = "gear" -> "gear"
          [] scanner.name = "lexicographic" -> "lexicographic"
          [] OTHER -> "polynomial"
Incoming == byte[hashEnd + i]
Outgoing == byte[hashEnd + i - Window]

\* The position that the candidates count from, and that of the best cut.
Origin == hashEnd - scannedOffset
MaximumCut == Origin + Last(candidateOffsets)

Init ==
    /\ scanner \in Scanners /\ byte \in Files
    /\ dataLen \in (MinSize + 1) .. Cardinality(DOMAIN byte)
    /\ candidateOffsets = <<0>> /\ scannedOffset = 0
    /\ currentHash = InitialHash(Kind, byte, MinSize - Window, MinSize - 1)
    /\ maximumHash = currentHash
    /\ hashEnd = MinSize
    /\ finalized = FALSE
    /\ pc = "horizon"
    /\ regionLen = 0 /\ reachesStabilityPoint = FALSE /\ before = 0
    /\ i = 0 /\ k = 0 /\ s = 0
    /\ core = FALSE /\ processed = 0 /\ buffer = <<>>

-----------------------------------------------------------------------------
\* scanHorizon: a region of the data

StartRegion ==
    /\ pc = "horizon" /\ hashEnd < dataLen
    /\ LET remaining == dataLen - hashEnd
           bytesUntilStable == Last(candidateOffsets) + MinSize - 1 - scannedOffset
       IN  /\ reachesStabilityPoint' = (remaining > bytesUntilStable)
           /\ regionLen' = IF remaining > bytesUntilStable
                           THEN bytesUntilStable ELSE remaining
    /\ before' = Len(candidateOffsets)
    /\ pc' = "scan" /\ i' = 0
    /\ UNCHANGED <<input, frontier, hashEnd, finalized, block, arch>>

Scanning(name) == pc = "scan" /\ scanner.name = name /\ i < regionLen

\* The hash of the window that ends after this byte is compared with the best.
Consider(hash) ==
    /\ maximumHash' = IF maximumHash < hash THEN hash ELSE maximumHash
    /\ candidateOffsets' = IF maximumHash < hash
                           THEN Append(candidateOffsets, scannedOffset + i + 1)
                           ELSE candidateOffsets

ByteDone == i' = i + 1 /\ UNCHANGED <<input, scannedOffset, hashEnd, finalized, pc, region>>

-----------------------------------------------------------------------------
\* The Gear scanner

GearBlockByte ==
    /\ Scanning("gear") /\ i - k + Unroll <= regionLen
    /\ LET added == Wrap(2 * s + Gear[Incoming])
           hash == Wrap(currentHash * TwoTo[k + 1] + added)
       IN  /\ Consider(hash)
           /\ IF k + 1 < Unroll
              THEN k' = k + 1 /\ s' = added /\ UNCHANGED currentHash
              ELSE k' = 0 /\ s' = 0 /\ currentHash' = hash
    /\ ByteDone
    /\ UNCHANGED arch

GearByte ==
    /\ Scanning("gear") /\ i - k + Unroll > regionLen
    /\ currentHash' = GearStep(currentHash, Incoming)
    /\ Consider(currentHash')
    /\ ByteDone
    /\ UNCHANGED <<block, arch>>

-----------------------------------------------------------------------------
\* The polynomial scanners

Roll(hash) ==
    /\ currentHash' = hash
    /\ Consider(hash)
    /\ ByteDone
    /\ UNCHANGED <<block, arch>>

InLanes == i - (i % PortableLanes) + PortableLanes <= regionLen
PortableByte ==
    /\ Scanning("portable") /\ InLanes
    /\ Roll(RollVector(currentHash, PortableRemoval(Outgoing), Incoming))

\* The scalar scanner, and the last bytes of the others.
\* Mutant: the core is entered for a block that cannot be loaded.
EntersForBlock == i + ArchLanes <= regionLen
EntersCore == i + LoadSize <= regionLen
ScalarByte ==
    /\ \/ Scanning("scalar")
       \/ Scanning("portable") /\ ~ InLanes
       \/ Scanning("archsimd") /\ ~ core /\ ~ EntersCore
    /\ Roll(RollPolynomial(currentHash, Outgoing, Incoming))

\* The amd64 scanner loads more bytes than it processes, and its core keeps
\* the candidates in a buffer that only its caller empties.
EnterCore ==
    /\ Scanning("archsimd") /\ ~ core /\ EntersCore
    /\ core' = TRUE /\ processed' = i
    /\ UNCHANGED <<input, frontier, hashEnd, finalized, pc, region, i, block, buffer>>

\* Mutant: a block may start with one candidate too many.
HasRoomForLess == Len(buffer) <= BufferSize - ArchLanes + 1
HasRoom == Len(buffer) <= BufferSize - ArchLanes
CoreContinues == k > 0 \/ (regionLen - i >= LoadSize /\ HasRoom)

CoreByte ==
    /\ pc = "scan" /\ core /\ CoreContinues
    /\ currentHash' = RollVector(currentHash, ArchRemoval(Outgoing), Incoming)
    /\ buffer' = IF maximumHash < currentHash'
                 THEN Append(buffer, i - processed + 1) ELSE buffer
    /\ maximumHash' = IF maximumHash < currentHash' THEN currentHash' ELSE maximumHash
    /\ k' = (k + 1) % ArchLanes
    /\ ByteDone
    /\ UNCHANGED <<candidateOffsets, s, core, processed>>

LeaveCore ==
    /\ pc = "scan" /\ core /\ ~ CoreContinues
    /\ candidateOffsets' =
          candidateOffsets \o [j \in DOMAIN buffer |-> scannedOffset + processed + buffer[j]]
    /\ core' = FALSE /\ buffer' = <<>>
    /\ UNCHANGED <<input, scannedOffset, currentHash, maximumHash, hashEnd, finalized,
                   pc, region, i, block, processed>>

-----------------------------------------------------------------------------
\* The lexicographic scanner

\* considerWindow: the rest of the window decides between equal prefixes.
\* Mutant: a window with the prefix of the best one is taken for equal.
ExceedsInPrefix(cut) == Prefix(byte, cut - Window, cut - 1) > maximumHash
Exceeds(cut) ==
    LET prefix == Prefix(byte, cut - Window, cut - 1)
        suffix(c) == NumberOf(byte, c - Window + PrefixSize, c - 1)
    IN  \/ prefix > maximumHash
        \/ prefix = maximumHash /\ Window > PrefixSize /\ suffix(cut) > suffix(MaximumCut)

\* Most windows are passed over for their first byte; that a block is passed
\* over as a whole makes no difference.
WindowByte ==
    /\ Scanning("lexicographic")
    /\ LET cut == hashEnd + i + 1
       IN  IF byte[cut - Window] >= byte[MaximumCut - Window] /\ Exceeds(cut)
           THEN /\ maximumHash' = Prefix(byte, cut - Window, cut - 1)
                /\ candidateOffsets' = Append(candidateOffsets, scannedOffset + i + 1)
           ELSE UNCHANGED <<maximumHash, candidateOffsets>>
    /\ ByteDone
    /\ UNCHANGED <<currentHash, block, arch>>

-----------------------------------------------------------------------------
\* scanHorizon: the end of a region

\* "Slide that prefix using the ninth byte of the old window."
\* Mutant: the byte that enters the window enters the prefix.
EntersWindow(end) == end
EnteringIndex(end) ==
    IF Kind = "lexicographic" /\ Window > PrefixSize
    THEN end - Window + PrefixSize ELSE end

\* What the scanner leaves in currentHash.
ScannedHash(end) ==
    IF Kind = "lexicographic" THEN Prefix(byte, end - Window, end - 1) ELSE currentHash

RegionScanned == pc = "scan" /\ i = regionLen /\ ~ core
BatchIsStable == reachesStabilityPoint /\ Len(candidateOffsets) = before

\* The chunks up to the last candidate are final; a new frontier begins with
\* the next byte.
Restart ==
    /\ RegionScanned /\ BatchIsStable
    /\ LET end == hashEnd + regionLen
       IN  /\ currentHash' = RollHash(Kind, Window, ScannedHash(end),
                                      byte[end - Window], byte[EnteringIndex(end)])
           /\ maximumHash' = currentHash'
           /\ hashEnd' = end + 1
    /\ candidateOffsets' = SubSeq(candidateOffsets, 1, 1)
    /\ scannedOffset' = 0
    /\ finalized' = TRUE
    /\ pc' = "horizon"
    /\ UNCHANGED <<input, region, i, block, arch>>

GoOn ==
    /\ RegionScanned /\ ~ BatchIsStable
    /\ hashEnd' = hashEnd + regionLen
    /\ scannedOffset' = scannedOffset + regionLen
    /\ currentHash' = ScannedHash(hashEnd')
    /\ pc' = "horizon"
    /\ UNCHANGED <<input, candidateOffsets, maximumHash, finalized, region, i, block, arch>>

EndOfData ==
    /\ pc = "horizon" /\ hashEnd >= dataLen
    /\ pc' = "done"
    /\ UNCHANGED <<input, frontier, hashEnd, finalized, region, i, block, arch>>

\* Once the final chunks are handed out, the frontier goes on in more data.
\* Without any, the reader forces a cut and replaces the frontier.
NextCall ==
    /\ pc = "done" /\ finalized
    /\ dataLen' \in (dataLen + 1) .. Cardinality(DOMAIN byte)
    /\ finalized' = FALSE
    /\ pc' = "horizon"
    /\ UNCHANGED <<scanner, byte, frontier, hashEnd, region, i, block, arch>>

-----------------------------------------------------------------------------

ScanStep ==
    \/ StartRegion
    \/ GearBlockByte \/ GearByte
    \/ ScalarByte \/ PortableByte \/ EnterCore \/ CoreByte \/ LeaveCore
    \/ WindowByte
    \/ Restart \/ GoOn \/ EndOfData
Next == ScanStep \/ NextCall

\* The loops of a call go on until they end.
Spec == Init /\ [][Next]_vars /\ WF_vars(ScanStep)

-----------------------------------------------------------------------------
\* Properties

\* The variables have their types, and candidateBuffer holds what the core found.
TypeOK ==
    /\ dataLen \in (MinSize + 1) .. Cardinality(DOMAIN byte)
    /\ candidateOffsets # <<>> /\ candidateOffsets[1] = 0
    /\ currentHash = Wrap(currentHash) /\ maximumHash = Wrap(maximumHash)
    /\ hashEnd \in MinSize .. dataLen /\ scannedOffset \in 0 .. (hashEnd - MinSize)
    /\ finalized \in BOOLEAN /\ pc \in {"horizon", "scan", "done"}
    /\ regionLen \in Nat /\ i \in 0 .. regionLen
    /\ (pc = "scan" => hashEnd + regionLen <= dataLen)
    /\ k \in 0 .. (Unroll + ArchLanes) /\ s = Wrap(s)
    /\ core \in BOOLEAN /\ processed \in Nat
    /\ Len(buffer) <= BufferSize

\* Between regions, and between calls, the hashes are those of the windows
\* they stand for: currentHash of the window that ends at hashEnd, maximumHash
\* of the one at the last candidate.  A lexicographic hash is the prefix.
HashesAreExact ==
    pc # "scan" =>
        LET key(cut) == KeyOf(Kind, byte, cut - Window, cut - 1)
        IN  currentHash = key(hashEnd) /\ maximumHash = key(MaximumCut)

\* "All implementations produce identical cutting points", and equal windows
\* retain the leftmost cut: whatever scanner read the bytes, in whatever
\* blocks, the candidates are the cuts whose whole window exceeds that of every
\* earlier cut since the frontier began.
CandidatesAreRecords ==
    pc # "scan" =>
        LET score(o) == ScoreOf(Kind, byte, Origin + o - Window, Origin + o - 1)
            records == {o \in 0 .. scannedOffset :
                           \A earlier \in 0 .. (o - 1) : score(earlier) < score(o)}
        IN  ToSet(candidateOffsets) = records
=============================================================================
