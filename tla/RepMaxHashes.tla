---------------------------- MODULE RepMaxHashes ----------------------------
(***************************************************************************)
(* The two users of the hashes of RepMaxCDC together: the scanners of a    *)
(* reader and the streaming hash of DiscardUpToGuaranteedChunk.  Which of  *)
(* them a behavior is about is chosen at its start, and the other one's    *)
(* own variables stay as they are.                                         *)
(***************************************************************************)
EXTENDS HashScan

CONSTANTS Thresholds, MaxData, MaxFed

VARIABLES user, kind, hash, next, windowSize, window, value, nextCopy, sizeCopy,
          scanned, limit, exceeded, fed, called

Streaming == INSTANCE StreamingHash

ASSUME StreamingConstants == Streaming!StreamingAssumption

streamingVars == <<kind, hash, next, windowSize, window, value, nextCopy, sizeCopy,
                   scanned, limit, exceeded, fed, called>>
scannerVars == <<scanner, byte, candidateOffsets, scannedOffset, currentHash, hashEnd,
                 finalized, region, i, block, arch>>
hashes == <<vars, user, streamingVars>>

StreamingIdle ==
    /\ kind = "gear" /\ hash = 0 /\ next = 0 /\ windowSize = 0 /\ window = <<>>
    /\ value = 0 /\ nextCopy = 0 /\ sizeCopy = 0 /\ scanned = 0
    /\ limit = 0 /\ exceeded = FALSE /\ fed = <<>> /\ called = <<>>

ScannerIdle ==
    /\ scanner = [name |-> "gear", window |-> Width] /\ byte = <<>>
    /\ candidateOffsets = <<0>> /\ scannedOffset = 0 /\ currentHash = 0
    /\ hashEnd = MinSize /\ finalized = FALSE
    /\ regionLen = 0 /\ reachesStabilityPoint = FALSE /\ before = 0
    /\ i = 0 /\ k = 0 /\ s = 0
    /\ core = FALSE /\ processed = 0 /\ buffer = <<>>

HashesInit ==
    \/ user = "reader" /\ Init /\ StreamingIdle
    \/ user = "search" /\ Streaming!Init /\ ScannerIdle

HashesNext ==
    \/ /\ user = "reader" /\ Next
       /\ UNCHANGED <<user, streamingVars>>
    \/ /\ user = "search" /\ Streaming!Next
       /\ UNCHANGED <<user, scannerVars>>

\* The loops of a reader's call go on until they end.
HashesSpec ==
    /\ HashesInit /\ [][HashesNext]_hashes
    /\ WF_hashes(user = "reader" /\ ScanStep /\ UNCHANGED <<user, streamingVars>>)

-----------------------------------------------------------------------------
\* Properties

\* The variables of either user of the hashes have their types, and
\* candidateBuffer holds what the amd64 core finds.
HashesTypeOK ==
    /\ user \in {"reader", "search"}
    /\ user = "reader" => TypeOK
    /\ user = "search" => Streaming!TypeOK

\* Scanners: between regions, and between calls, the frontier's hashes are those
\* of the windows they stand for.
FrontierHashesAreExact == user = "reader" => HashesAreExact

\* Scanners: "all implementations produce identical cutting points", and equal
\* windows retain the leftmost cut.
ScannersAgree == user = "reader" => CandidatesAreRecords

\* Scanners: every scan comes to the end of its data.
ScanEnds == user = "reader" => []<>(pc = "done")

\* Streams: however the bytes came in, the hash is that of the last bytes.
HashIsOfLastBytes == user = "search" => Streaming!HashIsOfLastBytes

\* Streams: the ring holds the last bytes, each at its slot.
RingHoldsWindow == user = "search" => Streaming!RingHoldsWindow

\* Streams: a scan stops at the first hash that exceeds its limit and maximum.
ScanIsExact == user = "search" => Streaming!ScanIsExact
=============================================================================
