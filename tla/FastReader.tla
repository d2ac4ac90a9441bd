----------------------------- MODULE FastReader -----------------------------
(***************************************************************************)
(* The FastCDC chunk reader of fast_content_defined_chunker.go.  A region  *)
(* of the data is hashed in blocks of Unroll bytes by an unrolled loop,    *)
(* and what remains of it by a loop over single bytes; a chunk ends where  *)
(* the hash has no bit of the mask.  One step is one byte.                 *)
(***************************************************************************)
EXTENDS SinglePeek, GearHash, FiniteSetsExt

CONSTANTS
    NormalSize,      \* normalSizeBytes
    MaskS, MaskL,    \* the bits of maskS and maskL, as sets of indices
    Unroll           \* bytes of a block, 8

MinSize == NormalSize \div 4

\* An assumption of whatever takes an instance of this module.  The sizes that
\* have masks are powers of two, so that only the end of the data leaves a
\* region with bytes that are not in a block.
FastAssumption ==
    /\ NormalSize \in Nat /\ NormalSize >= 4 /\ PeekSize = NormalSize * 4
    /\ Unroll \in Nat \ {0}
    /\ (NormalSize - MinSize) % Unroll = 0 /\ (PeekSize - NormalSize) % Unroll = 0
    /\ MaskS \subseteq 0 .. (Width - 1) /\ MaskL \subseteq 0 .. (Width - 1)
    /\ Width \in Nat \ {0} /\ Gear \in [0 .. Top -> 0 .. (TwoTo[Width] - 1)]
    /\ \A f \in Files : /\ f.size \in Nat
                        /\ f.byte \in [0 .. (f.size - 1) -> 0 .. Top]

VARIABLES
    regionStart, regionEnd,    \* hashRegion, as offsets in the data
    mask,                      \* the mask of the region
    i, k,                      \* its next block or byte; bytes done of a block
    hash, s                    \* the hash before the block; what the block adds

region == <<regionStart, regionEnd, mask>>
scan == <<i, k, hash, s>>
vars == <<single, region, scan>>

Init ==
    /\ InitSingle
    /\ regionStart = 0 /\ regionEnd = 0 /\ mask = {}
    /\ i = 0 /\ k = 0 /\ hash = 0 /\ s = 0

\* hash & bits == 0
MasksToZero(value, bits) == \A b \in bits : (value \div TwoTo[b]) % 2 = 0

\* Mutant: the mask of the first region stays.
FirstMask(start) == MaskS
MaskFrom(start) == IF start = NormalSize THEN MaskL ELSE MaskS
EnterRegion(start, end) ==
    /\ regionStart' = start /\ regionEnd' = end /\ mask' = MaskFrom(start)
    /\ i' = 0

-----------------------------------------------------------------------------

\* Data of the normal size is cut in two regions; a single mask does for less.
IsLarge == dataLen >= NormalSize
Start ==
    /\ pc = "data" /\ dataLen >= MinSize
    /\ EnterRegion(MinSize, IF IsLarge THEN NormalSize ELSE dataLen)
    /\ hash' = 0 /\ s' = 0 /\ k' = 0
    /\ pc' = "scan"
    /\ UNCHANGED <<file, peeker, result, previousChunkSizeBytes, handedOut, dataLen>>

ReturnTiny ==
    /\ pc = "data" /\ dataLen \in 1 .. (MinSize - 1)
    /\ ReturnChunk(dataLen)
    /\ UNCHANGED <<file, peeker, dataLen, region, scan>>

RegionLen == regionEnd - regionStart
InBlock == pc = "scan" /\ i + Unroll <= RegionLen
InTail == pc = "scan" /\ i + Unroll > RegionLen /\ i < RegionLen

\* The byte k of a block: its hash is the one before the block, shifted, and
\* what the block's bytes add.
\* Mutant: the hash is not shifted within the block.
UnshiftedHash(added) == Wrap(hash + added)
BlockHash(added) == Wrap(hash * TwoTo[k + 1] + added)
UnrolledByte ==
    /\ InBlock
    /\ LET added == Wrap(2 * s + Gear[Data(regionStart + i + k)])
           h == BlockHash(added)
       IN  \/ /\ MasksToZero(h, mask)
              /\ ReturnChunk(regionStart + i + k + 1)
              /\ UNCHANGED scan
           \/ /\ ~ MasksToZero(h, mask)
              /\ k + 1 < Unroll
              /\ s' = added /\ k' = k + 1
              /\ UNCHANGED <<call, i, hash>>
           \/ /\ ~ MasksToZero(h, mask)
              /\ k + 1 = Unroll
              /\ hash' = h /\ i' = i + Unroll
              /\ s' = 0 /\ k' = 0
              /\ UNCHANGED call
    /\ UNCHANGED <<file, peeker, dataLen, region>>

\* A byte after the last block: a chunk that ends here ends before it.
TailByte ==
    /\ InTail
    /\ hash' = GearStep(hash, Data(regionStart + i))
    /\ \/ /\ MasksToZero(hash', mask)
          /\ ReturnChunk(regionStart + i)
          /\ UNCHANGED i
       \/ /\ ~ MasksToZero(hash', mask)
          /\ i' = i + 1
          /\ UNCHANGED call
    /\ UNCHANGED <<file, peeker, dataLen, region, k, s>>

\* The hash goes on in the bytes beyond the normal size.
NextRegion ==
    /\ pc = "scan" /\ i = RegionLen /\ regionEnd < dataLen
    /\ EnterRegion(NormalSize, dataLen)
    /\ UNCHANGED <<single, k, hash, s>>

ReturnAll ==
    /\ pc = "scan" /\ i = RegionLen /\ regionEnd = dataLen
    /\ ReturnChunk(dataLen)
    /\ UNCHANGED <<file, peeker, dataLen, region, scan>>

Next ==
    \/ PeekerStep /\ UNCHANGED <<region, scan>>
    \/ Start \/ ReturnTiny \/ UnrolledByte \/ TailByte \/ NextRegion \/ ReturnAll

Spec == Init /\ [][Next]_vars

-----------------------------------------------------------------------------
\* Properties

\* The chunk from start, described without a scan: a hash that runs from the
\* minimum size on, without regard to blocks and regions, matches first at
\* some offset.  The chunk ends with the byte there, or before it if the
\* offset lies in the last bytes of the file that do not fill a block.
RuleChunkSize(start) ==
    LET available == Available(start)
        hashAt(p) == GearWindow(byte, start + MinSize, start + p)
        bits(p) == IF available >= NormalSize /\ p >= NormalSize THEN MaskL ELSE MaskS
        matches == {p \in MinSize .. (available - 1) : MasksToZero(hashAt(p), bits(p))}
        first == Min(matches)
        afterBlocks == available - ((available - MinSize) % Unroll)
    IN  IF matches = {} THEN available
        ELSE IF first < afterBlocks THEN first + 1 ELSE first

\* Every variable has its type, and no byte is read outside the data.
TypeOK ==
    /\ SingleTypeOK
    /\ pc \in {"idle", "peek", "data", "scan"}
    /\ mask \in {{}, MaskS, MaskL}
    /\ hash = Wrap(hash) /\ s = Wrap(s)
    /\ k \in 0 .. (Unroll - 1)
    /\ regionStart \in Nat /\ regionEnd \in regionStart .. PeekSize
    /\ pc = "scan" => regionEnd <= dataLen /\ i \in 0 .. RegionLen
    /\ pc = "scan" /\ k > 0 => i + Unroll <= RegionLen

\* The hash that a block is added to is the hash of every byte from the
\* minimum size up to the block, in whatever blocks, tails and regions they
\* were read; what the block adds is the hash of its own bytes.
HashIsContinuous ==
    pc = "scan" =>
        LET next == pos + regionStart + i
        IN  /\ hash = GearWindow(byte, pos + MinSize, next - 1)
            /\ s = GearWindow(byte, next, next + k - 1)
=============================================================================
