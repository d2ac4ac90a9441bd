--------------------------- MODULE StreamingHash ---------------------------
(***************************************************************************)
(* repMaxStreamingHash of rep_max_content_defined_chunker.go and the       *)
(* polynomialRollingHash of polynomial_hash.go: the hash of a stream whose *)
(* earlier bytes may have been discarded.  The Gear hash forgets them by   *)
(* itself; the polynomial one keeps its window in a ring.  A caller adds   *)
(* single bytes, or scans data until a hash exceeds a limit; the scan runs *)
(* on copies of the hash's fields and stores them when it ends.            *)
(*                                                                         *)
(* The bytes are those that a caller may hand in, chosen one at a time.    *)
(***************************************************************************)
EXTENDS RepMaxHash, Sequences

CONSTANTS
    Thresholds,    \* the values of maximumHash and limit that are tried
    MaxData,       \* the largest number of bytes handed to a scan
    MaxFed         \* bytes that are handed in altogether

\* An assumption of whatever takes an instance of this module.
StreamingAssumption ==
    /\ Thresholds \subseteq 0 .. (TwoTo[Width] - 1)
    /\ MaxData \in Nat /\ MaxFed \in Nat
    /\ PolynomialWindow \in Nat \ {0}

VARIABLES
    kind,                            \* hash.kind
    hash, next, windowSize,          \* the fields of the hash
    window,                          \* its ring: the last bytes
    pc,                              \* "idle", or the loop of a scan
    value, nextCopy, sizeCopy,       \* the scan's copies of the fields
    dataLen, scanned,                \* bytes handed to the scan; done
    maximumHash, limit,              \* its arguments; the maximum is updated
    exceeded,                        \* its last result
    fed,                             \* history: all bytes handed in
    called                           \* history: bytes handed in before the
                                     \* scan, and the maximum it was given

fields == <<hash, next, windowSize>>
copies == <<value, nextCopy, sizeCopy>>
scan == <<dataLen, scanned, maximumHash, limit, exceeded, called>>
vars == <<kind, fields, window, pc, copies, scan, fed>>

Bytes == 0 .. Top
Slots == 0 .. (PolynomialWindow - 1)
Hashes == 0 .. (TwoTo[Width] - 1)

Init ==
    /\ kind \in {"gear", "polynomial"}
    /\ hash = 0 /\ next = 0 /\ windowSize = 0
    /\ window = [j \in Slots |-> 0]
    /\ pc = "idle"
    /\ value = 0 /\ nextCopy = 0 /\ sizeCopy = 0
    /\ dataLen = 0 /\ scanned = 0
    /\ maximumHash = 0 /\ limit = 0 /\ exceeded = FALSE
    /\ fed = <<>>
    /\ called = [fed |-> 0, maximum |-> 0]

\* (next + 1) & (polynomialHashWindowSizeBytes - 1), a power of two.
\* Mutants: the ring has one slot too few; it has no end.
SkipsLastSlot(n) == IF n + 2 >= PolynomialWindow THEN 0 ELSE n + 1
RunsOn(n) == n + 1
NextSlot(n) == IF n + 1 = PolynomialWindow THEN 0 ELSE n + 1

Fill(h, b) == Wrap(h * Base + b + 1)
Feed(b) == fed' = Append(fed, b)

-----------------------------------------------------------------------------
\* addByte

AddByte(b) ==
    /\ pc = "idle" /\ Len(fed) < MaxFed
    /\ \/ /\ kind = "gear"
          /\ hash' = GearStep(hash, b)
          /\ UNCHANGED <<next, windowSize, window>>
       \/ /\ kind = "polynomial"
          /\ IF windowSize < PolynomialWindow
             THEN hash' = Fill(hash, b) /\ windowSize' = windowSize + 1
             ELSE hash' = RollPolynomial(hash, window[next], b) /\ UNCHANGED windowSize
          /\ window' = [window EXCEPT ![next] = b]
          /\ next' = NextSlot(next)
    /\ Feed(b)
    /\ UNCHANGED <<kind, pc, copies, scan>>

-----------------------------------------------------------------------------
\* scanUntilHashExceeds

StartScan(maximum, bound, n) ==
    /\ pc = "idle" /\ Len(fed) + n <= MaxFed
    /\ value' = hash /\ nextCopy' = next /\ sizeCopy' = windowSize
    /\ maximumHash' = maximum /\ limit' = bound
    /\ dataLen' = n /\ scanned' = 0
    /\ exceeded' = FALSE
    /\ called' = [fed |-> Len(fed), maximum |-> maximum]
    /\ pc' = IF kind = "gear" THEN "gear" ELSE "fill"
    /\ UNCHANGED <<kind, fields, window, fed>>

\* The scan returns and stores its copies; size is what it stores as the
\* number of bytes in the window.
\* Mutant: the position in the ring is not stored.
StoreValueOnly(v, n, size) == hash' = v /\ windowSize' = size /\ UNCHANGED next
Store(v, n, size) == hash' = v /\ next' = n /\ windowSize' = size

\* A hash that exceeds the maximum becomes it, and ends the scan if it exceeds
\* the limit.  Which fields are stored depends on the loop.
\* Mutant: a value equal to the limit ends the scan.
ReachesLimit(v) == maximumHash < v /\ limit <= v
ExceedsLimit(v) == maximumHash < v /\ limit < v
Step(v, n, size) ==
    /\ value' = v
    /\ maximumHash' = IF maximumHash < v THEN v ELSE maximumHash
    /\ scanned' = scanned + 1
    /\ \/ /\ ExceedsLimit(v)
          /\ exceeded' = TRUE /\ pc' = "idle"
          /\ Store(v, n, size)
       \/ /\ ~ ExceedsLimit(v)
          /\ UNCHANGED <<exceeded, pc, fields>>
    /\ UNCHANGED <<kind, dataLen, limit, called>>

GearByte(b) ==
    /\ pc = "gear" /\ scanned < dataLen
    /\ Step(GearStep(value, b), next, windowSize)
    /\ Feed(b)
    /\ UNCHANGED <<window, nextCopy, sizeCopy>>

\* The loop that fills the window has nothing to remove.
FillByte(b) ==
    /\ pc = "fill" /\ scanned < dataLen /\ sizeCopy < PolynomialWindow
    /\ sizeCopy' = sizeCopy + 1
    /\ window' = [window EXCEPT ![nextCopy] = b]
    /\ nextCopy' = NextSlot(nextCopy)
    /\ Step(Fill(value, b), nextCopy', sizeCopy')
    /\ Feed(b)

WindowFilled ==
    /\ pc = "fill" /\ scanned < dataLen /\ sizeCopy >= PolynomialWindow
    /\ pc' = "roll"
    /\ UNCHANGED <<kind, fields, window, copies, scan, fed>>

RollByte(b) ==
    /\ pc = "roll" /\ scanned < dataLen
    /\ window' = [window EXCEPT ![nextCopy] = b]
    /\ nextCopy' = NextSlot(nextCopy)
    /\ Step(Wrap(value * Base + b - window[nextCopy] * RemovalFactor + RollingAdjustment),
            nextCopy', PolynomialWindow)
    /\ Feed(b)
    /\ UNCHANGED sizeCopy

EndScan ==
    /\ pc \in {"gear", "fill", "roll"} /\ scanned = dataLen
    /\ Store(value, nextCopy, IF pc = "roll" THEN PolynomialWindow ELSE sizeCopy)
    /\ pc' = "idle"
    /\ UNCHANGED <<kind, window, copies, scan, fed>>

Next ==
    \/ \E b \in Bytes : AddByte(b)
    \/ \E maximum, bound \in Thresholds, n \in 0 .. MaxData : StartScan(maximum, bound, n)
    \/ \E b \in Bytes : GearByte(b) \/ FillByte(b) \/ RollByte(b)
    \/ WindowFilled \/ EndScan

Spec == Init /\ [][Next]_vars

-----------------------------------------------------------------------------
\* Properties

\* The hash of the stream after the first n bytes that were handed in: that of
\* the last ones, as many as the window holds.
HashAfter(n) ==
    IF kind = "gear" THEN GearWindow(fed, 1, n)
    ELSE PolynomialOf(fed, IF n > PolynomialWindow THEN n - PolynomialWindow + 1 ELSE 1, n)

\* Every variable has its type.
TypeOK ==
    /\ kind \in {"gear", "polynomial"}
    /\ pc \in {"idle", "gear", "fill", "roll"}
    /\ hash \in Hashes /\ value \in Hashes /\ maximumHash \in Hashes
    /\ next \in Slots /\ nextCopy \in Slots
    /\ windowSize \in 0 .. PolynomialWindow /\ sizeCopy \in 0 .. PolynomialWindow
    /\ window \in [Slots -> Bytes]
    /\ dataLen \in Nat /\ scanned \in 0 .. dataLen
    /\ limit \in Hashes /\ exceeded \in BOOLEAN
    /\ fed \in Seq(Bytes)

\* However the bytes came in, in scans that filled the window, went on after it
\* was full or stopped half way, the hash is that of the last bytes.
HashIsOfLastBytes == pc = "idle" => hash = HashAfter(Len(fed))

\* The fields that the next byte is entered by: the copies during a scan.
Current == IF pc = "idle" THEN [next |-> next, size |-> windowSize]
           ELSE [next |-> nextCopy,
                 size |-> IF pc = "roll" THEN PolynomialWindow ELSE sizeCopy]

\* The slot of the byte that came in d bytes ago.
SlotOf(d) == IF d <= Current.next THEN Current.next - d
             ELSE Current.next - d + PolynomialWindow

\* The ring holds the last bytes, each at its slot, as many as there are: the
\* byte that a full ring is about to overwrite is the one that leaves.
RingHoldsWindow ==
    kind = "polynomial" =>
        /\ Current.size = IF Len(fed) < PolynomialWindow THEN Len(fed) ELSE PolynomialWindow
        /\ \A d \in 1 .. Current.size : window[SlotOf(d)] = fed[Len(fed) - d + 1]

\* A scan stops after the first byte whose hash exceeds both its limit and the
\* maximum it was given, and only there; the maximum it returns is the largest
\* of the hashes up to there.
ScanIsExact ==
    LET values(from, to) == {HashAfter(n) : n \in from .. to}
        first == called.fed + 1
        stops(v) == v > limit /\ v > called.maximum
    IN  /\ scanned > 0 /\ Len(fed) = called.fed + scanned =>
              /\ maximumHash = Max(values(first, called.fed + scanned) \cup {called.maximum})
              /\ \A v \in values(first, called.fed + scanned - 1) : ~ stops(v)
              /\ exceeded <=> stops(HashAfter(called.fed + scanned))
        /\ pc = "idle" /\ ~ exceeded => scanned = dataLen
=============================================================================
