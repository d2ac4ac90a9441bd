------------------------------ MODULE GearHash ------------------------------
(***************************************************************************)
(* The Gear hash of gear_table.go, in unsigned integers of Width bits: the *)
(* hash is shifted by one bit for every byte, so that a byte has left it   *)
(* after Width bytes.                                                      *)
(***************************************************************************)
EXTENDS Integers

CONSTANTS
    Width,    \* bits of an integer, 64
    Gear      \* GearTable.values: a number for every byte

ASSUME WidthAssumption == Width \in Nat \ {0}

\* What a shift by n bits multiplies a number with.
TwoTo[n \in Nat] == IF n = 0 THEN 1 ELSE 2 * TwoTo[n - 1]

\* Go's unsigned arithmetic wraps.
Wrap(n) == n % TwoTo[Width]

ASSUME GearAssumption == \A b \in DOMAIN Gear : Gear[b] \in 0 .. (TwoTo[Width] - 1)

\* One byte enters the hash.
GearStep(hash, b) == Wrap(2 * hash + Gear[b])

\* The hash after the bytes at first .. last, described without a scan: only
\* the last Width of them count.
GearWindow(byte, first, last) ==
    LET sum[p \in first .. (last + 1)] ==
            IF p = last + 1 THEN 0 ELSE Gear[byte[p]] * TwoTo[last - p] + sum[p + 1]
    IN  Wrap(sum[IF last - first < Width THEN first ELSE last - Width + 1])
=============================================================================
