----------------------------- MODULE RepMaxHash -----------------------------
(***************************************************************************)
(* The three hashes of RepMaxCDC, from rep_max_hash.go, polynomial_hash.go *)
(* and lexicographic_rep_max_hash.go: what a window of bytes hashes to, as *)
(* the code computes it and described without a loop, and how a hash that  *)
(* belongs to one window becomes that of the next.                         *)
(*                                                                         *)
(* The window of a cut is the bytes before it: byte[cut - window] up to    *)
(* byte[cut - 1].                                                          *)
(***************************************************************************)
EXTENDS GearHash, FiniteSetsExt

CONSTANTS
    Top,                 \* the largest byte, 0xff
    Base,                \* polynomialHashBase
    PolynomialWindow,    \* polynomialHashWindowSizeBytes, 64
    PrefixSize           \* lexicographicWindowPrefixSizeBytes, 8

\* What a shift by n bytes multiplies a number with.
DigitTo[n \in Nat] == IF n = 0 THEN 1 ELSE (Top + 1) * DigitTo[n - 1]

\* An integer holds the bytes of a prefix exactly, as 8 bytes fill 64 bits.
ASSUME PrefixAssumption ==
    /\ Top \in Nat /\ PrefixSize \in Nat \ {0}
    /\ DigitTo[PrefixSize] = TwoTo[Width]
    /\ 0 .. Top \subseteq DOMAIN Gear
\* The portable vectors multiply halves of an integer: a byte times a quarter
\* of one has to fit.
ASSUME PolynomialAssumption ==
    /\ Base \in 0 .. (TwoTo[Width] - 1) /\ PolynomialWindow \in Nat \ {0}
    /\ Width % 4 = 0 /\ Top * (TwoTo[Width \div 4] - 1) < TwoTo[Width \div 2]

-----------------------------------------------------------------------------
\* The polynomial hash

\* Powers of the base; the factor is one of them that wraps.
BaseTo[n \in Nat] == IF n = 0 THEN 1 ELSE Base * BaseTo[n - 1]
RemovalFactor == Wrap(BaseTo[PolynomialWindow])
RollingAdjustment == Wrap(1 - RemovalFactor)
OutgoingAdjustment(b) == Wrap(1 - (b + 1) * RemovalFactor)

RollPolynomial(hash, outgoing, incoming) ==
    Wrap(hash * Base + incoming + OutgoingAdjustment(outgoing))

\* The same step with a removal that vectors computed.
RollVector(hash, removal, incoming) ==
    Wrap(hash * Base + Wrap(incoming + RollingAdjustment - removal))

Half == TwoTo[Width \div 2]
Quarter == TwoTo[Width \div 4]

\* An outgoing byte times the removal factor, from products of half the width:
\* each keeps its low half only.
\* Mutant: the second quarter of the factor is not moved back to its place.
MisplacedRemoval(b) ==
    LET lane(n) == (b * n) % Half
    IN  Wrap(lane(RemovalFactor % Quarter)
             + lane((RemovalFactor \div Quarter) % Quarter)
             + lane(RemovalFactor \div Half) * Half)
PortableRemoval(b) ==
    LET lane(n) == (b * n) % Half
    IN  Wrap(lane(RemovalFactor % Quarter)
             + lane((RemovalFactor \div Quarter) % Quarter) * Quarter
             + lane(RemovalFactor \div Half) * Half)

\* The same from products that widen to an integer.
ArchRemoval(b) ==
    Wrap(b * (RemovalFactor % Half) + b * (RemovalFactor \div Half) * Half)

-----------------------------------------------------------------------------
\* The hash of a window, as initialHash computes it

Horner(byte, first, last, step(_, _)) ==
    LET hash[p \in (first - 1) .. last] ==
            IF p < first THEN 0 ELSE step(hash[p - 1], byte[p])
    IN  hash[last]

\* The first bytes of a window, up to PrefixSize, as one number.
Prefix(byte, first, last) ==
    LET end == IF last - first < PrefixSize THEN last ELSE first + PrefixSize - 1
    IN  Horner(byte, first, end, LAMBDA h, b : h * (Top + 1) + b)

InitialHash(kind, byte, first, last) ==
    CASE kind = "gear" -> Horner(byte, first, last, GearStep)
      [] kind = "polynomial" ->
            Horner(byte, first, last, LAMBDA h, b : Wrap(h * Base + b + 1))
      [] kind = "lexicographic" -> Prefix(byte, first, last)

\* A prefix slides by the byte that enters it; that of a short window loses the
\* byte that left.
RollPrefix(hash, window, entering) ==
    LET slid == Wrap(hash * (Top + 1) + entering)
    IN  IF window < PrefixSize THEN slid % DigitTo[window] ELSE slid

RollHash(kind, window, hash, outgoing, entering) ==
    CASE kind = "gear" -> GearStep(hash, entering)
      [] kind = "polynomial" -> RollPolynomial(hash, outgoing, entering)
      [] kind = "lexicographic" -> RollPrefix(hash, window, entering)

-----------------------------------------------------------------------------
\* What the hashes are meant to be

\* "(b[0]+1)*base^63 + ... + (b[63]+1) mod 2^64"
PolynomialOf(byte, first, last) ==
    LET sum[p \in first .. (last + 1)] ==
            IF p = last + 1 THEN 0 ELSE (byte[p] + 1) * BaseTo[last - p] + sum[p + 1]
    IN  Wrap(sum[first])

\* The bytes as the digits of one number: its order is the lexicographic one.
NumberOf(byte, first, last) ==
    LET sum[p \in first .. (last + 1)] ==
            IF p = last + 1 THEN 0 ELSE byte[p] * DigitTo[last - p] + sum[p + 1]
    IN  sum[first]

\* The number that decides which of two cuts is better.
ScoreOf(kind, byte, first, last) ==
    CASE kind = "gear" -> GearWindow(byte, first, last)
      [] kind = "polynomial" -> PolynomialOf(byte, first, last)
      [] kind = "lexicographic" -> NumberOf(byte, first, last)

\* The part of it that is kept in a hash.
KeyOf(kind, byte, first, last) ==
    IF kind = "lexicographic" /\ last - first >= PrefixSize
    THEN NumberOf(byte, first, first + PrefixSize - 1)
    ELSE ScoreOf(kind, byte, first, last)
=============================================================================
