---------------------------- MODULE MCPeekReaders ----------------------------
(***************************************************************************)
(* Small instances of PeekReaders for TLC.                                 *)
(***************************************************************************)
EXTENDS PeekReaders, TLC

\* Every file of one of the sizes of three values, but for its first two bytes:
\* the first one is never compared, and the second one is the byte in the middle.
SeqFiles ==
    UNION {{[size |-> n, byte |-> [j \in 0 .. (n - 1) |-> IF j < 2 THEN j ELSE b[j]]] :
              b \in [2 .. (n - 1) -> 0 .. 2]} :
           n \in {0, 3, 4, 5, 7, 10}}

\* Files of n bytes: p times the byte 0, and then a pattern of seven bytes that
\* repeats.
PatternsOf(n, p) ==
    {[size |-> n, byte |-> [j \in 0 .. (n - 1) |-> IF j < p THEN 0 ELSE b[(j - p) % 7]]] :
        b \in [0 .. 6 -> 0 .. 1]}

\* Every short file of two values, and patterns that begin around the normal and
\* the largest size.
TwoValueFiles ==
    UNION ({{[size |-> n, byte |-> b] : b \in [0 .. (n - 1) -> 0 .. 1]} : n \in 0 .. 11}
           \cup {PatternsOf(n, p) : n \in {18, 32, 35}, p \in {0, 6, 12, 29}})

\* Neither mask is clear in the hash of the byte 0 alone.
GearValues == 0 :> 3 @@ 1 :> 6 @@ 2 :> 1
==============================================================================
