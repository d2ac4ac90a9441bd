--------------------------- MODULE MCRepMaxHashes ---------------------------
(***************************************************************************)
(* Small instances of RepMaxHashes for TLC.                                *)
(***************************************************************************)
EXTENDS RepMaxHashes, TLC

\* Every scanner, and lexicographic windows shorter than, as long as and longer
\* than the prefix.
AllScanners ==
    {[name |-> "gear", window |-> Width]}
      \cup {[name |-> n, window |-> PolynomialWindow] : n \in {"scalar", "portable", "archsimd"}}
      \cup {[name |-> "lexicographic", window |-> w] : w \in {2, 4, 6}}

\* Files of n bytes: MinSize bytes of 0, or the same with a 1 in the middle, and
\* then any bytes.
FilesOf(n) ==
    {[p \in 0 .. (n - 1) |->
        IF p >= MinSize THEN b[p] ELSE IF p = MinSize - 2 THEN c ELSE 0] :
          b \in [MinSize .. (n - 1) -> 0 .. Top], c \in 0 .. Top}

ShortFiles == FilesOf(16)

GearValues == 0 :> 3 @@ 1 :> 10
=============================================================================
