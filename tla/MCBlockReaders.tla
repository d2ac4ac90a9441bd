--------------------------- MODULE MCBlockReaders ---------------------------
(***************************************************************************)
(* Small instances of BlockReaders for TLC.                                *)
(***************************************************************************)
EXTENDS BlockReaders

\* Every file of one of the sizes, of bytes up to the largest.
FilesOf(sizes, largest) ==
    UNION {{[size |-> n, byte |-> b] : b \in [0 .. (n - 1) -> 0 .. largest]} :
             n \in sizes}

AEFiles == FilesOf(0 .. 8, 2)
TwoValueFiles == FilesOf(0 .. 10, 1)
=============================================================================
