---------------------------- MODULE MCMaxReader ----------------------------
(***************************************************************************)
(* Small instances of MaxReader for TLC.                                   *)
(***************************************************************************)
EXTENDS MaxReader

\* Every file of one of the sizes whose scores are below bound.
FilesOf(sizes, bound) ==
    UNION {{[size |-> n, score |-> s] : s \in [CutsOf(n) -> 0 .. (bound - 1)]} :
             n \in sizes}

\* Files of up to four chunks, three different scores.
ShortFiles == FilesOf(0 .. 11, 3)
=============================================================================
