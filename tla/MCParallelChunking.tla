------------------------ MODULE MCParallelChunking ------------------------
(***************************************************************************)
(* Small instances of ParallelChunking for TLC.                            *)
(***************************************************************************)
EXTENDS ParallelChunking

\* Every file of the given size with hashes up to the given one.
FilesOf(size, top) == {[size |-> size, score |-> s] : s \in [Window .. size -> 0 .. top]}

SomeFiles == FilesOf(9, 2) \cup FilesOf(11, 1)

\* Scores that rise up to a boundary and fall after it.
Peak == {[size |-> 9, score |-> <<0, 0, 1, 2, 3, 0, 0, 0, 0>>]}
===========================================================================
