---------------------------- MODULE MCRepMaxReader ----------------------------
(***************************************************************************)
(* Small instances of RepMaxReader for TLC: sets of files, as constants.   *)
(***************************************************************************)
EXTENDS RepMaxReader

\* Every file of one of the sizes that bound is defined for, with scores below
\* the bound of its size.
FilesOf(bound) ==
    UNION {{[size |-> n, score |-> s] : s \in [CutsOf(n) -> 0 .. (bound[n] - 1)]} :
             n \in DOMAIN bound}

\* Five or seven rising scores within one horizon of a reader with MinSize 2 and
\* Horizon 8, so that a batch of three or four chunks becomes stable at once.
RisingFiles ==
    UNION {{[size |-> 14, score |-> [p \in CutsOf(14) |-> IF p <= last THEN p ELSE s[p]]] :
                s \in [CutsOf(14) -> {0, 20}]} :
             last \in {6, 8}}

\* Files that one peek sees the whole of, with three different scores, and
\* longer ones with two or with many that rise.
ReaderFiles ==
    FilesOf([n \in {1, 2, 3, 10, 11, 14, 15} |-> IF n < 12 THEN 3 ELSE 2])
        \cup RisingFiles

\* Fewer, for the liveness properties.
LiveFiles == FilesOf([n \in 0 .. 9 |-> IF n < 8 THEN 2 ELSE 3])

\* Rising scores 0, 3 and 6 at the offsets 0, 4 and 8 of the first horizon of a
\* reader with MinSize 5, so that its cut is forced at offset 0 and the frontier
\* recomputed, with every choice of scores between 4 and 8 and after 8.
RebaseFiles ==
    LET fixed == [p \in 5 .. 13 |-> CASE p = 9 -> 3 [] p = 13 -> 6 [] OTHER -> 0]
    IN  {[size |-> 24,
          score |-> [p \in 5 .. 19 |-> IF p \in DOMAIN s THEN s[p]
                                       ELSE IF p <= 13 THEN fixed[p]
                                       ELSE late[p]]] :
            s \in [10 .. 12 -> 0 .. 4],
            late \in [14 .. 19 -> {0, 7}]}

\* Four different scores at points of the horizon that are less than MinSize
\* apart, for longer lists of candidates.
SpreadFiles ==
    LET points == {5, 6, 7, 8, 10, 12}
    IN  {[size |-> 20, score |-> [p \in 5 .. 15 |-> IF p \in points THEN s[p] ELSE 0]] :
            s \in [points -> 0 .. 3]}

WalkFiles == RebaseFiles \cup SpreadFiles
===============================================================================
