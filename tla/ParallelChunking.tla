------------------------- MODULE ParallelChunking -------------------------
(***************************************************************************)
(* What content_defined_chunker.go and the README say that                 *)
(* DiscardUpToGuaranteedChunk is for: "to cut large files into roughly     *)
(* equally sized pieces, allowing chunking to be performed in parallel".   *)
(* A search from each of a number of positions finds the boundaries of the *)
(* pieces; then a reader for each piece chunks it, in any order with the   *)
(* others.                                                                 *)
(*                                                                         *)
(* A search is what the properties of RepMaxSync say of it: it stops at    *)
(* any local maximum it has seen enough around, or at the end of the file. *)
(* A reader follows the rule of RepMaxRule.                                *)
(***************************************************************************)
EXTENDS RepMaxRule, FiniteSetsExt

CONSTANTS
    Window,      \* windowSizeBytes
    MaxHash,     \* the largest hash value
    Files,       \* the files, each a record of its size and scores
    Seeks,       \* the positions from which a boundary is searched
    Truncate     \* a reader's stream ends with its piece

ASSUME WindowAssumption == Window \in 1 .. MinSize
ASSUME MaxHashAssumption == MaxHash \in Nat
ASSUME SupportsDiscard == Horizon >= 2 * (MinSize - 1)
ASSUME FilesAssumption ==
    \A f \in Files : f.size \in Nat /\ f.score \in [Window .. f.size -> 0 .. MaxHash]
ASSUME SeeksAssumption == Seeks \subseteq Nat /\ IsFiniteSet(Seeks)
ASSUME TruncateAssumption == Truncate \in BOOLEAN

Pending == -1

VARIABLES
    fileSize, score,  \* the file
    found,            \* seek position -> where its search ended, or Pending
    at,               \* beginning of a piece -> position of its reader
    cuts              \* the ends of all chunks that were read

file == <<fileSize, score>>
vars == <<file, found, at, cuts>>

Init ==
    /\ \E f \in Files : fileSize = f.size /\ score = f.score
    /\ found = [s \in Seeks |-> Pending]
    /\ at = [b \in {} |-> 0]
    /\ cuts = {}

\* The search from s may stop at p.
\* Mutants: the last point after p is not looked at; a point before may be equal.
SeesOneLess(s, p) ==
    /\ p - (MinSize - 1) >= s + Window /\ p + MinSize <= fileSize
    /\ \A q \in (p - (MinSize - 1)) .. (p - 1) : score[q] < score[p]
    /\ \A q \in (p + 1) .. (p + MinSize - 2) : score[q] <= score[p]
AllowsTie(s, p) ==
    /\ p - (MinSize - 1) >= s + Window /\ p + MinSize <= fileSize
    /\ \A q \in (p - (MinSize - 1)) .. (p + MinSize - 1) : score[q] <= score[p]
Guaranteed(s, p) ==
    /\ p - (MinSize - 1) >= s + Window /\ p + MinSize <= fileSize
    /\ \A q \in (p - (MinSize - 1)) .. (p - 1) : score[q] < score[p]
    /\ \A q \in (p + 1) .. (p + MinSize - 1) : score[q] <= score[p]

\* DiscardUpToGuaranteedChunk; io.EOF leaves the rest of the file to the piece
\* before.
Search(s) ==
    /\ found[s] = Pending
    /\ \E p \in {q \in 0 .. fileSize : Guaranteed(s, q)} \cup {fileSize} :
          found' = [found EXCEPT ![s] = p]
    /\ UNCHANGED <<file, at, cuts>>

\* The pieces begin at the boundaries that were found, each once.
\* Mutant: the part before the first boundary is no piece.
LosesFirst == {found[s] : s \in Seeks} \ {fileSize}
PieceStarts == ({0} \cup {found[s] : s \in Seeks}) \ {fileSize}
Split ==
    /\ \A s \in Seeks : found[s] # Pending
    /\ DOMAIN at = {}
    /\ at' = [b \in PieceStarts |-> b]
    /\ UNCHANGED <<file, found, cuts>>

EndOf(b) == Min({e \in DOMAIN at \cup {fileSize} : e > b})

\* ReadNextChunk of the reader of the piece that begins at b.
StreamEnd(b) == IF Truncate THEN EndOf(b) ELSE fileSize
Chunk(b) ==
    /\ at[b] < EndOf(b)
    /\ LET next == at[b] + RuleChunkSize(score, at[b], Available(StreamEnd(b), at[b]))
       IN  at' = [at EXCEPT ![b] = next] /\ cuts' = cuts \cup {next}
    /\ UNCHANGED <<file, found>>

Next == (\E s \in Seeks : Search(s)) \/ Split \/ (\E b \in DOMAIN at : Chunk(b))

Spec == Init /\ [][Next]_vars

-----------------------------------------------------------------------------
\* Properties

\* The pieces have the chunks that the file has: chunking in parallel gives the
\* chunks that chunking it at once gives.  A reader that runs on past the end of
\* its piece arrives exactly at the boundary where the next piece begins, so that
\* nothing is chunked twice.
ChunksAreOfWholeFile ==
    /\ \A b \in DOMAIN at : at[b] <= EndOf(b)
    /\ cuts \subseteq Boundaries(fileSize, score)
    /\ DOMAIN at # {} /\ (\A b \in DOMAIN at : at[b] = EndOf(b)) =>
          cuts = Boundaries(fileSize, score)
=============================================================================
