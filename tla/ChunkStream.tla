---------------------------- MODULE ChunkStream ----------------------------
(***************************************************************************)
(* What any ChunkReader promises its caller, whatever its algorithm:       *)
(* successive calls of ReadNextChunk hand out the file as adjacent chunks, *)
(* each with the size the cutting rule gives for the position where it     *)
(* begins; an error hands out nothing and loses nothing; io.EOF comes      *)
(* after the last byte and never before.                                   *)
(*                                                                         *)
(* A reader implements it by an instance that maps size and sizeAt to the  *)
(* file it reads and the rule it follows.  Both are parameters: no action  *)
(* here changes them, and the reader's own specification keeps them fixed. *)
(***************************************************************************)
EXTENDS Integers

VARIABLES
    size,        \* bytes in the file
    sizeAt,      \* sizeAt[p]: size of the chunk that begins at position p
    handedOut,   \* bytes in the chunks returned so far
    result       \* how the last call ended: "none", "chunk", "eof", "error"

delivery == <<handedOut, result>>

Init == /\ handedOut = 0
        /\ result = "none"

\* ReadNextChunk returns the next chunk.
Deliver == /\ handedOut < size
           /\ handedOut' = handedOut + sizeAt[handedOut]
           /\ result' = "chunk"

\* ReadNextChunk returns io.EOF.
EndOfFile == /\ handedOut = size
             /\ result' = "eof"
             /\ UNCHANGED handedOut

\* ReadNextChunk returns the Peeker's error and no data.
Fail == /\ result' = "error"
        /\ UNCHANGED handedOut

Next == Deliver \/ EndOfFile \/ Fail

\* The caller keeps calling and the Peeker does not fail for ever.
Fairness == WF_delivery(Deliver \/ EndOfFile)

Safety == Init /\ [][Next]_delivery
Spec == Safety /\ Fairness
=============================================================================
