---------------------------- MODULE BlockReaders ----------------------------
(***************************************************************************)
(* The two families of readers that work on the finite blocks of           *)
(* FinitePeek, together: which of them a behavior is about is chosen at    *)
(* its start, and the other one's own variables stay as they are.          *)
(***************************************************************************)
EXTENDS AEReader

CONSTANTS RAMPeekSize, MaximumChunkSizes, RAMFiles

VARIABLES reader, maximumChunkSize

RAM == INSTANCE RAMReader WITH PeekSize <- RAMPeekSize, Files <- RAMFiles

ASSUME RAMConstants == RAMPeekSize \in Nat \ {0} /\ RAM!RAMAssumption

readers == <<vars, reader, maximumChunkSize>>

ReadersInit ==
    \/ /\ reader = "AE" /\ Init
       /\ maximumChunkSize = 0
    \/ /\ reader = "RAM" /\ RAM!Init
       /\ regionSize = 1 /\ candidateOffset = 0

ReadersNext ==
    \/ /\ reader = "AE" /\ Next
       /\ UNCHANGED <<reader, maximumChunkSize>>
    \/ /\ reader = "RAM" /\ RAM!Next
       /\ UNCHANGED <<reader, regionSize, candidateOffset>>

ReadersSpec == ReadersInit /\ [][ReadersNext]_readers

-----------------------------------------------------------------------------
\* Properties

\* The variables of either reader have their types.
ReadersTypeOK ==
    /\ reader \in {"AE", "RAM"}
    /\ reader = "AE" => TypeOK
    /\ reader = "RAM" => RAM!TypeOK

\* The chunks of either reader, over however many blocks, end where its rule
\* says, and io.EOF comes only at the end of the file.
ChunksFollowRule ==
    [][IF reader = "AE" THEN FollowsRule ELSE RAM!FollowsRule]_readers
=============================================================================
