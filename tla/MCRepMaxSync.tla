----------------------------- MODULE MCRepMaxSync -----------------------------
(***************************************************************************)
(* A small instance of RepMaxSync for TLC.                                 *)
(***************************************************************************)
EXTENDS RepMaxSync

\* Files of 10 bytes with every choice of scores but for the first and the last two
\* points.  With 9 bytes a horizon that is one byte too short does no harm.
SyncFiles ==
    {[size |-> 10,
      score |-> [p \in Window .. 10 |-> IF p \in DOMAIN s THEN s[p] ELSE 0]] :
        s \in [(Window + 1) .. 8 -> 0 .. MaxHash]}
===============================================================================
