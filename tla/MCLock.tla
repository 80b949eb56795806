------------------------------- MODULE MCLock -------------------------------
(***************************************************************************)
(* An instance of Lock for TLC.                                            *)
(***************************************************************************)
EXTENDS Lock

\* All objects contend for one name.
OneName == [c \in Clients |-> CHOOSE k \in Keys : TRUE]

\* What the lock's key can hold: the Id of an object, or "".
Ids == Clients \cup {Empty}
=============================================================================
