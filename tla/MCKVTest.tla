------------------------------ MODULE MCKVTest ------------------------------
(***************************************************************************)
(* An instance of KVTest for TLC.                                          *)
(***************************************************************************)
EXTENDS KVTest, SequencesExt

\* Go's zero string, and the lists that the clients can make in their iterations.
JsonValues ==
    LET n == Cardinality(Clients)
    IN  {Empty} \cup BoundedSeq([id : Clients, n : 0 .. MaxPuts * n + MaxAppends], MaxAppends * n)
=============================================================================
