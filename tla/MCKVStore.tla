----------------------------- MODULE MCKVStore -----------------------------
(***************************************************************************)
(* Instances of KVStore for TLC.                                           *)
(***************************************************************************)
EXTENDS KVStore, TLC

CONSTANT MaxVersion      \* the largest version a caller passes to Put

\* The versions callers pass.
Versions == 0..MaxVersion

\* Operations are interchangeable.
ClientSymmetry == Permutations(Clients)
=============================================================================
