------------------------------ MODULE MCDemux ------------------------------
(***************************************************************************)
(* An instance of Demux for TLC.                                           *)
(***************************************************************************)
EXTENDS Demux
=============================================================================
