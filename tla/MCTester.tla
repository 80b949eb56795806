------------------------------ MODULE MCTester ------------------------------
(***************************************************************************)
(* An instance of Tester for TLC.                                          *)
(***************************************************************************)
EXTENDS Tester
=============================================================================
