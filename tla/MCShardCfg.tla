----------------------------- MODULE MCShardCfg -----------------------------
(***************************************************************************)
(* An instance of ShardCfg for TLC.                                        *)
(***************************************************************************)
EXTENDS ShardCfg

ThreeGroups == {1, 2, 3}
=============================================================================
