---------------------------- MODULE MCMapReduce ----------------------------
(***************************************************************************)
(* Instances of MapReduce for TLC.                                         *)
(***************************************************************************)
EXTENDS MapReduce, TLC

CONSTANTS m1, m2, p1, p2, w1, w2, w3

\* Two input files given as m1, m2; both have keys in partition p1, only the
\* second has keys in p2.
FileOrder == <<m1, m2>>
KeysHash  == m1 :> {p1} @@ m2 :> {p1, p2}

\* How the records read back: all of them whole; a value with a space in what the
\* first file gives p1, as the file names of the indexer may have; a value with a
\* line break in what the second gives p2.
AllWhole    == [m \in MapTasks |-> [p \in Partitions |-> "whole"]]
SpaceInP1   == [AllWhole EXCEPT ![m1][p1] = "cut"]
NewlineInP2 == [AllWhole EXCEPT ![m2][p2] = "bad"]

\* One partition, for the runs with more workers.
OnePartition == m1 :> {p1} @@ m2 :> {p1}
=============================================================================
