------------------------------- MODULE MCRaft -------------------------------
(***************************************************************************)
(* Instances of Raft for TLC.                                              *)
(***************************************************************************)
EXTENDS Raft, TLC

CONSTANTS n1, n2, n3

Two       == {n1, n2}
Three     == {n1, n2, n3}

TwoLinks == Two \X Two
Apart    == (Three \X Three) \ TwoLinks    \* n1 and n2 reach n3 only

\* Numbers of n1, of n2 and of the others, for MaxElections and MaxRounds.
Each(a, b, c) == [s \in Server |-> IF s = n1 THEN a ELSE IF s = n2 THEN b ELSE c]
FirstTwice    == Each(2, 0, 0)
BothOnce      == Each(1, 1, 0)
TwiceAndOnce  == Each(2, 1, 0)
EachOnce      == Each(1, 1, 1)
EachThrice    == Each(3, 3, 3)

Rivals == Permutations(Two)
=============================================================================
