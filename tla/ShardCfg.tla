------------------------------ MODULE ShardCfg ------------------------------
(***************************************************************************)
(* The shard configuration of shardkv1/shardcfg/shardcfg.go and the        *)
(* operations that change it.                                              *)
(*                                                                         *)
(* Rebalance is a loop within a loop over Shards; a step is one turn.      *)
(* Groups maps a gid to its servers; each gid has the servers the tester   *)
(* started it with, which no other has, so it is the set of the gids here. *)
(***************************************************************************)
EXTENDS Naturals, Sequences, FiniteSets

CONSTANTS NShards,       \* the number of shards
          Gids,          \* the groups there are
          MaxOps         \* bound on the calls made on the configuration

ASSUME ShardAssumption ==
    /\ NShards \in Nat \ {0} /\ MaxOps \in Nat
    /\ Gids \subseteq Nat \ {0}

VARIABLES Num, Shards, Groups,
          pos,           \* 0 outside Rebalance, s in the turn of its first loop for
                         \* shard s, NShards + 1 in its second loop
          before,        \* history: Shards when the last Rebalance began
          settled,       \* history: a Rebalance has ended and Groups is the same
          ops            \* calls so far

vars == <<Num, Shards, Groups, pos, before, settled, ops>>

Shard == 1..NShards

\* MakeShardConfig: all shards belong to gid 0, which is no group.
Init ==
    /\ Num = 0
    /\ Shards = [s \in Shard |-> 0]
    /\ Groups = {}
    /\ pos = 0
    /\ before = Shards
    /\ settled = FALSE
    /\ ops = 0

-----------------------------------------------------------------------------
\* analyze: with the groups sorted and strict comparisons, the smallest gid of
\* those with the most, and of those with the fewest shards.

Count(g) == Cardinality({s \in Shard : Shards[s] = g})

Most(g) ==
    /\ g \in Groups
    /\ \A h \in Groups : Count(h) < Count(g) \/ (Count(h) = Count(g) /\ g <= h)

Least(g) ==
    /\ g \in Groups
    /\ \A h \in Groups : Count(g) < Count(h) \/ (Count(h) = Count(g) /\ g <= h)

\* Mutant: every second shard is left out.
TurnsByTwo(s) == s + 2

\* The turn after that for shard s.
Turns(s) == s + 1

\* Mutant: the shard is given to the least loaded group even if it has one.
AssignAnyway ==
    /\ pos \in Shard
    /\ pos' = Turns(pos)
    /\ \E lg \in Groups : Least(lg) /\ Shards' = [Shards EXCEPT ![pos] = lg]
    /\ UNCHANGED <<Num, Groups, before, settled, ops>>

\* A turn of the first loop: a shard of no group goes to the least loaded one.
Assign ==
    /\ pos \in Shard
    /\ pos' = Turns(pos)
    /\ \/ /\ Shards[pos] \in Groups
          /\ UNCHANGED Shards
       \/ /\ Shards[pos] \notin Groups
          /\ \E lg \in Groups :
                Least(lg) /\ Shards' = [Shards EXCEPT ![pos] = lg]
    /\ UNCHANGED <<Num, Groups, before, settled, ops>>

\* Mutant: the loop goes on while the two differ at all.
EvenExact(mg, lg) == Count(mg) = Count(lg)

\* Mutant: the loop stops one move too early.
EvenLoose(mg, lg) == Count(mg) < Count(lg) + 3

\* Where the second loop breaks.
Even(mg, lg) == Count(mg) < Count(lg) + 2

\* The shard the second loop moves.
FirstOf(s, mg) == Shards[s] = mg /\ \A r \in Shard : r < s => Shards[r] # mg

\* A turn of the second loop: the first shard of the fullest group moves.
Move ==
    /\ pos = NShards + 1
    /\ \E mg, lg \in Groups :
          /\ Most(mg) /\ Least(lg) /\ ~Even(mg, lg)
          /\ \E s \in Shard :
                FirstOf(s, mg) /\ Shards' = [Shards EXCEPT ![s] = lg]
    /\ UNCHANGED <<Num, Groups, pos, before, settled, ops>>

RebalanceEnds ==
    /\ pos = NShards + 1
    /\ \E mg, lg \in Groups : Most(mg) /\ Least(lg) /\ Even(mg, lg)
    /\ pos' = 0
    /\ settled' = TRUE
    /\ UNCHANGED <<Num, Shards, Groups, before, ops>>

-----------------------------------------------------------------------------
\* Rebalance of the groups gs up to its first loop.
RebalanceWith(gs) ==
    /\ before' = Shards
    /\ IF gs = {}
       THEN Shards' = [s \in Shard |-> 0] /\ pos' = 0 /\ settled' = TRUE
       ELSE UNCHANGED Shards /\ pos' = 1 /\ settled' = FALSE

Called == pos = 0 /\ ops < MaxOps /\ ops' = ops + 1

Rebalance == Called /\ RebalanceWith(Groups) /\ UNCHANGED <<Num, Groups>>

\* Join of the groups gs, which is not empty (else log.Fatalf): JoinBalance
\* rebalances after it.
Join(gs, balance) ==
    /\ Called
    /\ gs \cap Groups = {}
    /\ Groups' = Groups \cup gs
    /\ Num' = Num + 1
    /\ IF balance THEN RebalanceWith(Groups \cup gs)
       ELSE settled' = FALSE /\ UNCHANGED <<Shards, pos, before>>

\* Join returns false at the first gid that is a group already.  It ranges
\* over a Go map, and has added any of the new ones by then.
JoinRefused(gs) ==
    /\ Called
    /\ gs \cap Groups # {}
    /\ \E added \in SUBSET (gs \ Groups) :
          /\ Groups' = Groups \cup added
          /\ settled' = (settled /\ added = {})
    /\ UNCHANGED <<Num, Shards, pos, before>>

\* The gids of the sequence gids before index i, and whether index i is the
\* first that is no group when the loop of Leave gets to it.
Gone(gids, i) == {gids[j] : j \in 1..(i - 1)}
MissingAt(gids, i) ==
    /\ i \in DOMAIN gids
    /\ gids[i] \notin Groups \ Gone(gids, i)
    /\ \A j \in 1..(i - 1) : gids[j] \in Groups \ Gone(gids, j)

Leave(gids, balance) ==
    LET rest == Groups \ Gone(gids, Len(gids) + 1) IN
    /\ Called
    /\ \A i \in DOMAIN gids : ~MissingAt(gids, i)
    /\ Groups' = rest
    /\ Num' = Num + 1
    /\ IF balance THEN RebalanceWith(rest)
       ELSE settled' = FALSE /\ UNCHANGED <<Shards, pos, before>>

\* Leave returns false at the first gid that is no group, the ones before it
\* removed.
LeaveRefused(gids) ==
    /\ Called
    /\ \E i \in DOMAIN gids :
          /\ MissingAt(gids, i)
          /\ Groups' = Groups \ Gone(gids, i)
          /\ settled' = (settled /\ i = 1)
    /\ UNCHANGED <<Num, Shards, pos, before>>

Joining == SUBSET Gids \ {{}}
Leaving == {<<g>> : g \in Gids} \cup (Gids \X Gids)

Next ==
    \/ \E gs \in Joining, balance \in BOOLEAN : Join(gs, balance)
    \/ \E gs \in Joining : JoinRefused(gs)
    \/ \E gids \in Leaving, balance \in BOOLEAN : Leave(gids, balance)
    \/ \E gids \in Leaving : LeaveRefused(gids)
    \/ Rebalance
    \/ Assign \/ Move \/ RebalanceEnds

Spec == Init /\ [][Next]_vars

\* Rebalance runs to its end by itself.
FairSpec == Spec /\ WF_vars(Assign \/ Move \/ RebalanceEnds)

-----------------------------------------------------------------------------
TypeOK ==
    /\ Num \in Nat /\ ops \in 0..MaxOps
    /\ Shards \in [Shard -> Gids \cup {0}]
    /\ before \in [Shard -> Gids \cup {0}]
    /\ Groups \subseteq Gids
    /\ pos \in 0..(NShards + 1)
    /\ settled \in BOOLEAN

\* After Rebalance, and until a group joins or leaves, the configuration is
\* one CheckConfig accepts: every shard belongs to a group, and no group has two
\* shards more than another; without groups no shard belongs to any.
CheckConfig ==
    settled =>
        /\ \A s \in Shard : IF Groups = {} THEN Shards[s] = 0 ELSE Shards[s] \in Groups
        /\ \A g, h \in Groups : Count(g) <= Count(h) + 1

\* The second loop of Rebalance only ever finds shards that belong to groups:
\* otherwise the first shard of the fullest group would not be all it has to
\* move, and shards of groups that have left would stay behind.
AssignedBeforeMoving ==
    pos > 0 => /\ Groups # {}
               /\ \A s \in Shard : s < pos => Shards[s] \in Groups

\* What CheckConfig asks of an assignment, and how many shards it moves.
Acceptable(a) ==
    /\ \A s \in Shard : a[s] \in Groups
    /\ \A g, h \in Groups : Cardinality({s \in Shard : a[s] = g})
                              <= Cardinality({s \in Shard : a[s] = h}) + 1
Moved(a) == Cardinality({s \in Shard : a[s] # before[s]})

\* Rebalance moves no more shards than it must: no acceptable assignment is
\* nearer to the one it started from.
MovesAreMinimal ==
    settled /\ Groups # {} =>
        \A a \in [Shard -> Groups] : Acceptable(a) => Moved(Shards) <= Moved(a)

\* The loops of Rebalance end.
RebalanceReturns == (pos > 0) ~> (pos = 0)
=============================================================================
