--------------------------- MODULE ShardCfgProofs ---------------------------
(***************************************************************************)
(* Rebalance leaves a configuration CheckConfig accepts, for every number  *)
(* of shards and groups and every history of Joins and Leaves.             *)
(***************************************************************************)
EXTENDS ShardCfg, FiniteSetTheorems, TLAPS

\* A count of shards is a natural number.
LEMMA CountType == \A g : Count(g) \in Nat
<1> TAKE g
<1>1. IsFiniteSet(Shard)
  BY FS_Interval, ShardAssumption DEF Shard
<1>2. IsFiniteSet({s \in Shard : Shards[s] = g})
  BY <1>1, FS_Subset
<1> QED
  BY <1>2, FS_CardinalityType DEF Count

\* Where the second loop breaks, no two groups differ by two: every group has
\* at most as many shards as the fullest, and at least as many as the emptiest.
LEMMA EvenBalances ==
    ASSUME NEW mg \in Groups, NEW lg \in Groups, Most(mg), Least(lg), Even(mg, lg)
    PROVE  \A g, h \in Groups : Count(g) <= Count(h) + 1
<1> TAKE g, h \in Groups
<1>1. Count(g) <= Count(mg)
  BY CountType DEF Most
<1>2. Count(lg) <= Count(h)
  BY CountType DEF Least
<1>3. Count(mg) < Count(lg) + 2
  BY DEF Even
<1>4. Count(g) \in Nat /\ Count(h) \in Nat /\ Count(mg) \in Nat /\ Count(lg) \in Nat
  BY CountType
<1> QED
  BY <1>1, <1>2, <1>3, <1>4

\* The inductive invariant: settled is only claimed outside Rebalance, and in
\* it the shards the first loop has passed belong to groups.
IInv ==
    /\ TypeOK
    /\ CheckConfig
    /\ AssignedBeforeMoving
    /\ settled => pos = 0

\* The empty configuration satisfies the invariant.
LEMMA InitIInv == Init => IInv
<1> SUFFICES ASSUME Init PROVE IInv
  OBVIOUS
<1> USE ShardAssumption DEF Init
<1>1. Shards \in [Shard -> Gids \cup {0}] /\ before = Shards
  OBVIOUS
<1>2. TypeOK
  <2>1. Num \in Nat /\ ops \in 0..MaxOps /\ pos \in 0..(NShards + 1)
    OBVIOUS
  <2>2. Groups \subseteq Gids /\ settled \in BOOLEAN
    OBVIOUS
  <2> QED
    BY <1>1, <2>1, <2>2 DEF TypeOK
<1>3. CheckConfig /\ (settled => pos = 0)
  BY DEF CheckConfig
<1>4. AssignedBeforeMoving
  BY DEF AssignedBeforeMoving
<1> QED
  BY <1>2, <1>3, <1>4 DEF IInv

\* The beginning of Rebalance keeps it, whatever groups gs there are from now.
LEMMA RebalanceWithIInv ==
    ASSUME IInv, NEW gs \in SUBSET Gids, RebalanceWith(gs), Groups' = gs,
           Num' \in Nat, Called
    PROVE  IInv'
<1> USE ShardAssumption
<1>1. TypeOK'
  <2>1. Shards' \in [Shard -> Gids \cup {0}] /\ before' \in [Shard -> Gids \cup {0}]
    BY DEF IInv, TypeOK, RebalanceWith
  <2>2. pos' \in 0..(NShards + 1)
    BY DEF RebalanceWith
  <2>3. settled' \in BOOLEAN
    BY DEF RebalanceWith
  <2>4. ops' \in 0..MaxOps
    BY DEF IInv, TypeOK, Called
  <2> QED
    BY <2>1, <2>2, <2>3, <2>4 DEF TypeOK
<1>2. CheckConfig'
  BY DEF CheckConfig, RebalanceWith
<1>3. AssignedBeforeMoving' /\ (settled' => pos' = 0)
  BY DEF AssignedBeforeMoving, RebalanceWith, Shard
<1> QED
  BY <1>1, <1>2, <1>3 DEF IInv

\* A call that does not rebalance keeps it: settled is given up as soon as
\* Groups changes.
LEMMA NoRebalanceIInv ==
    ASSUME IInv, Called, Num' \in Nat, Groups' \in SUBSET Gids,
           settled' \in BOOLEAN, settled' => settled /\ Groups' = Groups,
           UNCHANGED <<Shards, pos, before>>
    PROVE  IInv'
<1> USE ShardAssumption
<1>1. TypeOK'
  BY DEF IInv, TypeOK, Called
<1>2. CheckConfig'
  BY DEF IInv, CheckConfig, Count
<1>3. AssignedBeforeMoving' /\ (settled' => pos' = 0)
  BY DEF AssignedBeforeMoving, Called
<1> QED
  BY <1>1, <1>2, <1>3 DEF IInv

\* Every step keeps the invariant: one case per operation.
LEMMA NextIInv == IInv /\ [Next]_vars => IInv'
<1> SUFFICES ASSUME IInv, [Next]_vars PROVE IInv'
  OBVIOUS
<1> USE ShardAssumption
<1>1. ASSUME NEW gs \in Joining, NEW balance \in BOOLEAN, Join(gs, balance)
      PROVE  IInv'
  <2>1. Groups \cup gs \in SUBSET Gids /\ Num' \in Nat /\ Called
    BY <1>1 DEF IInv, TypeOK, Join, Joining
  <2>2. CASE balance
    BY <1>1, <2>1, <2>2, RebalanceWithIInv DEF Join
  <2>3. CASE ~balance
    BY <1>1, <2>1, <2>3, NoRebalanceIInv DEF Join
  <2> QED
    BY <2>2, <2>3
<1>2. ASSUME NEW gs \in Joining, JoinRefused(gs)
      PROVE  IInv'
  <2>1. PICK added \in SUBSET (gs \ Groups) :
            Groups' = Groups \cup added /\ settled' = (settled /\ added = {})
    BY <1>2 DEF JoinRefused
  <2>2. Groups' \in SUBSET Gids /\ Num' \in Nat /\ settled' \in BOOLEAN /\ Called
    BY <1>2, <2>1 DEF JoinRefused, IInv, TypeOK, Joining
  <2>3. settled' => settled /\ Groups' = Groups
    BY <2>1
  <2> QED
    BY <1>2, <2>2, <2>3, NoRebalanceIInv DEF JoinRefused
<1>3. ASSUME NEW gids \in Leaving, NEW balance \in BOOLEAN, Leave(gids, balance)
      PROVE  IInv'
  <2> DEFINE rest == Groups \ Gone(gids, Len(gids) + 1)
  <2>0. Called /\ Groups' = rest /\ Num' = Num + 1
    BY <1>3 DEF Leave
  <2>1. rest \in SUBSET Gids /\ Num' \in Nat
    <3>1. Groups \subseteq Gids /\ Num \in Nat
      BY DEF IInv, TypeOK
    <3>2. Num' \in Nat
      BY <2>0, <3>1
    <3>3. rest \in SUBSET Gids
      BY <3>1, Zenon
    <3> QED
      BY <3>2, <3>3
  <2>2. CASE balance
    <3>1. RebalanceWith(rest)
      BY <1>3, <2>2 DEF Leave
    <3> QED
      BY <2>0, <2>1, <3>1, RebalanceWithIInv
  <2>3. CASE ~balance
    <3>1. settled' = FALSE /\ UNCHANGED <<Shards, pos, before>>
      BY <1>3, <2>3 DEF Leave
    <3> QED
      BY <2>0, <2>1, <3>1, NoRebalanceIInv
  <2> QED
    BY <2>2, <2>3
<1>4. ASSUME NEW gids \in Leaving, LeaveRefused(gids)
      PROVE  IInv'
  <2>1. PICK i \in DOMAIN gids :
            Groups' = Groups \ Gone(gids, i) /\ settled' = (settled /\ i = 1)
    BY <1>4 DEF LeaveRefused
  <2>2. Groups' \in SUBSET Gids /\ Num' \in Nat /\ settled' \in BOOLEAN /\ Called
    BY <1>4, <2>1 DEF LeaveRefused, IInv, TypeOK
  <2>3. settled' => settled /\ Groups' = Groups
    <3>1. i = 1 => Gone(gids, i) = {}
      BY DEF Gone
    <3> QED
      BY <2>1, <3>1
  <2> QED
    BY <1>4, <2>2, <2>3, NoRebalanceIInv DEF LeaveRefused
<1>5. CASE Rebalance
  <2>1. Groups \in SUBSET Gids /\ Num' \in Nat /\ Called /\ Groups' = Groups
    BY <1>5 DEF Rebalance, IInv, TypeOK
  <2> QED
    BY <1>5, <2>1, RebalanceWithIInv DEF Rebalance
<1>6. CASE Assign
  <2>1. TypeOK'
    BY <1>6 DEF Assign, Turns, IInv, TypeOK, Shard
  <2>2. ~settled'
    BY <1>6 DEF Assign, IInv, Shard
  <2>3. AssignedBeforeMoving'
    BY <1>6 DEF Assign, Turns, IInv, TypeOK, AssignedBeforeMoving, Shard
  <2> QED
    BY <2>1, <2>2, <2>3 DEF IInv, CheckConfig
<1>7. CASE Move
  <2>1. TypeOK'
    BY <1>7 DEF Move, IInv, TypeOK
  <2>2. ~settled'
    BY <1>7 DEF Move, IInv
  <2>3. AssignedBeforeMoving'
    BY <1>7 DEF Move, IInv, TypeOK, AssignedBeforeMoving
  <2> QED
    BY <2>1, <2>2, <2>3 DEF IInv, CheckConfig
<1>8. CASE RebalanceEnds
  <2>1. TypeOK' /\ AssignedBeforeMoving' /\ (settled' => pos' = 0)
    BY <1>8 DEF RebalanceEnds, IInv, TypeOK, AssignedBeforeMoving
  <2>2. \A g, h \in Groups : Count(g) <= Count(h) + 1
    BY <1>8, EvenBalances DEF RebalanceEnds
  <2>3. Groups # {} /\ \A s \in Shard : Shards[s] \in Groups
    BY <1>8 DEF RebalanceEnds, IInv, AssignedBeforeMoving, Shard
  <2>4. CheckConfig'
    BY <1>8, <2>2, <2>3 DEF RebalanceEnds, CheckConfig, Count
  <2> QED
    BY <2>1, <2>4 DEF IInv
<1>9. CASE UNCHANGED vars
  BY <1>9 DEF vars, IInv, TypeOK, CheckConfig, AssignedBeforeMoving, Count
<1> QED
  BY <1>1, <1>2, <1>3, <1>4, <1>5, <1>6, <1>7, <1>8, <1>9 DEF Next

-----------------------------------------------------------------------------
\* Finite sets whose parts compare as the parts of another do.

\* What f sorts into g of X.
Part(X, f, g) == {x \in X : f[x] = g}

\* A set that is not larger than another has an injection into it.
LEMMA SmallerInjects ==
    ASSUME NEW S, NEW T, IsFiniteSet(S), IsFiniteSet(T), Cardinality(S) <= Cardinality(T)
    PROVE  Injection(S, T) # {}
<1>1. /\ Cardinality(S) \in Nat /\ ExistsBijection(1..Cardinality(S), S)
      /\ Cardinality(T) \in Nat /\ ExistsBijection(1..Cardinality(T), T)
  BY FS_CardinalityType
<1>2. PICK f \in Bijection(1..Cardinality(S), S) : TRUE
  BY <1>1 DEF ExistsBijection
<1>3. PICK h \in Bijection(1..Cardinality(T), T) : TRUE
  BY <1>1 DEF ExistsBijection
<1> DEFINE Nr(x) == CHOOSE n \in 1..Cardinality(S) : f[n] = x
           j == [x \in S |-> h[Nr(x)]]
<1>4. \A x \in S : Nr(x) \in 1..Cardinality(S) /\ f[Nr(x)] = x
  BY <1>2 DEF Bijection, Surjection
<1>5. \A x \in S : Nr(x) \in 1..Cardinality(T)
  BY <1>1, <1>4
<1> HIDE DEF Nr
<1>6. j \in [S -> T]
  BY <1>3, <1>5 DEF Bijection, Injection
<1>7. \A x, y \in S : j[x] = j[y] => x = y
  BY <1>3, <1>4, <1>5 DEF Bijection, Injection, IsInjective
<1>8. j \in Injection(S, T)
  BY <1>6, <1>7 DEF Injection, IsInjective
<1> QED BY <1>8

\* If f and h sort X and Y into parts and no part of X is larger than that of Y,
\* then neither is X.
LEMMA Glue ==
    ASSUME NEW X, NEW Y, IsFiniteSet(X), IsFiniteSet(Y), NEW G,
           NEW f \in [X -> G], NEW h \in [Y -> G],
           \A g \in G : Cardinality(Part(X, f, g)) <= Cardinality(Part(Y, h, g))
    PROVE  Cardinality(X) <= Cardinality(Y)
<1> DEFINE P(g) == Part(X, f, g)
           Q(g) == Part(Y, h, g)
           J == [g \in G |-> CHOOSE j \in Injection(P(g), Q(g)) : TRUE]
           F == [x \in X |-> J[f[x]][x]]
<1>1. ASSUME NEW g \in G PROVE J[g] \in Injection(P(g), Q(g))
  <2>1. IsFiniteSet(P(g)) /\ IsFiniteSet(Q(g))
    BY FS_Subset DEF Part
  <2>2. Injection(P(g), Q(g)) # {}
    BY <2>1, SmallerInjects
  <2> QED BY <2>2
<1> HIDE DEF J
<1>2. ASSUME NEW x \in X PROVE F[x] \in Y /\ h[F[x]] = f[x]
  <2>1. f[x] \in G /\ x \in P(f[x])
    BY DEF Part
  <2>2. J[f[x]] \in [P(f[x]) -> Q(f[x])]
    BY <1>1, <2>1 DEF Injection
  <2> QED BY <2>1, <2>2 DEF Part
<1>3. ASSUME NEW x \in X, NEW y \in X, F[x] = F[y] PROVE x = y
  <2>1. f[x] = f[y] /\ f[x] \in G
    BY <1>2, <1>3
  <2>2. x \in P(f[x]) /\ y \in P(f[x]) /\ J[f[x]][x] = J[f[x]][y]
    BY <1>3, <2>1 DEF Part
  <2> QED BY <1>1, <2>1, <2>2 DEF Injection, IsInjective
<1>4. F \in Injection(X, Y)
  BY <1>2, <1>3 DEF Injection, IsInjective
<1> QED BY <1>4, FS_Injection

-----------------------------------------------------------------------------
\* Why no acceptable assignment is nearer than one that took shards from full
\* groups and gave them to empty ones only.

\* The shards of g under an assignment f, and the groups that f has taken shards
\* from or given shards to.
Held(f, g)   == Part(Shard, f, g)
Size(f, g)   == Cardinality(Held(f, g))
Lost(f, g)   == \E s \in Shard : before[s] = g /\ f[s] # g
Gained(f, g) == \E s \in Shard : f[s] = g /\ before[s] # g

LEMMA ShardFinite == IsFiniteSet(Shard) /\ Cardinality(Shard) \in Nat
  BY FS_Interval, FS_CardinalityType, ShardAssumption DEF Shard

LEMMA SizeType == \A f, g : IsFiniteSet(Held(f, g)) /\ Size(f, g) \in Nat
<1> TAKE f, g
<1>1. Held(f, g) \in SUBSET Shard
  BY DEF Held, Part
<1> QED BY <1>1, ShardFinite, FS_Subset, FS_CardinalityType DEF Size

\* Two assignments of the same shards cannot differ in one direction only.
LEMMA SameTotal ==
    ASSUME NEW f \in [Shard -> Groups], NEW a \in [Shard -> Groups],
           \A h \in Groups : Size(f, h) <= Size(a, h), NEW g \in Groups
    PROVE  Size(a, g) <= Size(f, g)
<1> SUFFICES ASSUME ~(Size(a, g) <= Size(f, g)) PROVE FALSE
  OBVIOUS
<1>1. Size(f, g) \in Nat /\ Size(a, g) \in Nat /\ IsFiniteSet(Held(a, g))
  BY SizeType
<1>2. PICK s0 \in Shard : a[s0] = g
  <2>1. Held(a, g) # {}
    BY <1>1, FS_EmptySet DEF Size
  <2> QED BY <2>1 DEF Held, Part
<1> DEFINE Y == Shard \ {s0}
           h == [s \in Y |-> a[s]]
<1>3. IsFiniteSet(Y) /\ Cardinality(Y) = Cardinality(Shard) - 1
  BY ShardFinite, FS_RemoveElement
<1>4. h \in [Y -> Groups]
  OBVIOUS
<1>5. ASSUME NEW k \in Groups
      PROVE  Cardinality(Part(Shard, f, k)) <= Cardinality(Part(Y, h, k))
  <2>1. CASE k # g
    <3>1. Part(Y, h, k) = Held(a, k)
      BY <1>2, <2>1 DEF Held, Part
    <3> QED BY <3>1 DEF Size, Held
  <2>2. CASE k = g
    <3>1. Part(Y, h, k) = Held(a, g) \ {s0} /\ s0 \in Held(a, g)
      BY <1>2, <2>2 DEF Held, Part
    <3>2. Cardinality(Part(Y, h, k)) = Size(a, g) - 1
      BY <1>1, <3>1, FS_RemoveElement DEF Size
    <3> QED BY <1>1, <2>2, <3>2 DEF Size, Held
  <2> QED BY <2>1, <2>2
<1> HIDE DEF Y, h
<1>6. Cardinality(Shard) <= Cardinality(Y)
  BY <1>3, <1>4, <1>5, ShardFinite, Glue
<1> QED BY <1>3, <1>6, ShardFinite

\* What CheckConfig accepts is even.
LEMMA AcceptableEven ==
    ASSUME NEW a \in [Shard -> Groups], Acceptable(a), NEW g \in Groups, NEW h \in Groups
    PROVE  Size(a, g) <= Size(a, h) + 1
  BY DEF Acceptable, Size, Held, Part

\* No acceptable assignment has a fuller group than the fullest of another, nor
\* an emptier one than its emptiest.
LEMMA SameExtremes ==
    ASSUME NEW f \in [Shard -> Groups], NEW a \in [Shard -> Groups],
           Acceptable(a), NEW g \in Groups, NEW h \in Groups
    PROVE  /\ (\A k \in Groups : Size(f, k) <= Size(f, g)) => Size(a, h) <= Size(f, g)
           /\ (\A k \in Groups : Size(f, g) <= Size(f, k)) => Size(f, g) <= Size(a, h)
<1>0. \A k \in Groups : /\ Size(f, k) \in Nat /\ Size(a, k) \in Nat
                        /\ Size(a, h) <= Size(a, k) + 1 /\ Size(a, k) <= Size(a, h) + 1
  BY SizeType, AcceptableEven
<1>1. ASSUME \A k \in Groups : Size(f, k) <= Size(f, g), ~(Size(a, h) <= Size(f, g))
      PROVE  FALSE
  <2>1. \A k \in Groups : Size(f, k) <= Size(a, k)
    BY <1>0, <1>1
  <2>2. Size(a, h) <= Size(f, h)
    BY <2>1, SameTotal
  <2> QED BY <1>0, <1>1, <2>2
<1>2. ASSUME \A k \in Groups : Size(f, g) <= Size(f, k), ~(Size(f, g) <= Size(a, h))
      PROVE  FALSE
  <2>1. \A k \in Groups : Size(a, k) <= Size(f, k)
    BY <1>0, <1>2
  <2>2. Size(f, h) <= Size(a, h)
    BY <2>1, SameTotal
  <2> QED BY <1>0, <1>2, <2>2
<1> QED BY <1>1, <1>2

\* Subtracting a part of a set, and any set.
LEMMA Minus ==
    ASSUME NEW S, NEW T, NEW U, IsFiniteSet(S), IsFiniteSet(T), IsFiniteSet(U),
           T \subseteq S, Cardinality(U) <= Cardinality(T)
    PROVE  Cardinality(S \ T) <= Cardinality(S \ U)
<1>1. /\ Cardinality(S \ T) = Cardinality(S) - Cardinality(S \cap T)
      /\ Cardinality(S \ U) = Cardinality(S) - Cardinality(S \cap U)
  BY FS_Difference
<1>2. S \cap T = T /\ Cardinality(S \cap U) <= Cardinality(U)
      /\ IsFiniteSet(S \cap U)
  BY FS_Intersection
<1>3. /\ Cardinality(S) \in Nat /\ Cardinality(T) \in Nat /\ Cardinality(U) \in Nat
      /\ Cardinality(S \cap U) \in Nat
  BY <1>2, FS_CardinalityType
<1>4. Cardinality(S \cap T) = Cardinality(T)
  BY <1>2
<1> QED BY <1>1, <1>2, <1>3, <1>4

LEMMA MinusFrom ==
    ASSUME NEW S, NEW T, NEW U, IsFiniteSet(S), IsFiniteSet(T), IsFiniteSet(U),
           U \subseteq S, Cardinality(S) <= Cardinality(T)
    PROVE  Cardinality(S \ U) <= Cardinality(T \ U)
<1>1. /\ Cardinality(S \ U) = Cardinality(S) - Cardinality(S \cap U)
      /\ Cardinality(T \ U) = Cardinality(T) - Cardinality(T \cap U)
  BY FS_Difference
<1>2. S \cap U = U /\ Cardinality(T \cap U) <= Cardinality(U)
      /\ IsFiniteSet(T \cap U)
  BY FS_Intersection
<1>3. /\ Cardinality(S) \in Nat /\ Cardinality(T) \in Nat /\ Cardinality(U) \in Nat
      /\ Cardinality(T \cap U) \in Nat
  BY <1>2, FS_CardinalityType
<1>4. Cardinality(S \cap U) = Cardinality(U)
  BY <1>2
<1> QED BY <1>1, <1>2, <1>3, <1>4

Differ(f) == {s \in Shard : f[s] # before[s]}

\* The shards that are moved are counted by the groups they leave, where those
\* end as full as any, and by the groups they come to, where those end as empty.
LEMMA NoneNearer ==
    ASSUME NEW f \in [Shard -> Groups], NEW a \in [Shard -> Groups], Acceptable(a),
           before \in [Shard -> Gids \cup {0}], Groups \subseteq Gids,
           \A g, h \in Groups : Size(f, g) <= Size(f, h) + 1,
           \A g \in Groups : ~(Lost(f, g) /\ Gained(f, g)),
           \A g, h \in Groups : Lost(f, g) /\ Gained(f, h) => Size(f, h) <= Size(f, g)
    PROVE  Cardinality(Differ(f)) <= Cardinality(Differ(a))
<1>1. \A g : /\ Size(f, g) \in Nat /\ Size(a, g) \in Nat
             /\ IsFiniteSet(Held(f, g)) /\ IsFiniteSet(Held(a, g))
             /\ IsFiniteSet(Held(before, g))
  BY SizeType
<1>2. IsFiniteSet(Differ(f)) /\ IsFiniteSet(Differ(a))
  BY ShardFinite, FS_Subset DEF Differ
<1>3. CASE \A g \in Groups : Lost(f, g) => \A h \in Groups : Size(f, h) <= Size(f, g)
  <2> DEFINE G  == Gids \cup {0}
             bf == [s \in Differ(f) |-> before[s]]
             ba == [s \in Differ(a) |-> before[s]]
  <2>1. bf \in [Differ(f) -> G] /\ ba \in [Differ(a) -> G]
    BY DEF Differ
  <2>2. ASSUME NEW g \in G
        PROVE  Cardinality(Part(Differ(f), bf, g)) <= Cardinality(Part(Differ(a), ba, g))
    <3>1. /\ Part(Differ(f), bf, g) = Held(before, g) \ Held(f, g)
          /\ Part(Differ(a), ba, g) = Held(before, g) \ Held(a, g)
      BY DEF Part, Held, Differ
    <3>2. CASE g \notin Groups
      <4>1. Held(f, g) = {} /\ Held(a, g) = {}
        BY <3>2 DEF Held, Part
      <4>2. Held(before, g) \ Held(f, g) = Held(before, g) \ Held(a, g)
        BY <4>1
      <4>3. Cardinality(Held(before, g) \ Held(f, g)) \in Nat
        BY <1>1, FS_Difference, FS_CardinalityType
      <4> QED BY <3>1, <4>2, <4>3
    <3>3. CASE g \in Groups /\ ~Lost(f, g)
      <4>1. Held(before, g) \ Held(f, g) = {}
        BY <3>3 DEF Held, Part, Lost
      <4>2. Cardinality(Held(before, g) \ Held(a, g)) \in Nat
        BY <1>1, FS_Difference, FS_CardinalityType
      <4>3. Cardinality(Held(before, g) \ Held(f, g)) = 0
        BY <4>1, FS_EmptySet
      <4>4. /\ Cardinality(Part(Differ(f), bf, g)) = 0
            /\ Cardinality(Part(Differ(a), ba, g)) \in Nat
        BY <3>1, <4>2, <4>3, Zenon
      <4> QED BY <4>4
    <3>4. CASE g \in Groups /\ Lost(f, g)
      <4>1. Held(f, g) \subseteq Held(before, g)
        BY <3>4 DEF Gained, Held, Part
      <4>2. Cardinality(Held(a, g)) <= Cardinality(Held(f, g))
        BY <1>3, <3>4, SameExtremes DEF Size
      <4> QED BY <1>1, <3>1, <4>1, <4>2, Minus
    <3> QED BY <3>2, <3>3, <3>4
  <2> HIDE DEF G, bf, ba
  <2> QED BY <1>2, <2>1, <2>2, Glue
<1>4. ASSUME NEW g \in Groups, Lost(f, g), NEW k \in Groups, ~(Size(f, k) <= Size(f, g))
      PROVE  Cardinality(Differ(f)) <= Cardinality(Differ(a))
  <2> DEFINE tf == [s \in Differ(f) |-> f[s]]
             ta == [s \in Differ(a) |-> a[s]]
  <2>1. tf \in [Differ(f) -> Groups] /\ ta \in [Differ(a) -> Groups]
    BY DEF Differ
  <2>2. \A h \in Groups : Size(f, g) <= Size(f, h)
    BY <1>1, <1>4
  <2>3. ASSUME NEW h \in Groups
        PROVE  Cardinality(Part(Differ(f), tf, h)) <= Cardinality(Part(Differ(a), ta, h))
    <3>1. /\ Part(Differ(f), tf, h) = Held(f, h) \ Held(before, h)
          /\ Part(Differ(a), ta, h) = Held(a, h) \ Held(before, h)
      BY DEF Part, Held, Differ
    <3>2. CASE ~Gained(f, h)
      <4>1. Held(f, h) \ Held(before, h) = {}
        BY <3>2 DEF Held, Part, Gained
      <4>2. Cardinality(Held(a, h) \ Held(before, h)) \in Nat
        BY <1>1, FS_Difference, FS_CardinalityType
      <4>3. Cardinality(Held(f, h) \ Held(before, h)) = 0
        BY <4>1, FS_EmptySet
      <4>4. /\ Cardinality(Part(Differ(f), tf, h)) = 0
            /\ Cardinality(Part(Differ(a), ta, h)) \in Nat
        BY <3>1, <4>2, <4>3, Zenon
      <4> QED BY <4>4
    <3>3. CASE Gained(f, h)
      <4>1. Held(before, h) \subseteq Held(f, h)
        BY <3>3 DEF Lost, Held, Part
      <4>2. Size(f, h) <= Size(f, g) /\ Size(f, g) <= Size(a, h)
        BY <1>4, <2>2, <3>3, SameExtremes
      <4>3. Cardinality(Held(f, h)) <= Cardinality(Held(a, h))
        BY <1>1, <4>2 DEF Size
      <4> QED BY <1>1, <3>1, <4>1, <4>3, MinusFrom
    <3> QED BY <3>2, <3>3
  <2> HIDE DEF tf, ta
  <2> QED BY <1>2, <2>1, <2>3, Glue
<1> QED BY <1>3, <1>4

-----------------------------------------------------------------------------
\* How Rebalance brings this about.

\* As long as the first loop runs no group has lost a shard, and only groups
\* with the fewest shards are given any.  A group that was given one has at most
\* one more than any other ever after, so that the second loop does not take from
\* it; and a group from which one was taken has at most one less than any other,
\* so that it is not given one again.
Sparing ==
    pos > 0 \/ settled =>
        /\ pos \in Shard => \A g \in Groups : ~Lost(Shards, g)
        /\ pos \in Shard => \A s \in Shard : s >= pos => Shards[s] = before[s]
        /\ \A g, h \in Groups : Gained(Shards, g) => Count(g) <= Count(h) + 1
        /\ \A g, h \in Groups : Lost(Shards, g) => Count(h) <= Count(g) + 1
        /\ \A g \in Groups : ~(Lost(Shards, g) /\ Gained(Shards, g))
        /\ \A g, h \in Groups : Lost(Shards, g) /\ Gained(Shards, h) => Count(h) <= Count(g)

\* Giving shard s to g moves one from the count of its group to that of g.
LEMMA CountShift ==
    ASSUME TypeOK, NEW s \in Shard, NEW g \in Gids \cup {0}, NEW m \in Gids \cup {0},
           Shards[s] = m, m # g,
           Shards' = [Shards EXCEPT ![s] = g]
    PROVE  /\ Count(g)' = Count(g) + 1
           /\ Count(m)' = Count(m) - 1
           /\ \A h \in Groups : h # g /\ h # m => Count(h)' = Count(h)
<1>1. \A h : Count(h) = Cardinality(Held(Shards, h)) /\ Count(h)' = Cardinality(Held(Shards', h))
  BY DEF Count, Held, Part
<1>2. \A h : IsFiniteSet(Held(Shards, h))
  BY SizeType
<1>3. Held(Shards', g) = Held(Shards, g) \cup {s} /\ s \notin Held(Shards, g)
  BY DEF Held, Part, TypeOK
<1>4. Held(Shards', m) = Held(Shards, m) \ {s} /\ s \in Held(Shards, m)
  BY DEF Held, Part, TypeOK
<1>5. ASSUME NEW h, h # g, h # m PROVE Held(Shards', h) = Held(Shards, h)
  BY <1>5 DEF Held, Part, TypeOK
<1>6. Count(g)' = Count(g) + 1
  BY <1>1, <1>2, <1>3, FS_AddElement
<1>7. Count(m)' = Count(m) - 1
  BY <1>1, <1>2, <1>4, FS_RemoveElement
<1>8. \A h \in Groups : h # g /\ h # m => Count(h)' = Count(h)
  BY <1>1, <1>5
<1> QED BY <1>6, <1>7, <1>8

\* Sparing says nothing new where a configuration is left alone.
LEMMA SparingUnchanged ==
    ASSUME Sparing, UNCHANGED <<Shards, before>>,
           pos' > 0 \/ settled' => (pos > 0 \/ settled) /\ Groups' = Groups,
           pos' \in Shard => pos \in Shard /\ pos <= pos'
    PROVE  Sparing'
  BY ShardAssumption DEF Sparing, Lost, Gained, Count, Shard

\* Rebalance starts from what there is.
LEMMA SparingStarts ==
    ASSUME IInv, NEW gs \in SUBSET Gids, RebalanceWith(gs), Groups' = gs
    PROVE  Sparing'
<1>1. CASE gs = {}
  BY <1>1, ShardAssumption DEF RebalanceWith, Sparing, Shard
<1>2. CASE gs # {}
  <2>1. Shards' = before' /\ pos' = 1
    BY <1>2 DEF RebalanceWith
  <2>2. \A g : ~Lost(Shards, g)' /\ ~Gained(Shards, g)'
    BY <2>1 DEF Lost, Gained
  <2> QED BY <2>1, <2>2 DEF Sparing
<1> QED BY <1>1, <1>2

\* The first loop gives a shard of no group to the group with the fewest.
LEMMA SparingAssign ==
    ASSUME IInv, Sparing, Assign
    PROVE  Sparing'
<1> USE ShardAssumption
<1>1. pos \in Shard /\ pos' = pos + 1 /\ pos > 0 /\ UNCHANGED <<Groups, before, settled>>
  BY DEF Assign, Turns, Shard
<1>2. CASE UNCHANGED Shards
  BY <1>1, <1>2, SparingUnchanged DEF Shard
<1>3. ASSUME Shards[pos] \notin Groups, NEW lg \in Groups, Least(lg),
             Shards' = [Shards EXCEPT ![pos] = lg]
      PROVE  Sparing'
  <2>1. PICK m : m = Shards[pos]
    OBVIOUS
  <2>2. /\ TypeOK /\ m # lg /\ m \notin Groups /\ before[pos] = m
        /\ m \in Gids \cup {0} /\ lg \in Gids \cup {0}
    BY <1>1, <1>3, <2>1 DEF IInv, Sparing, Shard, TypeOK
  <2>3. /\ Count(lg)' = Count(lg) + 1
        /\ \A h \in Groups : h # lg => Count(h)' = Count(h)
    <3>1. PICK p \in Shard : p = pos
      BY <1>1
    <3>2. Shards[p] = m /\ Shards' = [Shards EXCEPT ![p] = lg]
      BY <1>3, <2>1, <3>1
    <3>3. /\ Count(lg)' = Count(lg) + 1
          /\ \A h \in Groups : h # lg /\ h # m => Count(h)' = Count(h)
      BY <2>2, <3>2, CountShift
    <3> QED BY <2>2, <3>3
  <2>4. \A h : Count(h) \in Nat
    BY CountType
  <2>5. \A h \in Groups : Count(lg) <= Count(h)
    BY <1>3, <2>4 DEF Least
  <2>6. \A g \in Groups : ~Lost(Shards, g)'
    BY <1>1, <1>3, <2>2 DEF Sparing, Lost, TypeOK
  <2>7. \A s \in Shard : s >= pos' => Shards'[s] = before'[s]
    BY <1>1, <1>3, <2>2 DEF Sparing, Shard, TypeOK
  <2>8. \A g \in Groups : g # lg /\ Gained(Shards, g)' => Gained(Shards, g)
    BY <1>1, <1>3, <2>2 DEF Gained, TypeOK
  <2>9. ASSUME NEW g \in Groups, NEW h \in Groups, Gained(Shards, g)'
        PROVE  Count(g)' <= Count(h)' + 1
    <3>1. g # lg => Count(g) <= Count(h) + 1
      BY <1>1, <2>8, <2>9 DEF Sparing
    <3> QED BY <2>3, <2>4, <2>5, <3>1
  <2> QED BY <1>1, <2>6, <2>7, <2>9 DEF Sparing
<1> QED BY <1>2, <1>3 DEF Assign

\* The second loop takes from a group that has two more than another.
LEMMA SparingMove ==
    ASSUME IInv, Sparing, Move
    PROVE  Sparing'
<1> USE ShardAssumption
<1>1. PICK mg \in Groups, lg \in Groups, s \in Shard :
          /\ Most(mg) /\ Least(lg) /\ ~Even(mg, lg)
          /\ FirstOf(s, mg) /\ Shards' = [Shards EXCEPT ![s] = lg]
  BY DEF Move
<1>2. pos = NShards + 1 /\ UNCHANGED <<Groups, before, settled, pos>> /\ pos > 0 /\ pos \notin Shard
  BY DEF Move, Shard
<1>3. \A h : Count(h) \in Nat
  BY CountType
<1>4. /\ \A h \in Groups : Count(lg) <= Count(h) /\ Count(h) <= Count(mg)
      /\ Count(mg) >= Count(lg) + 2
  BY <1>1, <1>3 DEF Most, Least, Even
<1>5. /\ mg # lg /\ Shards[s] = mg /\ TypeOK
      /\ mg \in Gids \cup {0} /\ lg \in Gids \cup {0}
  BY <1>1, <1>3, <1>4 DEF FirstOf, IInv, TypeOK
<1>6. /\ Count(lg)' = Count(lg) + 1 /\ Count(mg)' = Count(mg) - 1
      /\ \A h \in Groups : h # lg /\ h # mg => Count(h)' = Count(h)
  BY <1>1, <1>5, CountShift
<1>7. ~Gained(Shards, mg) /\ ~Lost(Shards, lg)
  BY <1>2, <1>3, <1>4 DEF Sparing
<1>8. before[s] = mg
  BY <1>5, <1>7 DEF Gained
<1>9. ASSUME NEW g \in Groups
      PROVE  /\ Lost(Shards, g)' => g = mg \/ Lost(Shards, g)
             /\ Gained(Shards, g)' => g = lg \/ Gained(Shards, g)
             /\ ~Gained(Shards, mg)' /\ ~Lost(Shards, lg)'
  BY <1>1, <1>2, <1>5, <1>7, <1>8 DEF Lost, Gained, TypeOK
<1>10. ASSUME NEW g \in Groups, NEW h \in Groups
       PROVE  /\ Gained(Shards, g)' => Count(g)' <= Count(h)' + 1
              /\ Lost(Shards, g)' => Count(h)' <= Count(g)' + 1
              /\ ~(Lost(Shards, g)' /\ Gained(Shards, g)')
              /\ Lost(Shards, g)' /\ Gained(Shards, h)' => Count(h)' <= Count(g)'
  <2>1. /\ Gained(Shards, g) => Count(g) <= Count(h) + 1 /\ Count(g) <= Count(lg) + 1
        /\ Gained(Shards, h) => Count(h) <= Count(lg) + 1
        /\ Lost(Shards, g) => Count(h) <= Count(g) + 1 /\ Count(mg) <= Count(g) + 1
        /\ ~(Lost(Shards, g) /\ Gained(Shards, g))
        /\ Lost(Shards, g) /\ Gained(Shards, h) => Count(h) <= Count(g)
    BY <1>2 DEF Sparing
  <2>2. Count(g)' = IF g = lg THEN Count(lg) + 1 ELSE IF g = mg THEN Count(mg) - 1 ELSE Count(g)
    BY <1>5, <1>6
  <2>3. Count(h)' = IF h = lg THEN Count(lg) + 1 ELSE IF h = mg THEN Count(mg) - 1 ELSE Count(h)
    BY <1>5, <1>6
  <2>4. /\ Count(g) \in Nat /\ Count(h) \in Nat /\ Count(lg) \in Nat /\ Count(mg) \in Nat
        /\ Count(lg) <= Count(g) /\ Count(lg) <= Count(h)
        /\ Count(g) <= Count(mg) /\ Count(h) <= Count(mg)
    BY <1>3, <1>4
  <2>5. Gained(Shards, g)' => Count(g)' <= Count(h)' + 1
    BY <1>4, <1>5, <1>9, <2>1, <2>2, <2>3, <2>4
  <2>6. Lost(Shards, g)' => Count(h)' <= Count(g)' + 1
    BY <1>4, <1>5, <1>9, <2>1, <2>2, <2>3, <2>4
  <2>7. ~(Lost(Shards, g)' /\ Gained(Shards, g)')
    BY <1>5, <1>9, <2>1
  <2>8. Lost(Shards, g)' /\ Gained(Shards, h)' => Count(h)' <= Count(g)'
    BY <1>4, <1>5, <1>9, <2>1, <2>2, <2>3, <2>4
  <2> QED BY <2>5, <2>6, <2>7, <2>8
<1> QED BY <1>2, <1>10 DEF Sparing

\* Every step keeps it: one case per operation.
LEMMA NextSparing == IInv /\ Sparing /\ [Next]_vars => Sparing'
<1> SUFFICES ASSUME IInv, Sparing, [Next]_vars PROVE Sparing'
  OBVIOUS
<1> USE ShardAssumption
<1>1. ASSUME NEW gs \in Joining, NEW balance \in BOOLEAN, Join(gs, balance)
      PROVE  Sparing'
  <2>1. CASE balance
    BY <1>1, <2>1, SparingStarts DEF Join, IInv, TypeOK, Joining
  <2>2. CASE ~balance
    BY <1>1, <2>2, SparingUnchanged DEF Join, Called, Shard
  <2> QED BY <2>1, <2>2
<1>2. ASSUME NEW gs \in Joining, JoinRefused(gs)
      PROVE  Sparing'
  <2>1. PICK added \in SUBSET (gs \ Groups) :
            Groups' = Groups \cup added /\ settled' = (settled /\ added = {})
    BY <1>2 DEF JoinRefused
  <2>2. pos = 0 /\ UNCHANGED <<Shards, pos, before>>
    BY <1>2 DEF JoinRefused, Called
  <2>3. settled' => settled /\ Groups' = Groups
    BY <2>1
  <2> QED BY <2>2, <2>3, SparingUnchanged DEF Shard
<1>3. ASSUME NEW gids \in Leaving, NEW balance \in BOOLEAN, Leave(gids, balance)
      PROVE  Sparing'
  <2> DEFINE rest == Groups \ Gone(gids, Len(gids) + 1)
  <2>1. rest \in SUBSET Gids /\ Groups' = rest /\ Called
    BY <1>3, Zenon DEF Leave, IInv, TypeOK
  <2>2. CASE balance
    BY <1>3, <2>1, <2>2, SparingStarts DEF Leave
  <2>3. CASE ~balance
    BY <1>3, <2>3, SparingUnchanged DEF Leave, Called, Shard
  <2> QED BY <2>2, <2>3
<1>4. ASSUME NEW gids \in Leaving, LeaveRefused(gids)
      PROVE  Sparing'
  <2>1. PICK i \in DOMAIN gids :
            Groups' = Groups \ Gone(gids, i) /\ settled' = (settled /\ i = 1)
    BY <1>4 DEF LeaveRefused
  <2>2. i = 1 => Gone(gids, i) = {}
    BY DEF Gone
  <2>3. pos = 0 /\ UNCHANGED <<Shards, pos, before>>
    BY <1>4 DEF LeaveRefused, Called
  <2>4. settled' => settled /\ Groups' = Groups
    BY <2>1, <2>2
  <2> QED BY <2>3, <2>4, SparingUnchanged DEF Shard
<1>5. CASE Rebalance
  BY <1>5, SparingStarts DEF Rebalance, IInv, TypeOK
<1>6. CASE Assign
  BY <1>6, SparingAssign
<1>7. CASE Move
  BY <1>7, SparingMove
<1>8. CASE RebalanceEnds
  BY <1>8, SparingUnchanged DEF RebalanceEnds, Shard
<1>9. CASE UNCHANGED vars
  BY <1>9, SparingUnchanged DEF vars, Shard, IInv, TypeOK
<1> QED
  BY <1>1, <1>2, <1>3, <1>4, <1>5, <1>6, <1>7, <1>8, <1>9 DEF Next

\* The configuration keeps its type, and Rebalance its place in its loops, for any
\* number of shards and any set of gids (ShardConfig, Rebalance).
THEOREM TypeCorrect == Spec => []TypeOK
<1>1. Spec => []IInv
  BY InitIInv, NextIInv, PTL DEF Spec
<1>2. IInv => TypeOK
  BY DEF IInv
<1> QED
  BY <1>1, <1>2, PTL

\* In every reachable configuration that Rebalance has settled, every shard
\* belongs to a group and no group has two shards more than another, for every
\* number of shards and any set of groups (Rebalance, CheckConfig).
THEOREM CheckConfigAlways == Spec => []CheckConfig
<1>1. Spec => []IInv
  BY InitIInv, NextIInv, PTL DEF Spec
<1>2. IInv => CheckConfig
  BY DEF IInv
<1> QED
  BY <1>1, <1>2, PTL

\* The second loop of Rebalance finds every shard assigned to a group, whatever
\* groups have joined and left (Rebalance).
THEOREM AssignedBeforeMovingAlways == Spec => []AssignedBeforeMoving
<1>1. Spec => []IInv
  BY InitIInv, NextIInv, PTL DEF Spec
<1>2. IInv => AssignedBeforeMoving
  BY DEF IInv
<1> QED
  BY <1>1, <1>2, PTL

\* Rebalance moves no more shards than it must, for every number of shards and
\* groups: no assignment that CheckConfig accepts is nearer to the one it started
\* from (Rebalance).
THEOREM MovesAreMinimalAlways == Spec => []MovesAreMinimal
<1>1. Init => IInv /\ Sparing
  BY InitIInv, ShardAssumption DEF Init, Sparing, Shard
<1>2. IInv /\ Sparing /\ [Next]_vars => IInv' /\ Sparing'
  BY NextIInv, NextSparing
<1>3. IInv /\ Sparing => MovesAreMinimal
  <2> SUFFICES ASSUME IInv, Sparing, settled, Groups # {},
                      NEW a \in [Shard -> Groups], Acceptable(a)
               PROVE  Moved(Shards) <= Moved(a)
    BY DEF MovesAreMinimal
  <2>1. /\ Shards \in [Shard -> Groups]
        /\ \A g, h \in Groups : Count(g) <= Count(h) + 1
        /\ before \in [Shard -> Gids \cup {0}] /\ Groups \subseteq Gids
    BY DEF IInv, TypeOK, CheckConfig
  <2>2. \A g : Count(g) = Size(Shards, g)
    BY DEF Count, Size, Held, Part
  <2>3. Cardinality(Differ(Shards)) <= Cardinality(Differ(a))
    BY <2>1, <2>2, NoneNearer DEF Sparing
  <2> QED BY <2>3 DEF Moved, Differ
<1> QED BY <1>1, <1>2, <1>3, PTL DEF Spec
=============================================================================
