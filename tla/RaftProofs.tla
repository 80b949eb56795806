----------------------------- MODULE RaftProofs -----------------------------
(***************************************************************************)
(* What holds of the Raft peer for any cluster, however many elections,    *)
(* commands and rounds there are and whatever is lost.                     *)
(*                                                                         *)
(* Whoever leads has the grants of a majority in one of its elections, and *)
(* a leader's own log only grows.  A peer panics only if another leader    *)
(* has made its log shorter, or a peer has told it an index beyond it.     *)
(* Where one peer alone stands for election, the arrays behind all logs    *)
(* hold the beginning of its log, so peers apply the same commands.        *)
(***************************************************************************)
EXTENDS Raft, FiniteSetTheorems, WellFoundedInduction, TLAPS

Slice == [rest : Seq(Entries), shared : BOOLEAN]

\* A RequestVote call, and an AppendLogEntry call.
RVCall == [src : Server, dst : Server, eid : Nat, term : Nat,
           st : {"sent", "newer", "judged", "replied"},
           lastIndex : Nat, lastTerm : Nat, ct : Nat, vf : Server \cup {None},
           li : Nat, lt : Nat, granted : BOOLEAN, rterm : Nat]

ALECall == [src : Server, dst : Server, round : Nat,
            st : {"looping", "spawned", "sent", "replied"},
            cterm : Nat, last : Nat, next : Nat, term : Nat, prev : Nat, pterm : Nat,
            entries : Seq(Entries), lc : Nat, success : BOOLEAN, conflict : Nat, rterm : Nat]

Grant == [voter : Server, for : Server, eid : Nat]

Types ==
    /\ Mode \in [Server -> {"Follower", "Candidate", "Leader"}]
    /\ CurrentTerm \in [Server -> Nat]
    /\ VotedFor \in [Server -> Server \cup {None}]
    /\ alive \subseteq Server
    /\ votes \in [Server -> Seq(Nat)]
    /\ grants \subseteq Grant
    /\ rvs \subseteq RVCall
    /\ \A c \in rvs : c.eid \in DOMAIN votes[c.src]

LogTypes ==
    /\ logs \in [Server -> Seq(Entries)]
    /\ stale \in [Server -> Seq(Entries)]
    /\ taken \in [Server -> Slice]
    /\ starting \in [Server -> SUBSET Entries]
    /\ started \in 0..MaxStarts

\* A pass of handleCommits takes no more than is committed, and what is committed
\* stays in the array.
Applying ==
    /\ commitIndex \in [Server -> Nat]
    /\ appliedIndex \in [Server -> Nat]
    /\ DOMAIN applied = Server
    /\ \A s \in Server :
          /\ commitIndex[s] <= LastIndex(s) + Len(stale[s])
          /\ Len(taken[s].rest) <= appliedIndex[s]
          /\ DOMAIN applied[s] = 1..(appliedIndex[s] - Len(taken[s].rest))

LeadTypes ==
    /\ pNextIndex \in [Server -> [Server -> Nat \ {0}]]
    /\ pMatchIndex \in [Server -> [Server -> Nat]]
    /\ rounds \in [Server -> Nat]
    /\ ales \subseteq ALECall
    /\ \A c \in ales : c.st # "looping" => c.next > 0

TypeInv == Types /\ LogTypes /\ Applying /\ LeadTypes

GrantOf(c) == [voter |-> c.dst, for |-> c.src, eid |-> c.eid]

\* A call of the e-th election of s to p is under way.
Asking(s, p, e) == \E c \in rvs : c.src = s /\ c.dst = p /\ c.eid = e

\* The votes s got in its e-th election, and those whose call is over: only these
\* can have been counted.
Granted(s, e) == {g \in grants : g.for = s /\ g.eid = e}
Spent(s, e)   == {g \in Granted(s, e) : ~Asking(s, g.voter, e)}

VoteCounts ==
    /\ IsFiniteSet(grants)
    /\ \A c, d \in rvs : c.src = d.src /\ c.dst = d.dst /\ c.eid = d.eid => c = d
    /\ \A c \in rvs : c.granted => GrantOf(c) \in grants
    /\ \A g \in grants : g.eid \in DOMAIN votes[g.for]
    /\ \A s \in Server : \A e \in DOMAIN votes[s] :
          votes[s][e] <= 1 + Cardinality(Spent(s, e))
    /\ ElectionQuorum

\* Where l alone stands for election, the others follow it.
Sole(l) ==
    /\ ticking \in [Server -> BOOLEAN]
    /\ \A s \in Peers(l) : Mode[s] = "Follower" /\ ticking[s] = FALSE /\ starting[s] = {}
    /\ \A c \in rvs : c.src = l
    /\ \A c \in ales : c.src = l /\ c.dst # l
    /\ alive = Server

\* The array of s, what it has taken and what it has applied agree with a log.
First(s) == appliedIndex[s] - Len(taken[s].rest)

Agrees(s, log) ==
    /\ \A i \in 1..LastIndex(s) : i <= Len(log) /\ logs[s][i] = log[i]
    /\ \A i \in 1..Len(stale[s]) : /\ LastIndex(s) + i <= Len(log)
                                   /\ stale[s][i] = log[LastIndex(s) + i]
    /\ \A k \in 1..Len(taken[s].rest) : /\ First(s) + k <= Len(log)
                                        /\ taken[s].rest[k] = log[First(s) + k]
    /\ \A i \in DOMAIN applied[s] : i <= Len(log) /\ applied[s][i] = log[i].cmd

OneLog(l) == stale[l] = <<>> /\ \A s \in Server : Agrees(s, logs[l])

\* A request carries a stretch of a log and does not point beyond its end.
Carries(c, log) ==
    /\ c.conflict <= Len(log)
    /\ c.st # "looping" => c.next <= Len(log) + 1
    /\ c.st \in {"sent", "replied"} =>
          /\ c.prev = c.next - 1 /\ c.prev + Len(c.entries) <= Len(log)
          /\ \A k \in 1..Len(c.entries) : c.entries[k] = log[c.prev + k]

Requests(l) ==
    /\ \A p \in Server : pNextIndex[l][p] <= LastIndex(l) + 1
    /\ \A c \in ales : Carries(c, logs[l])

SoleInv(l) == Sole(l) /\ OneLog(l) /\ Requests(l)

-----------------------------------------------------------------------------
\* Sequences and numbers.

LEMMA Smallest ==
    ASSUME NEW T, T \subseteq Nat, T # {}
    PROVE  \E x \in T : \A y \in T : ~(y < x)
  <1> DEFINE R == {ss \in Nat \X Nat : ss[1] < ss[2]}
  <1>1. IsWellFoundedOn(R, Nat)
    BY NatLessThanWellFounded, Zenon DEF OpToRel
  <1>2. PICK x \in T : \A y \in T : ~(<<y, x>> \in R)
    <2> HIDE DEF R
    <2> QED BY <1>1, WFMin
  <1> QED BY <1>2

\* Max finds the largest of a bounded set of naturals.
LEMMA Largest ==
    ASSUME NEW n \in Nat, NEW T, T \subseteq 0..n, T # {}
    PROVE  Max(T) \in T /\ \A y \in T : Max(T) >= y
  <1> DEFINE U == {n - y : y \in T}
  <1>1. U \subseteq Nat /\ U # {}
    <2>1. \A y \in T : y \in 0..n /\ n - y \in Nat
      OBVIOUS
    <2>2. PICK z : z \in T
      OBVIOUS
    <2>3. n - z \in U
      BY <2>2
    <2> QED BY <2>1, <2>3
  <1>2. PICK u \in U : \A y \in U : ~(y < u)
    <2> HIDE DEF U
    <2> QED BY <1>1, Smallest
  <1>3. PICK x \in T : u = n - x
    OBVIOUS
  <1>4. \A y \in T : x >= y
    <2> SUFFICES ASSUME NEW y \in T PROVE x >= y
      OBVIOUS
    <2>1. n - y \in U /\ x \in 0..n /\ y \in 0..n
      OBVIOUS
    <2>2. ~(n - y < n - x)
      BY <1>2, <1>3, <2>1
    <2> QED BY <2>1, <2>2
  <1> QED BY <1>3, <1>4 DEF Max

LEMMA MinOfTwo ==
    ASSUME NEW a \in Nat, NEW b \in Nat
    PROVE  Min({a, b}) = IF a <= b THEN a ELSE b
  BY DEF Min

\* What WriteLog makes of a log and of the array behind it.
NewLog(log, keep, entries) == SubSeq(log, 1, keep) \o entries
Beyond(array, new) == SubSeq(array, Len(new) + 1, Len(array))

LEMMA SubSeqFacts ==
    ASSUME NEW S, NEW a \in Seq(S), NEW i \in Nat, NEW n \in Nat, n <= Len(a)
    PROVE  /\ SubSeq(a, i + 1, n) \in Seq(S)
           /\ Len(SubSeq(a, i + 1, n)) = IF i + 1 <= n THEN n - i ELSE 0
           /\ \A k \in 1..Len(SubSeq(a, i + 1, n)) : SubSeq(a, i + 1, n)[k] = a[i + k]
  <1>1. CASE i + 1 <= n
    <2>1. i + 1 \in 1..Len(a) /\ n \in 1..Len(a) /\ i < n
      BY <1>1
    <2>2. /\ SubSeq(a, i + 1, n) \in Seq(S) /\ Len(SubSeq(a, i + 1, n)) = n - i
          /\ \A k \in 1..(n - i) : SubSeq(a, i + 1, n)[k] = a[i + k]
      BY <2>1
    <2> QED BY <1>1, <2>2
  <1>2. CASE i + 1 > n
    <2>1. SubSeq(a, i + 1, n) = <<>>
      BY <1>2
    <2> QED BY <1>2, <2>1
  <1> QED BY <1>1, <1>2

LEMMA ConcatFacts ==
    ASSUME NEW S, NEW a \in Seq(S), NEW b \in Seq(S)
    PROVE  /\ a \o b \in Seq(S) /\ Len(a \o b) = Len(a) + Len(b)
           /\ \A i \in 1..Len(a) : (a \o b)[i] = a[i]
           /\ \A i \in 1..Len(b) : (a \o b)[Len(a) + i] = b[i]
  OBVIOUS

LEMMA NewLogFacts ==
    ASSUME NEW S, NEW log \in Seq(S), NEW keep \in 0..Len(log), NEW entries \in Seq(S)
    PROVE  LET new == NewLog(log, keep, entries) IN
           /\ new \in Seq(S) /\ Len(new) = keep + Len(entries) /\ Len(new) \in Nat
           /\ \A i \in 1..keep : new[i] = log[i]
           /\ \A i \in 1..Len(entries) : new[keep + i] = entries[i]
  <1>1. PICK cut \in Seq(S) :
          cut = SubSeq(log, 1, keep) /\ Len(cut) = keep /\ \A i \in 1..keep : cut[i] = log[i]
    <2> DEFINE cut == SubSeq(log, 1, keep)
    <2>1. cut \in Seq(S) /\ Len(cut) = keep /\ \A i \in 1..keep : cut[i] = log[i]
      OBVIOUS
    <2> QED BY <2>1, Zenon
  <1>2. NewLog(log, keep, entries) = cut \o entries
    BY <1>1 DEF NewLog
  <1>3. Len(entries) \in Nat
    OBVIOUS
  <1>4. /\ cut \o entries \in Seq(S) /\ Len(cut \o entries) = Len(cut) + Len(entries)
        /\ \A i \in 1..Len(cut) : (cut \o entries)[i] = cut[i]
        /\ \A i \in 1..Len(entries) : (cut \o entries)[Len(cut) + i] = entries[i]
    BY ConcatFacts
  <1>5. Len(cut) = keep /\ \A i \in 1..keep : cut[i] = log[i]
    BY <1>1
  <1> QED BY <1>2, <1>3, <1>4, <1>5

LEMMA BeyondFacts ==
    ASSUME NEW S, NEW array \in Seq(S), NEW new \in Seq(S)
    PROVE  LET left == Beyond(array, new) IN
           /\ left \in Seq(S) /\ Len(left) \in Nat
           /\ Len(left) = IF Len(array) > Len(new) THEN Len(array) - Len(new) ELSE 0
           /\ \A i \in DOMAIN left : left[i] = array[Len(new) + i]
  BY DEF Beyond

-----------------------------------------------------------------------------
\* Types.

LEMMA LogFacts ==
    ASSUME LogTypes, NEW s \in Server
    PROVE  /\ logs[s] \in Seq(Entries) /\ stale[s] \in Seq(Entries)
           /\ LastIndex(s) \in Nat /\ Len(stale[s]) \in Nat
           /\ \A i \in 0..LastIndex(s) : TermAt(s, i) \in Nat
           /\ LastTerm(s) \in Nat
           /\ taken[s] \in Slice /\ taken[s].rest \in Seq(Entries)
           /\ taken[s].shared \in BOOLEAN /\ Len(taken[s].rest) \in Nat
  <1>1. logs[s] \in Seq(Entries) /\ stale[s] \in Seq(Entries) /\ taken[s] \in Slice
    BY DEF LogTypes
  <1>2. LastIndex(s) \in Nat /\ Len(stale[s]) \in Nat
    BY <1>1 DEF LastIndex
  <1>3. \A i \in 0..LastIndex(s) : TermAt(s, i) \in Nat
    <2>1. \A i \in 1..Len(logs[s]) : logs[s][i] \in Entries
      BY <1>1
    <2>2. \A e \in Entries : e.term \in Nat
      BY DEF Entries
    <2> QED BY <1>2, <2>1, <2>2 DEF TermAt, LastIndex
  <1>4. taken[s].rest \in Seq(Entries) /\ taken[s].shared \in BOOLEAN
    BY <1>1 DEF Slice
  <1>5. Len(taken[s].rest) \in Nat
    BY <1>4
  <1> QED BY <1>1, <1>2, <1>3, <1>4, <1>5 DEF LastTerm

\* WriteLog keeps the types, what has been taken keeps its length, and the array
\* never shrinks.
LEMMA WriteLogFacts ==
    ASSUME LogTypes, Applying, NEW s \in Server, NEW keep \in 0..LastIndex(s),
           NEW entries \in Seq(Entries), WriteLog(s, keep, entries)
    PROVE  /\ logs' \in [Server -> Seq(Entries)] /\ stale' \in [Server -> Seq(Entries)]
           /\ taken' \in [Server -> Slice]
           /\ \A t \in Server : Len(taken'[t].rest) = Len(taken[t].rest)
           /\ \A t \in Server : Len(logs[t]) + Len(stale[t]) <= Len(logs'[t]) + Len(stale'[t])
           /\ \A t \in Server \ {s} : logs'[t] = logs[t] /\ stale'[t] = stale[t]
                                      /\ taken'[t] = taken[t]
  <1>1. /\ logs[s] \in Seq(Entries) /\ stale[s] \in Seq(Entries) /\ LastIndex(s) = Len(logs[s])
        /\ taken[s] \in Slice /\ taken[s].rest \in Seq(Entries) /\ taken[s].shared \in BOOLEAN
        /\ logs \in [Server -> Seq(Entries)] /\ stale \in [Server -> Seq(Entries)]
        /\ taken \in [Server -> Slice]
    BY LogFacts DEF LogTypes, LastIndex
  <1>0. PICK L \in Seq(Entries), A \in Seq(Entries) : L = logs[s] /\ A = stale[s]
    BY <1>1
  <1> DEFINE log   == NewLog(L, keep, entries)
             array == L \o A
             left  == Beyond(array, log)
             rest  == taken[s].rest
             first == appliedIndex[s] - Len(rest)
             over  == [k \in DOMAIN rest |->
                          IF first + k \in (keep + 1)..Len(log) THEN log[first + k] ELSE rest[k]]
  <1>2. /\ log \in Seq(Entries) /\ left \in Seq(Entries)
        /\ Len(log) \in Nat /\ Len(left) \in Nat
        /\ Len(L) + Len(A) <= Len(log) + Len(left)
    <2>1. keep \in 0..Len(L)
      BY <1>0, <1>1
    <2>2. log \in Seq(Entries) /\ Len(log) \in Nat
      BY <2>1, NewLogFacts
    <2>3. array \in Seq(Entries) /\ Len(array) = Len(L) + Len(A) /\ Len(array) \in Nat
      OBVIOUS
    <2> HIDE DEF log, array
    <2>4. /\ left \in Seq(Entries) /\ Len(left) \in Nat
          /\ Len(left) = IF Len(array) > Len(log) THEN Len(array) - Len(log) ELSE 0
      BY <2>2, <2>3, BeyondFacts
    <2> QED BY <2>2, <2>3, <2>4
  <1>3. /\ logs' = [logs EXCEPT ![s] = log] /\ stale' = [stale EXCEPT ![s] = left]
    BY <1>0 DEF WriteLog, NewLog, Beyond
  <1>4. /\ logs' \in [Server -> Seq(Entries)] /\ stale' \in [Server -> Seq(Entries)]
        /\ logs'[s] = log /\ stale'[s] = left
        /\ \A t \in Server \ {s} : logs'[t] = logs[t] /\ stale'[t] = stale[t]
    <2> HIDE DEF log, left
    <2> QED BY <1>1, <1>2, <1>3
  <1>6. \A t \in Server : Len(logs[t]) + Len(stale[t]) <= Len(logs'[t]) + Len(stale'[t])
    <2>1. \A t \in Server : Len(logs[t]) \in Nat /\ Len(stale[t]) \in Nat
      BY <1>1
    <2> HIDE DEF log, left
    <2> SUFFICES ASSUME NEW t \in Server
                 PROVE  Len(logs[t]) + Len(stale[t]) <= Len(logs'[t]) + Len(stale'[t])
      OBVIOUS
    <2>2. CASE t = s
      BY <1>0, <1>2, <1>4, <2>2
    <2>3. CASE t # s
      <3>1. logs'[t] = logs[t] /\ stale'[t] = stale[t]
        BY <1>4, <2>3
      <3> QED BY <2>1, <3>1
    <2> QED BY <2>2, <2>3
  <1>7. over \in Seq(Entries) /\ Len(over) = Len(rest)
    <2>1. DOMAIN rest = 1..Len(rest) /\ Len(rest) \in Nat
      BY <1>1
    <2>2. \A i \in 1..Len(log) : log[i] \in Entries
      BY <1>2
    <2>3. ASSUME NEW k \in DOMAIN rest PROVE over[k] \in Entries
      <3>1. CASE first + k \in (keep + 1)..Len(log)
        <4>1. (keep + 1)..Len(log) \subseteq 1..Len(log)
          <5>1. keep \in Nat /\ Len(log) \in Nat
            BY <1>1, <1>2
          <5> HIDE DEF log
          <5> QED BY <5>1
        <4>2. log[first + k] \in Entries /\ over[k] = log[first + k]
          <5> HIDE DEF log, first
          <5> QED BY <2>2, <3>1, <4>1
        <4> QED BY <4>2
      <3>2. CASE first + k \notin (keep + 1)..Len(log)
        <4>1. over[k] = rest[k]
          <5> HIDE DEF log, first
          <5> QED BY <3>2
        <4> QED BY <1>1, <4>1
      <3> QED BY <3>1, <3>2
    <2>4. DOMAIN over = 1..Len(rest)
      BY <2>1
    <2> HIDE DEF over
    <2>5. over = [k \in 1..Len(rest) |-> over[k]]
      BY <2>4 DEF over
    <2>6. over \in [1..Len(rest) -> Entries]
      BY <2>1, <2>3, <2>5
    <2> HIDE DEF rest
    <2> QED BY <2>1, <2>6
  <1>8. PICK slice \in Slice :
          taken' = [taken EXCEPT ![s] = slice] /\ Len(slice.rest) = Len(rest)
    <2>1. CASE taken' = [taken EXCEPT ![s].shared = FALSE]
      <3> DEFINE sl == [taken[s] EXCEPT !.shared = FALSE]
      <3>1. sl \in Slice /\ sl.rest = rest
        BY <1>1 DEF Slice
      <3> QED BY <1>1, <2>1, <3>1
    <2>2. CASE taken' = [taken EXCEPT ![s].rest = IF taken[s].shared THEN over ELSE rest]
      <3>1. PICK r \in Seq(Entries) :
              taken' = [taken EXCEPT ![s].rest = r] /\ Len(r) = Len(rest)
        <4> HIDE DEF over
        <4> QED BY <1>1, <1>7, <2>2
      <3> DEFINE sl == [taken[s] EXCEPT !.rest = r]
      <3>2. sl \in Slice /\ sl.rest = r
        BY <1>1 DEF Slice
      <3> QED BY <1>1, <3>1, <3>2
    <2>3. \/ taken' = [taken EXCEPT ![s].shared = FALSE]
          \/ taken' = [taken EXCEPT ![s].rest = IF taken[s].shared THEN over ELSE rest]
      BY <1>0, <1>1 DEF WriteLog, NewLog
    <2> QED BY <2>1, <2>2, <2>3
  <1>9. /\ taken' \in [Server -> Slice]
        /\ \A t \in Server : Len(taken'[t].rest) = Len(taken[t].rest)
        /\ \A t \in Server \ {s} : taken'[t] = taken[t]
    BY <1>1, <1>8
  <1> QED BY <1>4, <1>6, <1>9

-----------------------------------------------------------------------------
\* The steps of elections.

LEMMA RVFacts ==
    ASSUME NEW c \in RVCall
    PROVE  /\ c.src \in Server /\ c.dst \in Server /\ c.eid \in Nat /\ c.term \in Nat
           /\ c.ct \in Nat /\ c.vf \in Server \cup {None} /\ c.rterm \in Nat
           /\ c.st \in {"sent", "newer", "judged", "replied"} /\ c.granted \in BOOLEAN
  BY DEF RVCall

\* d is the call c, further on.
Follows(c, d) == /\ d \in RVCall /\ rvs' = With(rvs, c, d)
                 /\ d.src = c.src /\ d.dst = c.dst /\ d.eid = c.eid

LEMMA VoteReadStep ==
    ASSUME TypeInv, NEW c \in rvs, VoteRead(c)
    PROVE  /\ \E d : Follows(c, d) /\ d.granted = c.granted
           /\ UNCHANGED <<Mode, CurrentTerm, VotedFor, alive, votes, grants>>
  <1>1. /\ c \in RVCall /\ c.dst \in Server
        /\ CurrentTerm[c.dst] \in Nat /\ VotedFor[c.dst] \in Server \cup {None}
        /\ LastIndex(c.dst) \in Nat /\ LastTerm(c.dst) \in Nat
    BY RVFacts, LogFacts DEF TypeInv, Types
  <1> DEFINE t  == CurrentTerm[c.dst]
             d1 == [c EXCEPT !.st = "replied", !.rterm = t]
             d2 == [c EXCEPT !.st = IF c.term > t THEN "newer" ELSE "judged",
                             !.ct = t, !.vf = VotedFor[c.dst],
                             !.li = LastIndex(c.dst), !.lt = LastTerm(c.dst)]
  <1>2. /\ d1 \in RVCall /\ d1.src = c.src /\ d1.dst = c.dst /\ d1.eid = c.eid
        /\ d1.granted = c.granted
    BY <1>1 DEF RVCall
  <1>3. /\ d2 \in RVCall /\ d2.src = c.src /\ d2.dst = c.dst /\ d2.eid = c.eid
        /\ d2.granted = c.granted
    BY <1>1 DEF RVCall
  <1>4. rvs' = With(rvs, c, IF c.term < t THEN d1 ELSE d2)
    BY DEF VoteRead
  <1>5. PICK d : d = IF c.term < t THEN d1 ELSE d2
    OBVIOUS
  <1> HIDE DEF d1, d2, t
  <1>6. Follows(c, d) /\ d.granted = c.granted
    BY <1>2, <1>3, <1>4, <1>5 DEF Follows
  <1> QED BY <1>6 DEF VoteRead

LEMMA VoteNewerStep ==
    ASSUME TypeInv, NEW c \in rvs, VoteNewer(c)
    PROVE  /\ \E d : Follows(c, d) /\ d.granted = c.granted
           /\ c.dst \in Server /\ c.term \in Nat /\ setToFollower(c.dst, c.term)
           /\ UNCHANGED <<alive, votes, grants>>
  <1>1. c \in RVCall /\ c.dst \in Server /\ c.term \in Nat
    BY RVFacts DEF TypeInv, Types
  <1> DEFINE d == [c EXCEPT !.st = "judged", !.ct = c.term, !.vf = None]
  <1>2. /\ d \in RVCall /\ d.src = c.src /\ d.dst = c.dst /\ d.eid = c.eid
        /\ d.granted = c.granted
    BY <1>1 DEF RVCall
  <1>3. rvs' = With(rvs, c, d)
    BY DEF VoteNewer
  <1> HIDE DEF d
  <1>4. Follows(c, d) /\ d.granted = c.granted
    BY <1>2, <1>3 DEF Follows
  <1> QED BY <1>1, <1>4 DEF VoteNewer

LEMMA VoteJudgedStep ==
    ASSUME TypeInv, NEW c \in rvs, VoteJudged(c)
    PROVE  /\ \E d : /\ Follows(c, d)
                     /\ \/ d.granted /\ grants' = grants \cup {GrantOf(c)}
                        \/ ~d.granted /\ grants' = grants
           /\ VotedFor' \in [Server -> Server \cup {None}]
           /\ UNCHANGED <<Mode, CurrentTerm, alive, votes>>
  <1>1. /\ c \in RVCall /\ c.dst \in Server /\ c.src \in Server /\ c.ct \in Nat
        /\ VotedFor \in [Server -> Server \cup {None}]
    BY RVFacts DEF TypeInv, Types
  <1>2. PICK b \in BOOLEAN : b <=> c.vf \in {None, c.src} /\ UpToDate(c)
    OBVIOUS
  <1> DEFINE d == [c EXCEPT !.st = "replied", !.granted = b, !.rterm = c.ct]
  <1>3. /\ d \in RVCall /\ d.src = c.src /\ d.dst = c.dst /\ d.eid = c.eid
        /\ d.granted = b
    BY <1>1 DEF RVCall
  <1>4. /\ rvs' = With(rvs, c, d)
        /\ grants' = grants \cup (IF b THEN {GrantOf(c)} ELSE {})
        /\ VotedFor' = IF b THEN [VotedFor EXCEPT ![c.dst] = c.src] ELSE VotedFor
    <2>1. (c.vf \in {None, c.src} /\ UpToDate(c)) = b
      BY <1>2
    <2> QED BY <2>1, Zenon DEF VoteJudged, GrantOf
  <1> HIDE DEF d
  <1>5. /\ Follows(c, d)
        /\ \/ d.granted /\ grants' = grants \cup {GrantOf(c)}
           \/ ~d.granted /\ grants' = grants
    <2>1. Follows(c, d)
      BY <1>3, <1>4 DEF Follows
    <2>2. CASE b = TRUE
      BY <1>3, <1>4, <2>1, <2>2
    <2>3. CASE b = FALSE
      BY <1>3, <1>4, <2>1, <2>3
    <2> QED BY <2>2, <2>3
  <1>6. VotedFor' \in [Server -> Server \cup {None}]
    BY <1>1, <1>4
  <1> QED BY <1>5, <1>6 DEF VoteJudged

LEMMA CountVoteStep ==
    ASSUME TypeInv, NEW s \in Server, NEW e \in DOMAIN votes[s], NEW b \in BOOLEAN,
           NEW term \in Nat, NEW rterm \in Nat, CountVote(s, e, b, term, rterm)
    PROVE  /\ Mode' \in [Server -> {"Follower", "Candidate", "Leader"}]
           /\ CurrentTerm' \in [Server -> Nat]
           /\ VotedFor' \in [Server -> Server \cup {None}]
           /\ pNextIndex' \in [Server -> [Server -> Nat \ {0}]]
           /\ pMatchIndex' \in [Server -> [Server -> Nat]]
           /\ votes' \in [Server -> Seq(Nat)]
           /\ \A t \in Server : DOMAIN votes'[t] = DOMAIN votes[t]
           /\ \A t \in Server : \A i \in DOMAIN votes[t] :
                 ~(t = s /\ i = e) => votes'[t][i] = votes[t][i]
           /\ votes[s][e] \in Nat /\ votes'[s][e] <= Counted(votes[s][e], b)
           /\ \A t \in Server : Mode'[t] = "Leader" =>
                 Mode[t] = "Leader" \/ (t = s /\ isMajority(votes'[s][e]))
           /\ \A t \in Server : t # s => Mode'[t] = Mode[t]
           /\ \A t \in Server, p \in Server :
                 pNextIndex'[t][p] = pNextIndex[t][p] \/ pNextIndex'[t][p] = LastIndex(t) + 1
  <1>1. /\ Mode \in [Server -> {"Follower", "Candidate", "Leader"}]
        /\ CurrentTerm \in [Server -> Nat]
        /\ VotedFor \in [Server -> Server \cup {None}]
        /\ pNextIndex \in [Server -> [Server -> Nat \ {0}]]
        /\ pMatchIndex \in [Server -> [Server -> Nat]]
        /\ votes \in [Server -> Seq(Nat)] /\ LastIndex(s) \in Nat
    BY LogFacts DEF TypeInv, Types, LeadTypes
  <1>2. votes[s] \in Seq(Nat) /\ votes[s][e] \in Nat
    BY <1>1
  <1>3. PICK n \in Nat : n = Counted(votes[s][e], b) /\ votes[s][e] <= n
    BY <1>2 DEF Counted
  <1>4. CASE UNCHANGED votes /\ Mode' \in {Mode, [Mode EXCEPT ![s] = "Follower"]}
             /\ (UNCHANGED <<CurrentTerm, VotedFor>> \/ setToFollower(s, rterm))
             /\ UNCHANGED <<pNextIndex, pMatchIndex>>
    <2>1. /\ Mode' \in [Server -> {"Follower", "Candidate", "Leader"}]
          /\ \A t \in Server : Mode'[t] = "Leader" => Mode[t] = "Leader"
          /\ \A t \in Server : t # s => Mode'[t] = Mode[t]
      BY <1>1, <1>4
    <2>2. CurrentTerm' \in [Server -> Nat] /\ VotedFor' \in [Server -> Server \cup {None}]
      <3>1. CASE UNCHANGED <<CurrentTerm, VotedFor>>
        BY <1>1, <3>1
      <3>2. CASE setToFollower(s, rterm)
        BY <1>1, <3>2 DEF setToFollower
      <3> QED BY <1>4, <3>1, <3>2
    <2> QED BY <1>1, <1>2, <1>3, <1>4, <2>1, <2>2
  <1>5. CASE /\ votes' = [votes EXCEPT ![s][e] = n]
             /\ UNCHANGED <<CurrentTerm, VotedFor>>
             /\ \/ isMajority(n) /\ setToLeader(s)
                \/ UNCHANGED <<Mode, pNextIndex, pMatchIndex>>
    <2>1. /\ votes' \in [Server -> Seq(Nat)] /\ votes'[s][e] = n
          /\ \A t \in Server : DOMAIN votes'[t] = DOMAIN votes[t]
          /\ \A t \in Server : \A i \in DOMAIN votes[t] :
                 ~(t = s /\ i = e) => votes'[t][i] = votes[t][i]
      <3>1. [votes[s] EXCEPT ![e] = n] \in Seq(Nat)
        BY <1>2
      <3> QED BY <1>1, <1>2, <1>5, <3>1
    <2>2. CASE isMajority(n) /\ setToLeader(s)
      <3>1. /\ Mode' \in [Server -> {"Follower", "Candidate", "Leader"}]
            /\ \A t \in Server : t # s => Mode'[t] = Mode[t]
        BY <1>1, <2>2 DEF setToLeader
      <3>2. /\ pNextIndex' = [pNextIndex EXCEPT ![s] = [p \in Server |-> LastIndex(s) + 1]]
            /\ pMatchIndex' = [pMatchIndex EXCEPT ![s] = [p \in Server |-> 0]]
        BY <2>2 DEF setToLeader
      <3>3. /\ pNextIndex' \in [Server -> [Server -> Nat \ {0}]]
            /\ pMatchIndex' \in [Server -> [Server -> Nat]]
        <4>1. LastIndex(s) + 1 \in Nat \ {0}
          BY <1>1
        <4>2. /\ [p \in Server |-> LastIndex(s) + 1] \in [Server -> Nat \ {0}]
              /\ [p \in Server |-> 0] \in [Server -> Nat]
          BY <4>1
        <4> QED BY <1>1, <3>2, <4>2
      <3>4. ASSUME NEW t \in Server, NEW p \in Server
            PROVE  pNextIndex'[t][p] = pNextIndex[t][p] \/ pNextIndex'[t][p] = LastIndex(t) + 1
        BY <1>1, <3>2
      <3> QED BY <1>1, <1>2, <1>3, <1>5, <2>1, <2>2, <3>1, <3>3, <3>4, SMTT(30)
    <2>3. CASE UNCHANGED <<Mode, pNextIndex, pMatchIndex>>
      BY <1>1, <1>2, <1>3, <1>5, <2>1, <2>3
    <2> QED BY <1>5, <2>2, <2>3
  <1> QED BY <1>3, <1>4, <1>5, Zenon DEF CountVote, setToFollower

LEMMA ElectionBegunStep ==
    ASSUME TypeInv, NEW s \in Server, ElectionBegun(s)
    PROVE  LET e == Len(votes[s]) + 1 IN
           /\ e \in Nat /\ e \notin DOMAIN votes[s] /\ e \in DOMAIN votes'[s]
           /\ votes'[s][e] = 1
           /\ votes' \in [Server -> Seq(Nat)]
           /\ \A t \in Server : \A i \in DOMAIN votes[t] :
                 i \in DOMAIN votes'[t] /\ votes'[t][i] = votes[t][i]
           /\ \A t \in Server : \A i \in DOMAIN votes'[t] :
                 i \in DOMAIN votes[t] \/ (t = s /\ i = e)
           /\ CurrentTerm' \in [Server -> Nat]
           /\ rvs' \subseteq RVCall /\ rvs \subseteq rvs'
           /\ \A c \in rvs' : c \in rvs \/ (c.src = s /\ c.eid = e /\ c.granted = FALSE /\ c.dst # s)
           /\ \A c \in rvs' \ rvs : \A d \in rvs' \ rvs : c.dst = d.dst => c = d
  <1>1. /\ votes \in [Server -> Seq(Nat)] /\ CurrentTerm \in [Server -> Nat]
        /\ rvs \subseteq RVCall /\ LastIndex(s) \in Nat /\ LastTerm(s) \in Nat
    BY LogFacts DEF TypeInv, Types
  <1> DEFINE e == Len(votes[s]) + 1
             new(p) == VoteCall(s, p, e, CurrentTerm[s] + 1)
  <1>2. PICK v \in Seq(Nat) : v = votes[s]
    BY <1>1
  <1>3. /\ e \in Nat /\ e \notin DOMAIN v /\ Append(v, 1) \in Seq(Nat)
        /\ DOMAIN Append(v, 1) = DOMAIN v \cup {e} /\ Append(v, 1)[e] = 1
        /\ \A i \in DOMAIN v : Append(v, 1)[i] = v[i]
    BY <1>2
  <1>4. votes' = [votes EXCEPT ![s] = Append(v, 1)]
    BY <1>2 DEF ElectionBegun
  <1>5. /\ votes' \in [Server -> Seq(Nat)] /\ votes'[s] = Append(v, 1)
        /\ \A t \in Server : t # s => votes'[t] = votes[t]
    BY <1>1, <1>3, <1>4
  <1>6. CurrentTerm' \in [Server -> Nat]
    BY <1>1 DEF ElectionBegun
  <1>7. rvs' = rvs \cup {new(p) : p \in Peers(s)}
    BY DEF ElectionBegun
  <1>8. ASSUME NEW p \in Peers(s)
        PROVE  /\ new(p) \in RVCall /\ new(p).src = s /\ new(p).eid = e /\ new(p).dst = p
               /\ new(p).granted = FALSE /\ p # s
    <2>1. p \in Server /\ p # s /\ CurrentTerm[s] + 1 \in Nat /\ e \in Nat
      BY <1>1, <1>3 DEF Peers
    <2> HIDE DEF e
    <2> QED BY <1>1, <2>1 DEF VoteCall, RVCall
  <1> HIDE DEF new
  <1>9. /\ rvs' \subseteq RVCall /\ rvs \subseteq rvs'
        /\ \A c \in rvs' : c \in rvs \/ (c.src = s /\ c.eid = e /\ c.granted = FALSE /\ c.dst # s)
        /\ \A c \in rvs' \ rvs : \A d \in rvs' \ rvs : c.dst = d.dst => c = d
    <2> HIDE DEF e
    <2>1. \A c \in rvs' : c \in rvs \/ \E p \in Peers(s) : c = new(p)
      BY <1>7
    <2>2. \A p \in Peers(s) : new(p) \in RVCall /\ new(p).src = s /\ new(p).eid = e
                               /\ new(p).dst = p /\ new(p).granted = FALSE /\ p # s
      BY <1>8
    <2>3. \A c \in rvs' : \/ c \in rvs
                          \/ /\ c \in RVCall /\ c.src = s /\ c.eid = e /\ c.granted = FALSE
                             /\ c.dst # s /\ c = new(c.dst)
      <3> SUFFICES ASSUME NEW c \in rvs', c \notin rvs
                   PROVE  /\ c \in RVCall /\ c.src = s /\ c.eid = e /\ c.granted = FALSE
                          /\ c.dst # s /\ c = new(c.dst)
        BY Zenon
      <3>1. PICK p \in Peers(s) : c = new(p)
        BY <2>1, Zenon
      <3>2. /\ new(p) \in RVCall /\ new(p).src = s /\ new(p).eid = e
            /\ new(p).dst = p /\ new(p).granted = FALSE /\ p # s
        BY <2>2, Zenon
      <3>3. c.dst = p
        BY <3>1, <3>2, Zenon
      <3> QED BY <3>1, <3>2, <3>3
    <2>4. \A c \in rvs' \ rvs : \A d \in rvs' \ rvs : c.dst = d.dst => c = d
      BY <2>3, Zenon
    <2>5. rvs \subseteq rvs'
      BY <1>7
    <2> QED BY <1>1, <2>3, <2>4, <2>5
  <1>10. /\ e \notin DOMAIN votes[s] /\ e \in DOMAIN votes'[s] /\ votes'[s][e] = 1
         /\ \A t \in Server : \A i \in DOMAIN votes[t] :
               i \in DOMAIN votes'[t] /\ votes'[t][i] = votes[t][i]
         /\ \A t \in Server : \A i \in DOMAIN votes'[t] :
               i \in DOMAIN votes[t] \/ (t = s /\ i = e)
    <2> HIDE DEF e
    <2> QED BY <1>2, <1>3, <1>5
  <1> QED BY <1>3, <1>5, <1>6, <1>9, <1>10

-----------------------------------------------------------------------------
\* Type correctness.

LEMMA QuietTypes ==
    ASSUME Types, UNCHANGED <<Mode, CurrentTerm, VotedFor, alive, votes, grants, rvs>>
    PROVE  Types'
  BY DEF Types

LEMMA QuietLogs ==
    ASSUME LogTypes, Applying, UNCHANGED logVars, UNCHANGED applyVars
    PROVE  LogTypes' /\ Applying'
  BY DEF LogTypes, Applying, logVars, applyVars, LastIndex

LEMMA QuietLead ==
    ASSUME LeadTypes, UNCHANGED leadVars
    PROVE  LeadTypes'
  BY DEF LeadTypes, leadVars

\* A call that goes on keeps the types of the calls.
LEMMA FollowsTypes ==
    ASSUME Types, NEW c \in rvs, NEW d, Follows(c, d), UNCHANGED votes
    PROVE  /\ rvs' \subseteq RVCall
           /\ \A x \in rvs' : x.eid \in DOMAIN votes'[x.src]
  BY DEF Types, Follows, With

LEMMA setToFollowerTypes ==
    ASSUME Types, NEW s \in Server, NEW term \in Nat, setToFollower(s, term)
    PROVE  /\ Mode' \in [Server -> {"Follower", "Candidate", "Leader"}]
           /\ CurrentTerm' \in [Server -> Nat]
           /\ VotedFor' \in [Server -> Server \cup {None}]
           /\ \A t \in Server : Mode'[t] = "Leader" => Mode[t] = "Leader" /\ t # s
           /\ \A t \in Server : Mode'[t] = "Follower" \/ Mode'[t] = Mode[t]
  BY DEF Types, setToFollower

LEMMA VoteTypes ==
    ASSUME TypeInv, NEW c \in rvs, VoteRead(c) \/ VoteNewer(c) \/ VoteJudged(c)
    PROVE  TypeInv'
  <1>1. LogTypes' /\ Applying' /\ LeadTypes'
    <2>1. UNCHANGED logVars /\ UNCHANGED applyVars /\ UNCHANGED leadVars
      BY DEF VoteRead, VoteNewer, VoteJudged
    <2> QED BY <2>1, QuietLogs, QuietLead DEF TypeInv
  <1>2. Types
    BY DEF TypeInv
  <1>3. CASE VoteRead(c)
    <2>1. /\ \E d : Follows(c, d)
          /\ UNCHANGED <<Mode, CurrentTerm, VotedFor, alive, votes, grants>>
      BY <1>3, VoteReadStep
    <2> QED BY <1>1, <1>2, <2>1, FollowsTypes DEF TypeInv, Types
  <1>4. CASE VoteNewer(c)
    <2>1. /\ \E d : Follows(c, d) /\ c.dst \in Server /\ c.term \in Nat
          /\ setToFollower(c.dst, c.term) /\ UNCHANGED <<alive, votes, grants>>
      BY <1>4, VoteNewerStep
    <2>2. /\ Mode' \in [Server -> {"Follower", "Candidate", "Leader"}]
          /\ CurrentTerm' \in [Server -> Nat]
          /\ VotedFor' \in [Server -> Server \cup {None}]
      BY <1>2, <2>1, setToFollowerTypes
    <2> QED BY <1>1, <1>2, <2>1, <2>2, FollowsTypes DEF TypeInv, Types
  <1>5. CASE VoteJudged(c)
    <2>1. /\ \E d : /\ Follows(c, d)
                    /\ grants' = grants \cup {GrantOf(c)} \/ grants' = grants
          /\ VotedFor' \in [Server -> Server \cup {None}]
          /\ UNCHANGED <<Mode, CurrentTerm, alive, votes>>
      BY <1>5, VoteJudgedStep
    <2>2. GrantOf(c) \in Grant
      BY <1>2, RVFacts DEF Types, GrantOf, Grant
    <2>3. grants' \subseteq Grant
      BY <1>2, <2>1, <2>2 DEF Types
    <2> QED BY <1>1, <1>2, <2>1, <2>3, FollowsTypes DEF TypeInv, Types
  <1> QED BY <1>3, <1>4, <1>5

LEMMA CountTypes ==
    ASSUME TypeInv, NEW c \in rvs, VoteReply(c) \/ VoteLost(c)
    PROVE  /\ TypeInv'
           /\ c.src \in Server /\ c.eid \in DOMAIN votes[c.src]
           /\ \/ CountVote(c.src, c.eid, c.granted, c.term, c.rterm)
              \/ CountVote(c.src, c.eid, FALSE, c.term, 0)
  <1>1. /\ c.src \in Server /\ c.eid \in DOMAIN votes[c.src] /\ c.granted \in BOOLEAN
        /\ c.term \in Nat /\ c.rterm \in Nat
    BY RVFacts DEF TypeInv, Types
  <1>2. \/ CountVote(c.src, c.eid, c.granted, c.term, c.rterm)
        \/ CountVote(c.src, c.eid, FALSE, c.term, 0)
    BY DEF VoteReply, VoteLost
  <1>3. /\ Mode' \in [Server -> {"Follower", "Candidate", "Leader"}]
        /\ CurrentTerm' \in [Server -> Nat]
        /\ VotedFor' \in [Server -> Server \cup {None}]
        /\ pNextIndex' \in [Server -> [Server -> Nat \ {0}]]
        /\ pMatchIndex' \in [Server -> [Server -> Nat]]
        /\ votes' \in [Server -> Seq(Nat)]
        /\ \A t \in Server : DOMAIN votes'[t] = DOMAIN votes[t]
    <2>1. CASE CountVote(c.src, c.eid, c.granted, c.term, c.rterm)
      BY <1>1, <2>1, CountVoteStep
    <2>2. CASE CountVote(c.src, c.eid, FALSE, c.term, 0)
      BY <1>1, <2>2, CountVoteStep
    <2> QED BY <1>2, <2>1, <2>2
  <1>4. /\ rvs' = rvs \ {c} /\ UNCHANGED <<alive, grants, ales, rounds>>
        /\ UNCHANGED logVars /\ UNCHANGED applyVars
    BY DEF VoteReply, VoteLost
  <1>5. LogTypes' /\ Applying'
    BY <1>4, QuietLogs DEF TypeInv
  <1>6. Types'
    <2>1. \A d \in rvs' : d.src \in Server /\ d.eid \in DOMAIN votes'[d.src]
      BY <1>3, <1>4, RVFacts DEF TypeInv, Types
    <2> QED BY <1>3, <1>4, <2>1 DEF TypeInv, Types
  <1>7. LeadTypes'
    BY <1>3, <1>4 DEF TypeInv, LeadTypes
  <1> QED BY <1>1, <1>2, <1>5, <1>6, <1>7 DEF TypeInv

LEMMA ElectionTypes ==
    ASSUME TypeInv, NEW s \in Server,
           isTimedOut(s) \/ ElectionWanted(s) \/ ElectionBegun(s) \/ ElectionTimer(s)
    PROVE  TypeInv'
  <1>1. LogTypes' /\ Applying' /\ LeadTypes'
    <2>1. UNCHANGED logVars /\ UNCHANGED applyVars /\ UNCHANGED leadVars
      BY DEF isTimedOut, ElectionWanted, ElectionBegun, ElectionTimer
    <2> QED BY <2>1, QuietLogs, QuietLead DEF TypeInv
  <1>2. CASE isTimedOut(s)
    <2>1. Mode' \in [Server -> {"Follower", "Candidate", "Leader"}]
      BY <1>2 DEF TypeInv, Types, isTimedOut
    <2> QED BY <1>1, <1>2, <2>1 DEF TypeInv, Types, isTimedOut, electVars
  <1>3. CASE ElectionWanted(s) \/ ElectionTimer(s)
    <2>1. UNCHANGED <<Mode, CurrentTerm, VotedFor, alive, votes, grants, rvs>>
      BY <1>3 DEF ElectionWanted, ElectionTimer
    <2> QED BY <1>1, <2>1, QuietTypes DEF TypeInv
  <1>4. CASE ElectionBegun(s)
    <2> DEFINE e == Len(votes[s]) + 1
    <2>1. /\ votes' \in [Server -> Seq(Nat)] /\ CurrentTerm' \in [Server -> Nat]
          /\ rvs' \subseteq RVCall /\ e \in DOMAIN votes'[s]
          /\ \A t \in Server : \A i \in DOMAIN votes[t] : i \in DOMAIN votes'[t]
          /\ \A c \in rvs' : c \in rvs \/ (c.src = s /\ c.eid = e)
      BY <1>4, ElectionBegunStep
    <2> HIDE DEF e
    <2>2. \A c \in rvs' : c.eid \in DOMAIN votes'[c.src]
      <3> SUFFICES ASSUME NEW c \in rvs' PROVE c.eid \in DOMAIN votes'[c.src]
        OBVIOUS
      <3>1. CASE c \in rvs
        <4>1. c.src \in Server /\ c.eid \in DOMAIN votes[c.src]
          BY <3>1, RVFacts DEF TypeInv, Types
        <4> QED BY <2>1, <4>1
      <3>2. CASE c.src = s /\ c.eid = e
        BY <2>1, <3>2
      <3> QED BY <2>1, <3>1, <3>2
    <2>3. UNCHANGED <<Mode, VotedFor, alive, grants>>
      BY <1>4 DEF ElectionBegun
    <2> QED BY <1>1, <2>1, <2>2, <2>3 DEF TypeInv, Types
  <1> QED BY <1>2, <1>3, <1>4

LEMMA WriteKeepsApplying ==
    ASSUME LogTypes, Applying, NEW s \in Server, NEW keep \in 0..LastIndex(s),
           NEW entries \in Seq(Entries), WriteLog(s, keep, entries),
           UNCHANGED <<commitIndex, appliedIndex, applied>>
    PROVE  Applying'
  <1>1. /\ \A t \in Server : Len(taken'[t].rest) = Len(taken[t].rest)
        /\ \A t \in Server : Len(logs[t]) + Len(stale[t]) <= Len(logs'[t]) + Len(stale'[t])
        /\ logs' \in [Server -> Seq(Entries)] /\ stale' \in [Server -> Seq(Entries)]
    BY WriteLogFacts
  <1>2. \A t \in Server : commitIndex[t] <= Len(logs'[t]) + Len(stale'[t])
    <2> SUFFICES ASSUME NEW t \in Server
                 PROVE  commitIndex[t] <= Len(logs'[t]) + Len(stale'[t])
      OBVIOUS
    <2>1. /\ Len(logs[t]) \in Nat /\ Len(stale[t]) \in Nat
          /\ Len(logs'[t]) \in Nat /\ Len(stale'[t]) \in Nat
          /\ commitIndex[t] \in Nat /\ commitIndex[t] <= Len(logs[t]) + Len(stale[t])
      <3>1. /\ logs[t] \in Seq(Entries) /\ stale[t] \in Seq(Entries)
            /\ logs'[t] \in Seq(Entries) /\ stale'[t] \in Seq(Entries)
        BY <1>1 DEF LogTypes
      <3>2. commitIndex[t] \in Nat /\ commitIndex[t] <= Len(logs[t]) + Len(stale[t])
        BY DEF Applying, LastIndex
      <3>3. /\ Len(logs[t]) \in Nat /\ Len(stale[t]) \in Nat
            /\ Len(logs'[t]) \in Nat /\ Len(stale'[t]) \in Nat
        BY ONLY <3>1
      <3> QED BY <3>2, <3>3, Zenon
    <2>2. Len(logs[t]) + Len(stale[t]) <= Len(logs'[t]) + Len(stale'[t])
      BY <1>1, Zenon
    <2>3. \A a, b, c, d, e \in Nat : a <= b + c /\ b + c <= d + e => a <= d + e
      OBVIOUS
    <2> QED BY <2>1, <2>2, <2>3, Zenon
  <1> QED BY <1>1, <1>2 DEF Applying, LastIndex

LEMMA StartTypes ==
    ASSUME TypeInv, NEW s \in Server, StartRead(s) \/ StartAppend(s)
    PROVE  TypeInv'
  <1>1. Types' /\ LeadTypes'
    <2>1. UNCHANGED <<Mode, CurrentTerm, VotedFor, alive>> /\ UNCHANGED electVars /\ UNCHANGED leadVars
      BY DEF StartRead, StartAppend
    <2> QED BY <2>1, QuietTypes, QuietLead DEF TypeInv, electVars
  <1>2. CASE StartRead(s)
    <2>1. [term |-> CurrentTerm[s], cmd |-> started + 1] \in Entries
      <3>1. CurrentTerm[s] \in Nat /\ started + 1 \in 1..MaxStarts
        BY <1>2, RaftAssumption DEF StartRead, TypeInv, Types, LogTypes
      <3> QED BY <3>1 DEF Entries
    <2>2. started' \in 0..MaxStarts
      BY <1>2, RaftAssumption DEF StartRead, TypeInv, LogTypes
    <2>3. starting' \in [Server -> SUBSET Entries]
      BY <1>2, <2>1 DEF StartRead, TypeInv, LogTypes
    <2>4. LogTypes'
      BY <1>2, <2>2, <2>3 DEF StartRead, TypeInv, LogTypes
    <2>5. Applying'
      BY <1>2 DEF StartRead, TypeInv, Applying, applyVars, LastIndex
    <2> QED BY <1>1, <2>4, <2>5 DEF TypeInv
  <1>3. CASE StartAppend(s)
    <2>1. PICK le \in starting[s] : /\ starting' = [starting EXCEPT ![s] = @ \ {le}]
                                    /\ WriteLog(s, LastIndex(s), <<le>>)
                                    /\ UNCHANGED started /\ UNCHANGED applyVars
      BY <1>3 DEF StartAppend
    <2>2. le \in Entries /\ starting' \in [Server -> SUBSET Entries]
      BY <2>1 DEF TypeInv, LogTypes
    <2>3. <<le>> \in Seq(Entries) /\ LastIndex(s) \in 0..LastIndex(s)
      BY <2>2, LogFacts DEF TypeInv
    <2>4. PICK es \in Seq(Entries) : WriteLog(s, LastIndex(s), es)
      BY <2>1, <2>3
    <2>5. LogTypes'
      BY <2>1, <2>2, <2>3, <2>4, WriteLogFacts DEF TypeInv, LogTypes
    <2>6. Applying'
      BY <2>1, <2>3, <2>4, WriteKeepsApplying DEF TypeInv, applyVars
    <2> QED BY <1>1, <2>5, <2>6 DEF TypeInv
  <1> QED BY <1>2, <1>3

\* What handleCommits takes, and what it passes on.
Array(s) == logs[s] \o stale[s]
Taken(s) == SubSeq(Array(s), appliedIndex[s] + 1, commitIndex[s])

LEMMA TakenFacts ==
    ASSUME LogTypes, Applying, NEW s \in Server
    PROVE  /\ Array(s) \in Seq(Entries) /\ Len(Array(s)) = LastIndex(s) + Len(stale[s])
           /\ Taken(s) \in Seq(Entries) /\ Len(Taken(s)) \in Nat
           /\ \A k \in 1..Len(Taken(s)) : Taken(s)[k] = Array(s)[appliedIndex[s] + k]
           /\ Taken(s) # <<>> => /\ Len(Taken(s)) = commitIndex[s] - appliedIndex[s]
                                 /\ Len(Taken(s)) > 0 /\ Head(Taken(s)) = Taken(s)[1]
                                 /\ Tail(Taken(s)) \in Seq(Entries)
                                 /\ Len(Tail(Taken(s))) = Len(Taken(s)) - 1
                                 /\ \A k \in 1..(Len(Taken(s)) - 1) :
                                       Tail(Taken(s))[k] = Taken(s)[k + 1]
  <1>1. /\ logs[s] \in Seq(Entries) /\ stale[s] \in Seq(Entries)
        /\ LastIndex(s) = Len(logs[s])
        /\ commitIndex[s] \in Nat /\ appliedIndex[s] \in Nat
        /\ commitIndex[s] <= LastIndex(s) + Len(stale[s])
    BY LogFacts DEF Applying, LastIndex
  <1>2. Array(s) \in Seq(Entries) /\ Len(Array(s)) = LastIndex(s) + Len(stale[s])
    BY <1>1 DEF Array
  <1>3. PICK a \in Seq(Entries), i \in Nat, n \in Nat :
          a = Array(s) /\ i = appliedIndex[s] /\ n = commitIndex[s] /\ n <= Len(a)
    BY <1>1, <1>2
  <1>4. Taken(s) = SubSeq(a, i + 1, n)
    BY <1>3 DEF Taken
  <1>5. PICK q : q = SubSeq(a, i + 1, n)
    OBVIOUS
  <1>6. /\ q \in Seq(Entries) /\ q = Taken(s) /\ Len(q) = IF i + 1 <= n THEN n - i ELSE 0
        /\ \A k \in 1..Len(q) : q[k] = a[i + k]
    <2>1. n <= Len(a)
      BY <1>3
    <2>2. /\ q \in Seq(Entries) /\ Len(q) = IF i + 1 <= n THEN n - i ELSE 0
          /\ \A k \in 1..Len(q) : q[k] = a[i + k]
      BY ONLY <1>5, <2>1, SubSeqFacts, a \in Seq(Entries), i \in Nat, n \in Nat
    <2> QED BY <1>4, <1>5, <2>2
  <1>7. q # <<>> => /\ Len(q) > 0 /\ Head(q) = q[1] /\ Tail(q) \in Seq(Entries)
                    /\ Len(Tail(q)) = Len(q) - 1
                    /\ \A k \in 1..(Len(q) - 1) : Tail(q)[k] = q[k + 1]
    BY <1>6
  <1>8. Len(q) \in Nat /\ (Len(q) > 0 => Len(q) = n - i)
    BY <1>6
  <1> QED BY <1>2, <1>3, <1>6, <1>7, <1>8, Zenon

LEMMA CommitTypes ==
    ASSUME TypeInv, NEW s \in Server, takeCommits(s) \/ handleCommits(s)
    PROVE  TypeInv'
  <1>1. Types' /\ LeadTypes'
    <2>1. UNCHANGED <<Mode, CurrentTerm, VotedFor, alive>> /\ UNCHANGED electVars /\ UNCHANGED leadVars
      BY DEF takeCommits, handleCommits
    <2> QED BY <2>1, QuietTypes, QuietLead DEF TypeInv, electVars
  <1>2. LogTypes /\ Applying /\ taken \in [Server -> Slice]
    BY DEF TypeInv, LogTypes
  <1>3. UNCHANGED <<logs, stale, starting, started, commitIndex>>
    BY DEF takeCommits, handleCommits
  <1>4. ASSUME taken' \in [Server -> Slice], appliedIndex' \in [Server -> Nat],
               DOMAIN applied' = Server,
               \A t \in Server : /\ Len(taken'[t].rest) <= appliedIndex'[t]
                                 /\ DOMAIN applied'[t] =
                                       1..(appliedIndex'[t] - Len(taken'[t].rest))
        PROVE  LogTypes' /\ Applying'
    BY <1>2, <1>3, <1>4 DEF LogTypes, Applying, LastIndex
  <1>5. CASE takeCommits(s)
    <2>1. /\ taken[s].rest = <<>>
          /\ appliedIndex' = [appliedIndex EXCEPT ![s] = @ + Len(Taken(s))]
          /\ IF Taken(s) = <<>>
             THEN UNCHANGED <<taken, applied>>
             ELSE /\ taken' = [taken EXCEPT ![s] = [Nothing EXCEPT !.rest = Tail(Taken(s))]]
                  /\ CheckLogs(s, appliedIndex[s] + 1, Head(Taken(s)))
      BY <1>5, Zenon DEF takeCommits, Taken, Array
    <2>2. CASE Taken(s) = <<>>
      <3>1. UNCHANGED <<taken, applied>> /\ appliedIndex' = appliedIndex
        BY <1>2, <2>1, <2>2 DEF Applying
      <3> QED BY <1>1, <1>2, <1>4, <3>1 DEF TypeInv, Applying
    <2>3. CASE Taken(s) # <<>>
      <3>1. PICK n \in Nat, r \in Seq(Entries) :
              n = Len(Taken(s)) /\ n > 0 /\ r = Tail(Taken(s)) /\ Len(r) = n - 1
        BY <1>2, <2>3, TakenFacts
      <3>2. Nothing \in Slice
        BY DEF Nothing, Slice
      <3>3. taken' = [taken EXCEPT ![s] = [Nothing EXCEPT !.rest = r]]
        BY <2>1, <2>3, <3>1
      <3>4. [Nothing EXCEPT !.rest = r] \in Slice /\ [Nothing EXCEPT !.rest = r].rest = r
        BY <3>2 DEF Slice
      <3>5. /\ taken' \in [Server -> Slice] /\ taken'[s].rest = r
            /\ \A t \in Server : t # s => taken'[t] = taken[t]
        BY <1>2, <3>3, <3>4
      <3>6. /\ appliedIndex' \in [Server -> Nat] /\ appliedIndex'[s] = appliedIndex[s] + n
            /\ \A t \in Server : t # s => appliedIndex'[t] = appliedIndex[t]
        BY <1>2, <2>1, <3>1 DEF Applying
      <3>7. /\ DOMAIN applied' = Server
            /\ DOMAIN applied'[s] = DOMAIN applied[s] \cup {appliedIndex[s] + 1}
            /\ \A t \in Server : t # s => applied'[t] = applied[t]
        BY <1>2, <2>1, <2>3 DEF Applying, CheckLogs
      <3>8. DOMAIN applied[s] = 1..appliedIndex[s] /\ appliedIndex[s] \in Nat
        <4>1. Len(taken[s].rest) = 0
          BY <2>1
        <4> QED BY <1>2, <4>1 DEF Applying
      <3>9. /\ Len(taken'[s].rest) <= appliedIndex'[s]
            /\ DOMAIN applied'[s] = 1..(appliedIndex'[s] - Len(taken'[s].rest))
        BY <3>1, <3>5, <3>6, <3>7, <3>8
      <3>10. \A t \in Server : /\ Len(taken'[t].rest) <= appliedIndex'[t]
                               /\ DOMAIN applied'[t] =
                                     1..(appliedIndex'[t] - Len(taken'[t].rest))
        BY <1>2, <3>5, <3>6, <3>7, <3>9 DEF Applying
      <3> QED BY <1>1, <1>4, <3>5, <3>6, <3>7, <3>10 DEF TypeInv
    <2> QED BY <2>2, <2>3
  <1>6. CASE handleCommits(s)
    <2>1. PICK q \in Seq(Entries) : q = taken[s].rest
      BY <1>2, LogFacts
    <2>2. /\ q # <<>> /\ UNCHANGED appliedIndex
          /\ taken' = [taken EXCEPT ![s] = IF Len(q) = 1 THEN Nothing
                                           ELSE [@ EXCEPT !.rest = Tail(q)]]
          /\ CheckLogs(s, appliedIndex[s] - Len(q) + 1, Head(q))
      BY <1>6, <2>1 DEF handleCommits
    <2>3. Len(q) \in Nat /\ Len(q) > 0 /\ Tail(q) \in Seq(Entries) /\ Len(Tail(q)) = Len(q) - 1
      BY <2>2
    <2>4. PICK sl \in Slice :
            taken' = [taken EXCEPT ![s] = sl] /\ Len(sl.rest) = Len(q) - 1
      <3>1. CASE Len(q) = 1
        <4>1. Nothing \in Slice /\ Len(Nothing.rest) = 0
          BY DEF Nothing, Slice
        <4>2. taken' = [taken EXCEPT ![s] = Nothing] /\ Len(q) - 1 = 0
          BY <2>2, <3>1
        <4> QED BY <4>1, <4>2
      <3>2. CASE Len(q) # 1
        <4> DEFINE sl == [taken[s] EXCEPT !.rest = Tail(q)]
        <4>1. taken[s] \in Slice
          BY <1>2
        <4>2. PICK r \in Seq(Entries) : r = Tail(q) /\ Len(r) = Len(q) - 1
          BY <2>3
        <4>3. sl \in Slice /\ sl.rest = r
          BY <4>1, <4>2 DEF Slice
        <4> QED BY <2>2, <3>2, <4>2, <4>3
      <3> QED BY <3>1, <3>2
    <2>5. /\ taken' \in [Server -> Slice] /\ taken'[s] = sl
          /\ \A t \in Server : t # s => taken'[t] = taken[t]
      BY <1>2, <2>4
    <2>6. /\ appliedIndex[s] \in Nat /\ Len(q) <= appliedIndex[s]
          /\ DOMAIN applied[s] = 1..(appliedIndex[s] - Len(q))
      BY <1>2, <2>1 DEF Applying
    <2>7. /\ DOMAIN applied' = Server
          /\ DOMAIN applied'[s] = DOMAIN applied[s] \cup {appliedIndex[s] - Len(q) + 1}
          /\ \A t \in Server : t # s => applied'[t] = applied[t]
      BY <1>2, <2>2 DEF Applying, CheckLogs
    <2>8. /\ Len(taken'[s].rest) <= appliedIndex'[s]
          /\ DOMAIN applied'[s] = 1..(appliedIndex'[s] - Len(taken'[s].rest))
      <3>1. PICK a \in Nat, n \in Nat : a = appliedIndex[s] /\ n = Len(q) /\ n > 0 /\ n <= a
        BY <2>3, <2>6
      <3>2. Len(taken'[s].rest) = n - 1 /\ appliedIndex'[s] = a
        BY <2>2, <2>4, <2>5, <3>1
      <3>3. DOMAIN applied'[s] = 1..(a - n) \cup {a - n + 1}
        BY <2>6, <2>7, <3>1
      <3>4. 1..(a - n) \cup {a - n + 1} = 1..(a - (n - 1)) /\ n - 1 <= a
        BY <3>1
      <3> QED BY <3>2, <3>3, <3>4
    <2>9. \A t \in Server : /\ Len(taken'[t].rest) <= appliedIndex'[t]
                            /\ DOMAIN applied'[t] =
                                  1..(appliedIndex'[t] - Len(taken'[t].rest))
      BY <1>2, <2>2, <2>5, <2>7, <2>8 DEF Applying
    <2> QED BY <1>1, <1>2, <1>4, <2>2, <2>5, <2>7, <2>9 DEF TypeInv, Applying
  <1> QED BY <1>5, <1>6

-----------------------------------------------------------------------------
\* The steps of a leader's rounds.

LEMMA ALEFacts ==
    ASSUME NEW c \in ALECall
    PROVE  /\ c.src \in Server /\ c.dst \in Server /\ c.round \in Nat
           /\ c.st \in {"looping", "spawned", "sent", "replied"}
           /\ c.cterm \in Nat /\ c.last \in Nat /\ c.next \in Nat /\ c.term \in Nat
           /\ c.prev \in Nat /\ c.pterm \in Nat /\ c.entries \in Seq(Entries)
           /\ c.lc \in Nat /\ c.success \in BOOLEAN /\ c.conflict \in Nat /\ c.rterm \in Nat
           /\ Len(c.entries) \in Nat
  <1>1. c.entries \in Seq(Entries)
    BY DEF ALECall
  <1>2. Len(c.entries) \in Nat
    BY <1>1
  <1> QED BY <1>1, <1>2 DEF ALECall

\* d is the call c, further on.
Goes(c, d) == /\ d \in ALECall /\ ales' = With(ales, c, d)
              /\ d.src = c.src /\ d.dst = c.dst
              /\ d.st # "looping" /\ d.next > 0

LEMMA LeadReadStep ==
    ASSUME TypeInv, NEW s \in Server, LeadRead(s)
    PROVE  /\ \A c \in ales' : c \in ales \/
                 (/\ c \in ALECall /\ c.src = s /\ c.dst \in Peers(s)
                  /\ c.st = "looping" /\ c.conflict = 0)
           /\ ales \subseteq ales'
           /\ UNCHANGED <<pNextIndex, pMatchIndex>> /\ rounds' \in [Server -> Nat]
  <1>1. /\ rounds \in [Server -> Nat] /\ CurrentTerm[s] \in Nat /\ LastIndex(s) \in Nat
        /\ rounds[s] + 1 \in Nat
    BY LogFacts DEF TypeInv, Types, LeadTypes
  <1> DEFINE new(p) ==
            [src |-> s, dst |-> p, round |-> rounds[s] + 1, st |-> "looping",
             cterm |-> CurrentTerm[s], last |-> LastIndex(s), next |-> 0,
             term |-> 0, prev |-> 0, pterm |-> 0, entries |-> <<>>, lc |-> 0,
             success |-> FALSE, conflict |-> 0, rterm |-> 0]
  <1>2. ales' = ales \cup {new(p) : p \in Peers(s)}
    BY DEF LeadRead
  <1>3. ASSUME NEW p \in Peers(s)
        PROVE  /\ new(p) \in ALECall /\ new(p).src = s /\ new(p).dst = p
               /\ new(p).st = "looping" /\ new(p).conflict = 0
    <2>1. p \in Server /\ <<>> \in Seq(Entries)
      BY DEF Peers
    <2> QED BY <1>1, <2>1 DEF ALECall
  <1> HIDE DEF new
  <1>4. ASSUME NEW c \in ales', c \notin ales
        PROVE  /\ c \in ALECall /\ c.src = s /\ c.dst \in Peers(s)
               /\ c.st = "looping" /\ c.conflict = 0
    <2>1. PICK p \in Peers(s) : c = new(p)
      BY <1>2, <1>4, Zenon
    <2> QED BY <1>3, <2>1, Zenon
  <1>5. rounds' \in [Server -> Nat]
    BY <1>1 DEF LeadRead
  <1>6. UNCHANGED <<pNextIndex, pMatchIndex>>
    BY DEF LeadRead
  <1>7. ales \subseteq ales'
    BY <1>2
  <1> QED BY <1>4, <1>5, <1>6, <1>7, Zenon

LEMMA LeadLoopStep ==
    ASSUME TypeInv, NEW c \in ales, LeadLoop(c)
    PROVE  \E d : /\ Goes(c, d) /\ d.st = "spawned" /\ d.next = pNextIndex[c.src][c.dst]
                  /\ d.conflict = c.conflict
  <1>1. c \in ALECall /\ pNextIndex[c.src][c.dst] \in Nat \ {0}
    BY ALEFacts DEF TypeInv, LeadTypes
  <1> DEFINE d == [c EXCEPT !.st = "spawned", !.next = pNextIndex[c.src][c.dst]]
  <1>2. /\ d \in ALECall /\ d.src = c.src /\ d.dst = c.dst /\ d.st = "spawned"
        /\ d.next = pNextIndex[c.src][c.dst] /\ d.conflict = c.conflict
    BY <1>1 DEF ALECall
  <1>3. ales' = With(ales, c, d)
    BY DEF LeadLoop
  <1> HIDE DEF d
  <1>4. d.st # "looping" /\ d.next > 0
    BY <1>1, <1>2
  <1> QED BY <1>2, <1>3, <1>4 DEF Goes

LEMMA LeadSendStep ==
    ASSUME TypeInv, NEW c \in ales, LeadSend(c)
    PROVE  \/ c.next - 1 > LastIndex(c.src) /\ ales' = ales \ {c} /\ alive' = alive \ {c.src}
           \/ /\ UNCHANGED alive
              /\ \E d : /\ Goes(c, d) /\ d.st = "sent" /\ d.next = c.next /\ d.conflict = c.conflict
                        /\ d.prev = c.next - 1 /\ d.prev + Len(d.entries) <= LastIndex(c.src)
                        /\ \A k \in 1..Len(d.entries) : d.entries[k] = logs[c.src][d.prev + k]
  <1>1. /\ c \in ALECall /\ c.src \in Server /\ c.next \in Nat /\ c.next > 0
        /\ c.next - 1 \in Nat /\ CurrentTerm[c.src] \in Nat /\ commitIndex[c.src] \in Nat
        /\ logs[c.src] \in Seq(Entries) /\ LastIndex(c.src) \in Nat
        /\ LastIndex(c.src) = Len(logs[c.src])
    <2>1. /\ c \in ALECall /\ c.src \in Server /\ c.next \in Nat /\ c.next > 0
          /\ CurrentTerm[c.src] \in Nat /\ commitIndex[c.src] \in Nat
      BY ALEFacts DEF TypeInv, LeadTypes, Types, Applying, LeadSend
    <2> QED BY <2>1, LogFacts DEF TypeInv, LastIndex
  <1>2. CASE c.next - 1 > LastIndex(c.src)
    BY <1>2 DEF LeadSend
  <1>3. CASE ~(c.next - 1 > LastIndex(c.src))
    <2>1. PICK log \in Seq(Entries), n \in Nat \ {0} :
            log = logs[c.src] /\ n = c.next /\ n - 1 <= Len(log)
      BY <1>1, <1>3
    <2>2. PICK es \in Seq(Entries) :
            /\ ales' = With(ales, c, buildAppendLogArgs(c, es)) /\ UNCHANGED alive
            /\ n - 1 + Len(es) <= Len(log)
            /\ \A k \in 1..Len(es) : es[k] = log[n - 1 + k]
      <3>1. CASE Included(c)
        <4> DEFINE es == SubSeq(log, n, Len(log))
        <4>1. ales' = With(ales, c, buildAppendLogArgs(c, es)) /\ UNCHANGED alive
          BY <1>1, <1>3, <2>1, <3>1 DEF LeadSend
        <4>2. /\ es \in Seq(Entries) /\ n - 1 + Len(es) <= Len(log)
              /\ \A k \in 1..Len(es) : es[k] = log[n - 1 + k]
          <5>1. PICK i \in Nat, m \in Nat : i + 1 = n /\ i = n - 1 /\ m = Len(log) /\ i <= m
            <6>1. n - 1 \in Nat /\ (n - 1) + 1 = n /\ Len(log) \in Nat
              OBVIOUS
            <6> QED BY <2>1, <6>1, Zenon
          <5>2. PICK q : q = SubSeq(log, i + 1, m)
            OBVIOUS
          <5>3. /\ q \in Seq(Entries) /\ Len(q) = IF i + 1 <= m THEN m - i ELSE 0
                /\ \A k \in 1..Len(q) : q[k] = log[i + k]
            BY <5>1, <5>2, SubSeqFacts
          <5>4. es = q
            BY <5>1, <5>2
          <5> HIDE DEF es
          <5> QED BY <5>1, <5>3, <5>4
        <4> QED BY <4>1, <4>2
      <3>2. CASE ~Included(c)
        <4>1. ales' = With(ales, c, buildAppendLogArgs(c, <<>>)) /\ UNCHANGED alive
          BY <1>1, <1>3, <2>1, <3>2 DEF LeadSend
        <4>2. <<>> \in Seq(Entries) /\ n - 1 + Len(<<>>) <= Len(log) /\ 1..Len(<<>>) = {}
          BY <2>1
        <4> QED BY <4>1, <4>2
      <3> QED BY <3>1, <3>2
    <2>3. TermAt(c.src, c.next - 1) \in Nat
      <3>1. c.next - 1 \in 0..LastIndex(c.src)
        BY <1>1, <1>3
      <3> QED BY <1>1, <3>1, LogFacts DEF TypeInv
    <2> DEFINE d == buildAppendLogArgs(c, es)
    <2>4. /\ d \in ALECall /\ d.src = c.src /\ d.dst = c.dst /\ d.st = "sent"
          /\ d.next = c.next /\ d.conflict = c.conflict /\ d.prev = c.next - 1
          /\ d.entries = es
      BY <1>1, <2>3 DEF ALECall, buildAppendLogArgs
    <2> HIDE DEF d
    <2>5. Goes(c, d)
      BY <1>1, <2>2, <2>4 DEF Goes, d
    <2>6. /\ d.prev + Len(d.entries) <= LastIndex(c.src)
          /\ \A k \in 1..Len(d.entries) : d.entries[k] = logs[c.src][d.prev + k]
      BY <1>1, <2>1, <2>2, <2>4
    <2> QED BY <2>2, <2>4, <2>5, <2>6
  <1> QED BY <1>2, <1>3

LEMMA ConflictIndex ==
    ASSUME LogTypes, NEW s \in Server, NEW term
    PROVE  resolveIndexConflict(s, term) \in 0..LastIndex(s)
  <1> DEFINE T == {0} \cup {i \in 1..LastIndex(s) : logs[s][i].term = term}
  <1>1. LastIndex(s) \in Nat
    BY LogFacts
  <1>2. T \subseteq 0..LastIndex(s) /\ T # {}
    BY <1>1
  <1>3. Max(T) \in T
    <2> HIDE DEF T
    <2> QED BY <1>1, <1>2, Largest
  <1> QED BY <1>2, <1>3 DEF resolveIndexConflict

\* What an answer changes of the follower.
Refused(c) ==
    UNCHANGED <<Mode, CurrentTerm, VotedFor, logs, stale, taken, commitIndex, wake>>
Stored(c) ==
    /\ setToFollower(c.dst, c.term) /\ Matching(c)
    /\ WriteLog(c.dst, c.prev, c.entries) /\ UNCHANGED <<commitIndex, wake>>
Heard(c) ==
    /\ setToFollower(c.dst, c.term) /\ UNCHANGED <<logs, stale, taken>>
    /\ \/ UNCHANGED <<commitIndex, wake>>
       \/ commitIndex' = [commitIndex EXCEPT ![c.dst] = NewCommit(c)]

LEMMA AppendStep ==
    ASSUME TypeInv, NEW c \in ales, AppendLogEntry(c)
    PROVE  /\ Refused(c) \/ Stored(c) \/ Heard(c)
           /\ UNCHANGED <<alive, starting, started, appliedIndex, applied, pNextIndex,
                          pMatchIndex, rounds>> /\ UNCHANGED electVars
           /\ \E d : /\ Goes(c, d) /\ d.st = "replied" /\ d.next = c.next /\ d.prev = c.prev
                     /\ d.entries = c.entries /\ d.conflict <= LastIndex(c.dst)
  <1>1. /\ c \in ALECall /\ c.dst \in Server /\ c.next > 0 /\ CurrentTerm[c.dst] \in Nat
        /\ LastIndex(c.dst) \in Nat
    <2>1. c \in ALECall /\ c.dst \in Server /\ c.next > 0 /\ CurrentTerm[c.dst] \in Nat
      BY ALEFacts DEF TypeInv, LeadTypes, Types, AppendLogEntry
    <2> QED BY <2>1, LogFacts DEF TypeInv
  <1> DEFINE reply(b, i) == [c EXCEPT !.st = "replied", !.rterm = CurrentTerm[c.dst],
                                      !.success = b, !.conflict = i]
  <1>2. \E b \in BOOLEAN, i \in 0..LastIndex(c.dst) : ales' = With(ales, c, reply(b, i))
    <2>1. 0 \in 0..LastIndex(c.dst)
      BY <1>1
    <2>2. resolveIndexConflict(c.dst, c.pterm) \in 0..LastIndex(c.dst)
      BY <1>1, ConflictIndex DEF TypeInv
    <2>3. \/ ales' = With(ales, c, reply(FALSE, 0))
          \/ ales' = With(ales, c, reply(TRUE, 0))
          \/ ales' = With(ales, c, reply(FALSE, resolveIndexConflict(c.dst, c.pterm)))
      BY Zenon DEF AppendLogEntry
    <2> HIDE DEF reply
    <2> QED BY <2>1, <2>2, <2>3
  <1>3. ASSUME NEW b \in BOOLEAN, NEW i \in 0..LastIndex(c.dst)
        PROVE  /\ reply(b, i) \in ALECall /\ reply(b, i).src = c.src /\ reply(b, i).dst = c.dst
               /\ reply(b, i).st = "replied" /\ reply(b, i).next = c.next
               /\ reply(b, i).prev = c.prev /\ reply(b, i).entries = c.entries
               /\ reply(b, i).conflict = i
    <2>1. i \in Nat
      BY <1>1
    <2> QED BY <1>1, <2>1 DEF ALECall
  <1> HIDE DEF reply
  <1>4. \E d : /\ Goes(c, d) /\ d.st = "replied" /\ d.next = c.next /\ d.prev = c.prev
               /\ d.entries = c.entries /\ d.conflict <= LastIndex(c.dst)
    <2>1. PICK b \in BOOLEAN, i \in 0..LastIndex(c.dst) : ales' = With(ales, c, reply(b, i))
      BY <1>2
    <2>2. i <= LastIndex(c.dst)
      BY <1>1
    <2>3. Goes(c, reply(b, i))
      BY <1>1, <1>3, <2>1 DEF Goes
    <2> QED BY <1>3, <2>2, <2>3, Zenon
  <1>5. Refused(c) \/ Stored(c) \/ Heard(c)
    BY Zenon DEF AppendLogEntry, Refused, Stored, Heard
  <1>6. /\ UNCHANGED <<alive, starting, started, appliedIndex, applied, pNextIndex,
                       pMatchIndex, rounds>> /\ UNCHANGED electVars
    BY DEF AppendLogEntry
  <1> QED BY <1>4, <1>5, <1>6

LEMMA AppendReplyStep ==
    ASSUME TypeInv, NEW c \in ales, AppendReply(c)
    PROVE  /\ Mode' \in [Server -> {"Follower", "Candidate", "Leader"}]
           /\ CurrentTerm' \in [Server -> Nat]
           /\ VotedFor' \in [Server -> Server \cup {None}]
           /\ \A t \in Server : Mode'[t] = Mode[t] \/ Mode'[t] = "Follower"
           /\ pMatchIndex' \in [Server -> [Server -> Nat]]
           /\ \/ UNCHANGED pNextIndex
              \/ pNextIndex' = [pNextIndex EXCEPT ![c.src][c.dst] = c.next + Len(c.entries)]
              \/ pNextIndex' = [pNextIndex EXCEPT ![c.src][c.dst] = c.conflict + 1]
           /\ UNCHANGED commitIndex \/ commitIndex' = [commitIndex EXCEPT ![c.src] = LastIndex(c.src)]
  <1>1. /\ c.src \in Server /\ c.dst \in Server /\ c.rterm \in Nat
        /\ pMatchIndex \in [Server -> [Server -> Nat]]
    BY ALEFacts DEF TypeInv, LeadTypes
  <1>2. LastIndex(c.src) \in Nat /\ Types
    BY <1>1, LogFacts DEF TypeInv
  <1>3. CASE setToFollower(c.src, c.rterm) /\ UNCHANGED <<pNextIndex, pMatchIndex, commitIndex>>
    BY <1>1, <1>2, <1>3, setToFollowerTypes
  <1>4. CASE UNCHANGED <<Mode, CurrentTerm, VotedFor>> /\ Replicated(c)
    <2>1. pMatchIndex' \in [Server -> [Server -> Nat]]
      BY <1>1, <1>2, <1>4 DEF Replicated
    <2> QED BY <1>2, <1>4, <2>1 DEF Types, Replicated
  <1>5. CASE /\ UNCHANGED <<Mode, CurrentTerm, VotedFor, pMatchIndex, commitIndex>>
             /\ \/ pNextIndex' = [pNextIndex EXCEPT ![c.src][c.dst] = c.conflict + 1]
                \/ UNCHANGED pNextIndex
    BY <1>1, <1>2, <1>5 DEF Types
  <1> QED BY <1>3, <1>4, <1>5, Zenon DEF AppendReply

LEMMA GoesTypes ==
    ASSUME ales \subseteq ALECall, \A x \in ales : x.st # "looping" => x.next > 0,
           NEW c \in ales, NEW d, Goes(c, d)
    PROVE  ales' \subseteq ALECall /\ \A x \in ales' : x.st # "looping" => x.next > 0
  BY DEF Goes, With

LEMMA LeadStepTypes ==
    ASSUME TypeInv, \/ \E s \in Server : LeadRead(s)
                    \/ \E c \in ales : LeadLoop(c) \/ LeadSend(c) \/ AppendLost(c)
    PROVE  TypeInv'
  <1>1. LogTypes' /\ Applying'
    <2>1. UNCHANGED logVars /\ UNCHANGED applyVars
      BY DEF LeadRead, LeadLoop, LeadSend, AppendLost
    <2> QED BY <2>1, QuietLogs DEF TypeInv
  <1>2. UNCHANGED <<Mode, CurrentTerm, VotedFor, votes, grants, rvs, pNextIndex, pMatchIndex>>
    BY DEF LeadRead, LeadLoop, LeadSend, AppendLost, electVars
  <1>3. ales \subseteq ALECall /\ \A x \in ales : x.st # "looping" => x.next > 0
    BY DEF TypeInv, LeadTypes
  <1>4. ASSUME alive' \subseteq Server PROVE Types'
    BY <1>2, <1>4 DEF TypeInv, Types
  <1>5. ASSUME ales' \subseteq ALECall, \A x \in ales' : x.st # "looping" => x.next > 0,
               rounds' \in [Server -> Nat]
        PROVE  LeadTypes'
    BY <1>2, <1>5 DEF TypeInv, LeadTypes
  <1>6. alive \subseteq Server /\ rounds \in [Server -> Nat]
    BY DEF TypeInv, Types, LeadTypes
  <1>7. ASSUME NEW s \in Server, LeadRead(s) PROVE TypeInv'
    <2>1. UNCHANGED alive
      BY <1>7 DEF LeadRead
    <2> QED BY <1>1, <1>3, <1>4, <1>5, <1>6, <1>7, <2>1, LeadReadStep DEF TypeInv
  <1>8. ASSUME NEW c \in ales, LeadLoop(c) PROVE TypeInv'
    <2>1. UNCHANGED <<alive, rounds>>
      BY <1>8 DEF LeadLoop
    <2>2. \E d : Goes(c, d)
      BY <1>8, LeadLoopStep
    <2> QED BY <1>1, <1>3, <1>4, <1>5, <1>6, <2>1, <2>2, GoesTypes DEF TypeInv
  <1>9. ASSUME NEW c \in ales, LeadSend(c) PROVE TypeInv'
    <2>1. UNCHANGED rounds
      BY <1>9 DEF LeadSend
    <2>2. \/ ales' = ales \ {c} /\ alive' = alive \ {c.src}
          \/ UNCHANGED alive /\ \E d : Goes(c, d)
      BY <1>9, LeadSendStep
    <2>3. alive' \subseteq Server
      BY <1>6, <2>2
    <2>4. ales' \subseteq ALECall /\ \A x \in ales' : x.st # "looping" => x.next > 0
      BY <1>3, <2>2, GoesTypes
    <2> QED BY <1>1, <1>4, <1>5, <1>6, <2>1, <2>3, <2>4 DEF TypeInv
  <1>10. ASSUME NEW c \in ales, AppendLost(c) PROVE TypeInv'
    <2>1. ales' = ales \ {c} /\ UNCHANGED <<alive, rounds>>
      BY <1>10 DEF AppendLost
    <2> QED BY <1>1, <1>3, <1>4, <1>5, <1>6, <2>1 DEF TypeInv
  <1> QED BY <1>7, <1>8, <1>9, <1>10

\* NewCommit stays within the log.
LEMMA NewCommitFacts ==
    ASSUME TypeInv, NEW c \in ales
    PROVE  NewCommit(c) \in Nat /\ NewCommit(c) <= LastIndex(c.dst)
  <1>1. c.lc \in Nat /\ c.dst \in Server
    BY ALEFacts DEF TypeInv, LeadTypes
  <1>2. LastIndex(c.dst) \in Nat
    BY <1>1, LogFacts DEF TypeInv
  <1>3. NewCommit(c) = IF c.lc <= LastIndex(c.dst) THEN c.lc ELSE LastIndex(c.dst)
    BY <1>1, <1>2, MinOfTwo DEF NewCommit
  <1> QED BY <1>1, <1>2, <1>3

LEMMA CommitWithin ==
    ASSUME LogTypes, Applying, NEW s \in Server, NEW n \in Nat, n <= LastIndex(s),
           commitIndex' = [commitIndex EXCEPT ![s] = n],
           UNCHANGED <<logs, stale, taken, appliedIndex, applied>>
    PROVE  Applying'
  <1>1. commitIndex' \in [Server -> Nat] /\ commitIndex'[s] = n
        /\ \A t \in Server : t # s => commitIndex'[t] = commitIndex[t]
    BY DEF Applying
  <1>2. LastIndex(s) \in Nat /\ Len(stale[s]) \in Nat
    BY LogFacts
  <1>3. n <= LastIndex(s) + Len(stale[s])
    BY <1>2
  <1>4. \A t \in Server : commitIndex'[t] <= LastIndex(t) + Len(stale[t])
    BY <1>1, <1>3 DEF Applying
  <1> QED BY <1>1, <1>4 DEF Applying, LastIndex

LEMMA AppendTypes ==
    ASSUME TypeInv, NEW c \in ales, AppendLogEntry(c)
    PROVE  TypeInv'
  <1>1. /\ Refused(c) \/ Stored(c) \/ Heard(c)
        /\ UNCHANGED <<alive, starting, started, appliedIndex, applied, pNextIndex,
                       pMatchIndex, rounds>> /\ UNCHANGED electVars
        /\ \E d : Goes(c, d)
    BY AppendStep
  <1>2. /\ c.dst \in Server /\ c.term \in Nat /\ c.prev \in Nat /\ c.entries \in Seq(Entries)
        /\ Types /\ LogTypes /\ Applying
    BY ALEFacts DEF TypeInv, LeadTypes
  <1>3. LeadTypes'
    BY <1>1, GoesTypes DEF TypeInv, LeadTypes
  <1>4. Types'
    <2>1. /\ Mode' \in [Server -> {"Follower", "Candidate", "Leader"}]
          /\ CurrentTerm' \in [Server -> Nat]
          /\ VotedFor' \in [Server -> Server \cup {None}]
      <3>1. CASE Refused(c)
        BY <1>2, <3>1 DEF Types, Refused
      <3>2. CASE setToFollower(c.dst, c.term)
        BY <1>2, <3>2, setToFollowerTypes
      <3> QED BY <1>1, <3>1, <3>2 DEF Stored, Heard
    <2> QED BY <1>1, <1>2, <2>1 DEF Types, electVars
  <1>5. CASE Stored(c)
    <2>1. WriteLog(c.dst, c.prev, c.entries) /\ UNCHANGED commitIndex /\ c.prev <= LastIndex(c.dst)
      BY <1>5 DEF Stored, Matching
    <2>2. c.prev \in 0..LastIndex(c.dst)
      BY <1>2, <2>1, LogFacts
    <2>3. LogTypes'
      BY <1>1, <1>2, <2>1, <2>2, WriteLogFacts DEF LogTypes
    <2>4. Applying'
      BY <1>1, <1>2, <2>1, <2>2, WriteKeepsApplying
    <2> QED BY <1>3, <1>4, <2>3, <2>4 DEF TypeInv
  <1>6. CASE UNCHANGED <<logs, stale, taken, commitIndex>>
    BY <1>1, <1>2, <1>3, <1>4, <1>6 DEF TypeInv, LogTypes, Applying, LastIndex
  <1>7. CASE /\ UNCHANGED <<logs, stale, taken>>
             /\ commitIndex' = [commitIndex EXCEPT ![c.dst] = NewCommit(c)]
    <2>1. LogTypes'
      BY <1>1, <1>2, <1>7 DEF LogTypes
    <2>2. NewCommit(c) \in Nat /\ NewCommit(c) <= LastIndex(c.dst)
      BY NewCommitFacts
    <2>3. Applying'
      BY <1>1, <1>2, <1>7, <2>2, CommitWithin
    <2> QED BY <1>3, <1>4, <2>1, <2>3 DEF TypeInv
  <1> QED BY <1>1, <1>5, <1>6, <1>7 DEF Refused, Heard

LEMMA AppendReplyTypes ==
    ASSUME TypeInv, NEW c \in ales, AppendReply(c)
    PROVE  TypeInv'
  <1>1. /\ ales' = ales \ {c} /\ UNCHANGED <<alive, appliedIndex, applied, rounds>>
        /\ UNCHANGED logVars /\ UNCHANGED electVars
    BY DEF AppendReply
  <1>2. /\ c.src \in Server /\ c.dst \in Server /\ c.conflict \in Nat /\ Len(c.entries) \in Nat
        /\ c.next \in Nat /\ c.next > 0 /\ pNextIndex \in [Server -> [Server -> Nat \ {0}]]
    BY ALEFacts DEF TypeInv, LeadTypes, AppendReply
  <1>3. Types'
    BY <1>1, AppendReplyStep DEF TypeInv, Types, electVars
  <1>4. LogTypes'
    BY <1>1 DEF TypeInv, LogTypes, logVars
  <1>5. Applying'
    <2>1. CASE UNCHANGED commitIndex
      BY <1>1, <2>1 DEF TypeInv, Applying, logVars, LastIndex
    <2>2. CASE commitIndex' = [commitIndex EXCEPT ![c.src] = LastIndex(c.src)]
      <3>1. LastIndex(c.src) \in Nat /\ LastIndex(c.src) <= LastIndex(c.src)
        BY <1>2, LogFacts DEF TypeInv
      <3> QED BY <1>1, <1>2, <2>2, <3>1, CommitWithin DEF TypeInv, logVars
    <2> QED BY <2>1, <2>2, AppendReplyStep
  <1>6. pNextIndex' \in [Server -> [Server -> Nat \ {0}]]
    <2>1. c.next + Len(c.entries) \in Nat \ {0} /\ c.conflict + 1 \in Nat \ {0}
      BY <1>2
    <2>2. ASSUME NEW n \in Nat \ {0}, pNextIndex' = [pNextIndex EXCEPT ![c.src][c.dst] = n]
          PROVE  pNextIndex' \in [Server -> [Server -> Nat \ {0}]]
      BY <1>2, <2>2
    <2>3. \/ UNCHANGED pNextIndex
          \/ pNextIndex' = [pNextIndex EXCEPT ![c.src][c.dst] = c.next + Len(c.entries)]
          \/ pNextIndex' = [pNextIndex EXCEPT ![c.src][c.dst] = c.conflict + 1]
      BY AppendReplyStep
    <2> QED BY <1>2, <2>1, <2>2, <2>3
  <1>7. LeadTypes'
    <2>1. pMatchIndex' \in [Server -> [Server -> Nat]]
      BY AppendReplyStep
    <2> QED BY <1>1, <1>6, <2>1 DEF TypeInv, LeadTypes
  <1> QED BY <1>3, <1>4, <1>5, <1>7 DEF TypeInv

LEMMA InitTypes ==
    ASSUME Init
    PROVE  TypeInv
  <1>1. <<>> \in Seq(Entries) /\ Len(<<>>) = 0 /\ <<>> \in Seq(Nat)
    OBVIOUS
  <1>2. Nothing \in Slice /\ Nothing.rest = <<>>
    BY DEF Nothing, Slice
  <1>3. Types
    BY <1>1 DEF Init, Types
  <1>4. LogTypes
    BY <1>1, <1>2, RaftAssumption DEF Init, LogTypes
  <1>5. Applying
    <2>1. DOMAIN <<>> = 1..0
      OBVIOUS
    <2>2. \A s \in Server : /\ commitIndex[s] = 0 /\ appliedIndex[s] = 0
                            /\ Len(logs[s]) = 0 /\ Len(stale[s]) = 0
                            /\ Len(taken[s].rest) = 0 /\ DOMAIN applied[s] = 1..0
      BY <1>1, <1>2, <2>1 DEF Init
    <2>3. /\ commitIndex \in [Server -> Nat] /\ appliedIndex \in [Server -> Nat]
          /\ DOMAIN applied = Server
      BY DEF Init
    <2>4. \A s \in Server : /\ commitIndex[s] <= Len(logs[s]) + Len(stale[s])
                            /\ Len(taken[s].rest) <= appliedIndex[s]
                            /\ DOMAIN applied[s] = 1..(appliedIndex[s] - Len(taken[s].rest))
      <3> SUFFICES ASSUME NEW s \in Server
                   PROVE  /\ commitIndex[s] <= Len(logs[s]) + Len(stale[s])
                          /\ Len(taken[s].rest) <= appliedIndex[s]
                          /\ DOMAIN applied[s] = 1..(appliedIndex[s] - Len(taken[s].rest))
        OBVIOUS
      <3>1. 0 <= 0 + 0 /\ 0 <= 0 /\ 0 = 0 - 0
        OBVIOUS
      <3> QED BY <2>2, <3>1, Zenon
    <2> QED BY <2>3, <2>4 DEF Applying, LastIndex
  <1>6. LeadTypes
    BY DEF Init, LeadTypes
  <1> QED BY <1>3, <1>4, <1>5, <1>6 DEF TypeInv

LEMMA StepTypes ==
    ASSUME TypeInv, [Next]_vars
    PROVE  TypeInv'
  <1>1. CASE UNCHANGED vars
    BY <1>1 DEF vars, TypeInv, Types, LogTypes, Applying, LeadTypes, LastIndex
  <1>2. ASSUME NEW s \in Server,
               \/ isTimedOut(s) \/ ElectionWanted(s) \/ ElectionBegun(s)
               \/ ElectionTimer(s) \/ StartRead(s) \/ StartAppend(s)
               \/ LeadRead(s) \/ takeCommits(s) \/ handleCommits(s)
        PROVE  TypeInv'
    BY <1>2, ElectionTypes, StartTypes, LeadStepTypes, CommitTypes
  <1>3. ASSUME NEW c \in rvs,
               VoteRead(c) \/ VoteNewer(c) \/ VoteJudged(c) \/ VoteReply(c) \/ VoteLost(c)
        PROVE  TypeInv'
    BY <1>3, VoteTypes, CountTypes
  <1>4. ASSUME NEW c \in ales,
               \/ LeadLoop(c) \/ LeadSend(c) \/ AppendLogEntry(c)
               \/ AppendReply(c) \/ AppendLost(c)
        PROVE  TypeInv'
    BY <1>4, LeadStepTypes, AppendTypes, AppendReplyTypes
  <1> QED BY <1>1, <1>2, <1>3, <1>4 DEF Next

\* Every variable keeps its type, and what is committed stays within the array that
\* handleCommits reads it from, however logs are cut (AppendLogEntry, handleCommits).
THEOREM TypeInvariance == Spec => []TypeInv
  <1>1. Init => TypeInv
    BY InitTypes
  <1>2. TypeInv /\ [Next]_vars => TypeInv'
    BY StepTypes
  <1> QED BY <1>1, <1>2, PTL DEF Spec

\* A peer that has been misled stays so; only AppendLogEntry and its reply mislead.
LEMMA MisledStep ==
    ASSUME TypeInv, [Next]_vars
    PROVE  misled \subseteq misled' /\ misled' \subseteq misled \cup Server
  <1>1. CASE UNCHANGED vars
    BY <1>1 DEF vars
  <1>2. ASSUME NEW s \in Server,
               \/ isTimedOut(s) \/ ElectionWanted(s) \/ ElectionBegun(s)
               \/ ElectionTimer(s) \/ StartRead(s) \/ StartAppend(s)
               \/ LeadRead(s) \/ takeCommits(s) \/ handleCommits(s)
        PROVE  UNCHANGED misled
    BY <1>2 DEF isTimedOut, ElectionWanted, ElectionBegun, ElectionTimer, StartRead, StartAppend,
                LeadRead, takeCommits, handleCommits, applyVars
  <1>3. ASSUME NEW c \in rvs,
               VoteRead(c) \/ VoteNewer(c) \/ VoteJudged(c) \/ VoteReply(c) \/ VoteLost(c)
        PROVE  UNCHANGED misled
    BY <1>3 DEF VoteRead, VoteNewer, VoteJudged, VoteReply, VoteLost, applyVars
  <1>4. ASSUME NEW c \in ales, LeadLoop(c) \/ LeadSend(c) \/ AppendLost(c)
        PROVE  UNCHANGED misled
    BY <1>4 DEF LeadLoop, LeadSend, AppendLost, applyVars
  <1>5. ASSUME NEW c \in ales, AppendLogEntry(c) \/ AppendReply(c)
        PROVE  misled \subseteq misled' /\ misled' \subseteq misled \cup Server
    <2>1. c.src \in Server /\ c.dst \in Server
      BY ALEFacts DEF TypeInv, LeadTypes
    <2>2. UNCHANGED misled \/ misled' = misled \cup {c.dst} \/ misled' = misled \cup {c.src}
      <3>1. CASE AppendLogEntry(c)
        BY <3>1 DEF AppendLogEntry
      <3>2. CASE AppendReply(c)
        BY <3>2 DEF AppendReply
      <3> QED BY <1>5, <3>1, <3>2
    <2> QED BY <2>1, <2>2
  <1> QED BY <1>1, <1>2, <1>3, <1>4, <1>5 DEF Next

\* TypeOK is an invariant: a commitIndex never passes the array behind the log, and
\* what the service has got of a peer is an unbroken run of indices from 1.
THEOREM TypeCorrect == Spec => []TypeOK
  <1>1. TypeInv /\ misled \subseteq Server => TypeOK
    BY DEF TypeInv, Types, LogTypes, Applying, LeadTypes, TypeOK
  <1>2. Init => misled \subseteq Server
    BY DEF Init
  <1>3. TypeInv /\ misled \subseteq Server /\ [Next]_vars => (misled \subseteq Server)'
    BY MisledStep
  <1> QED BY <1>1, <1>2, <1>3, TypeInvariance, PTL DEF Spec

-----------------------------------------------------------------------------
\* A leader has a majority.

LEMMA Smaller ==
    ASSUME NEW T, IsFiniteSet(T), NEW S, S \subseteq T
    PROVE  /\ IsFiniteSet(S) /\ Cardinality(S) \in Nat /\ Cardinality(T) \in Nat
           /\ Cardinality(S) <= Cardinality(T)
  <1>1. S \in SUBSET T
    OBVIOUS
  <1> QED BY <1>1, FS_Subset, FS_CardinalityType

LEMMA MajorityFacts ==
    /\ Majority \in Nat
    /\ \A m, n \in Nat : m <= n /\ isMajority(m) => isMajority(n)
  <1>1. Cardinality(Server) \in Nat
    BY RaftAssumption, FS_CardinalityType
  <1>2. \A n \in Nat : n \div 2 \in Nat
    OBVIOUS
  <1>3. Majority \in Nat
    BY <1>1, <1>2 DEF Majority
  <1> QED BY <1>3 DEF isMajority

\* The quorum of a leader stays, as grants are only added.
LEMMA QuorumStays ==
    ASSUME TypeInv, ElectionQuorum, IsFiniteSet(grants'), grants \subseteq grants',
           \A t \in Server : DOMAIN votes[t] \subseteq DOMAIN votes'[t],
           NEW s \in Server, Mode[s] = "Leader"
    PROVE  \E e \in DOMAIN votes'[s] : isMajority(1 + Cardinality(Granted(s, e)'))
  <1>1. PICK e \in DOMAIN votes[s] : isMajority(1 + Cardinality(Granted(s, e)))
    BY DEF ElectionQuorum, Granted
  <1>2. Granted(s, e) \subseteq Granted(s, e)' /\ Granted(s, e)' \subseteq grants'
    BY DEF Granted
  <1>3. PICK m \in Nat, n \in Nat :
          m = Cardinality(Granted(s, e)) /\ n = Cardinality(Granted(s, e)') /\ m <= n
    <2>1. IsFiniteSet(Granted(s, e)')
      BY <1>2, Smaller
    <2> QED BY <1>2, <2>1, Smaller
  <1>4. 1 + m \in Nat /\ 1 + n \in Nat /\ 1 + m <= 1 + n
    BY <1>3
  <1>5. isMajority(1 + n)
    BY <1>1, <1>3, <1>4, MajorityFacts
  <1> QED BY <1>3, <1>5

LEMMA QuorumStep ==
    ASSUME TypeInv, ElectionQuorum, IsFiniteSet(grants'), grants \subseteq grants',
           \A t \in Server : DOMAIN votes[t] \subseteq DOMAIN votes'[t],
           \A s \in Server : Mode'[s] = "Leader" => Mode[s] = "Leader"
    PROVE  ElectionQuorum'
  BY QuorumStays DEF ElectionQuorum, Granted

\* A step that leaves the elections alone.
LEMMA QuietElections ==
    ASSUME TypeInv, VoteCounts, UNCHANGED <<votes, grants, rvs>>,
           \A s \in Server : Mode'[s] = "Leader" => Mode[s] = "Leader"
    PROVE  VoteCounts'
  <1>1. ElectionQuorum'
    BY QuorumStep DEF VoteCounts
  <1>2. \A s, e : Spent(s, e)' = Spent(s, e)
    BY DEF Spent, Granted, Asking
  <1> QED BY <1>1, <1>2 DEF VoteCounts

\* A call that goes on, perhaps with a grant.
LEMMA CallGoesOn ==
    ASSUME TypeInv, VoteCounts, NEW c \in rvs, NEW d, Follows(c, d),
           \/ grants' = grants /\ d.granted = c.granted
           \/ grants' = grants /\ ~d.granted
           \/ grants' = grants \cup {GrantOf(c)},
           UNCHANGED votes, \A s \in Server : Mode'[s] = "Leader" => Mode[s] = "Leader"
    PROVE  VoteCounts'
  <1>1. /\ grants \subseteq grants' /\ grants' \subseteq grants \cup {GrantOf(c)}
        /\ IsFiniteSet(grants')
    BY FS_AddElement DEF VoteCounts
  <1>2. ElectionQuorum'
    BY <1>1, QuorumStep DEF VoteCounts
  <1>3. /\ d.src = c.src /\ d.dst = c.dst /\ d.eid = c.eid
        /\ \A x : x \in rvs' <=> (x \in rvs /\ x # c) \/ x = d
    BY DEF Follows, With
  <1>4. \A x, y \in rvs' : x.src = y.src /\ x.dst = y.dst /\ x.eid = y.eid => x = y
    BY <1>3 DEF VoteCounts
  <1>5. \A x \in rvs' : x.granted => GrantOf(x) \in grants'
    <2>1. GrantOf(d) = GrantOf(c)
      BY <1>3 DEF GrantOf
    <2>2. d.granted => GrantOf(d) \in grants'
      BY <2>1 DEF VoteCounts
    <2> QED BY <1>1, <1>3, <2>2 DEF VoteCounts
  <1>6. c.src \in Server /\ c.eid \in DOMAIN votes[c.src]
    BY RVFacts DEF TypeInv, Types
  <1>7. \A g \in grants' : g.eid \in DOMAIN votes'[g.for]
    <2>1. GrantOf(c).eid = c.eid /\ GrantOf(c).for = c.src
      BY DEF GrantOf
    <2> QED BY <1>1, <1>6, <2>1 DEF VoteCounts
  <1>8. \A s, p, e : Asking(s, p, e)' <=> Asking(s, p, e)
    BY <1>3 DEF Asking
  <1>9. ASSUME NEW s \in Server, NEW e \in DOMAIN votes'[s]
        PROVE  votes'[s][e] <= 1 + Cardinality(Spent(s, e)')
    <2>1. Spent(s, e) \subseteq Spent(s, e)' /\ Spent(s, e)' \subseteq grants'
      BY <1>1, <1>8 DEF Spent, Granted
    <2>2. PICK m \in Nat, n \in Nat :
            m = Cardinality(Spent(s, e)) /\ n = Cardinality(Spent(s, e)') /\ m <= n
      <3>1. IsFiniteSet(Spent(s, e)')
        BY <1>1, <2>1, Smaller
      <3> QED BY <2>1, <3>1, Smaller
    <2>3. votes[s][e] \in Nat /\ votes[s][e] <= 1 + m /\ votes'[s][e] = votes[s][e]
      BY <2>2 DEF VoteCounts, TypeInv, Types
    <2> QED BY <2>2, <2>3
  <1> QED BY <1>1, <1>2, <1>4, <1>5, <1>7, <1>9 DEF VoteCounts

LEMMA ElectionCounts ==
    ASSUME TypeInv, VoteCounts, NEW s \in Server, ElectionBegun(s)
    PROVE  VoteCounts'
  <1> DEFINE n == Len(votes[s]) + 1
  <1>1. /\ n \in Nat /\ n \notin DOMAIN votes[s] /\ votes'[s][n] = 1
        /\ \A t \in Server : \A i \in DOMAIN votes[t] :
              i \in DOMAIN votes'[t] /\ votes'[t][i] = votes[t][i]
        /\ \A t \in Server : \A i \in DOMAIN votes'[t] :
              i \in DOMAIN votes[t] \/ (t = s /\ i = n)
        /\ rvs \subseteq rvs'
        /\ \A c \in rvs' : c \in rvs \/ (c.src = s /\ c.eid = n /\ c.granted = FALSE /\ c.dst # s)
        /\ \A c \in rvs' \ rvs : \A d \in rvs' \ rvs : c.dst = d.dst => c = d
    BY ElectionBegunStep
  <1> HIDE DEF n
  <1>2. UNCHANGED <<Mode, grants>>
    BY DEF ElectionBegun
  <1>3. ElectionQuorum'
    BY <1>1, <1>2, QuorumStep DEF VoteCounts
  <1>4. \A c \in rvs : c.src \in Server /\ c.eid \in DOMAIN votes[c.src]
    BY RVFacts DEF TypeInv, Types
  <1>5. \A c, d \in rvs' : c.src = d.src /\ c.dst = d.dst /\ c.eid = d.eid => c = d
    BY <1>1, <1>4 DEF VoteCounts
  <1>6. \A c \in rvs' : c.granted => GrantOf(c) \in grants'
    BY <1>1, <1>2 DEF VoteCounts
  <1>7. \A g \in grants' : g.eid \in DOMAIN votes'[g.for]
    <2>1. \A g \in grants : g.for \in Server
      BY DEF TypeInv, Types, Grant
    <2> QED BY <1>1, <1>2, <2>1 DEF VoteCounts
  <1>8. ASSUME NEW t \in Server, NEW e \in DOMAIN votes'[t]
        PROVE  votes'[t][e] <= 1 + Cardinality(Spent(t, e)')
    <2>1. IsFiniteSet(Spent(t, e)') /\ Cardinality(Spent(t, e)') \in Nat
      <3>1. Spent(t, e)' \subseteq grants' /\ IsFiniteSet(grants')
        BY <1>2 DEF Spent, Granted, VoteCounts
      <3> QED BY <3>1, Smaller
    <2>2. CASE e \in DOMAIN votes[t]
      <3>1. \A p : Asking(t, p, e)' => Asking(t, p, e)
        BY <1>1, <2>2 DEF Asking
      <3>2. Spent(t, e) \subseteq Spent(t, e)'
        BY <1>2, <3>1 DEF Spent, Granted
      <3>3. Cardinality(Spent(t, e)) \in Nat /\ Cardinality(Spent(t, e)) <= Cardinality(Spent(t, e)')
        BY <2>1, <3>2, Smaller
      <3>4. /\ votes[t][e] \in Nat /\ votes[t][e] <= 1 + Cardinality(Spent(t, e))
            /\ votes'[t][e] = votes[t][e]
        BY <1>1, <2>2 DEF VoteCounts, TypeInv, Types
      <3> QED BY <2>1, <3>3, <3>4
    <2>3. CASE t = s /\ e = n
      <3>1. votes'[t][e] = 1
        BY <1>1, <2>3
      <3> QED BY <2>1, <3>1
    <2> QED BY <1>1, <2>2, <2>3
  <1>9. IsFiniteSet(grants')
    BY <1>2 DEF VoteCounts
  <1> QED BY <1>3, <1>5, <1>6, <1>7, <1>8, <1>9 DEF VoteCounts

\* A counted vote is one more that is spent.
LEMMA ReplyCounts ==
    ASSUME TypeInv, TypeInv', VoteCounts, NEW c \in rvs, VoteReply(c) \/ VoteLost(c)
    PROVE  VoteCounts'
  <1> DEFINE src == c.src
             eid == c.eid
  <1>1. /\ src \in Server /\ eid \in DOMAIN votes[src] /\ c.granted \in BOOLEAN
        /\ c.term \in Nat /\ c.rterm \in Nat /\ c.dst \in Server
    BY RVFacts DEF TypeInv, Types
  <1>2. rvs' = rvs \ {c} /\ UNCHANGED grants /\ IsFiniteSet(grants)
    BY DEF VoteReply, VoteLost, VoteCounts
  <1>3. PICK b \in BOOLEAN :
          /\ b => c.granted
          /\ \A t \in Server : DOMAIN votes'[t] = DOMAIN votes[t]
          /\ \A t \in Server : \A i \in DOMAIN votes[t] :
                ~(t = src /\ i = eid) => votes'[t][i] = votes[t][i]
          /\ votes[src][eid] \in Nat /\ votes'[src][eid] <= Counted(votes[src][eid], b)
          /\ \A t \in Server : Mode'[t] = "Leader" =>
                Mode[t] = "Leader" \/ (t = src /\ isMajority(votes'[src][eid]))
    <2>1. CASE CountVote(src, eid, c.granted, c.term, c.rterm)
      <3>1. CASE c.granted = TRUE
        <4>1. CountVote(src, eid, TRUE, c.term, c.rterm)
          BY <2>1, <3>1
        <4>2. /\ \A t \in Server : DOMAIN votes'[t] = DOMAIN votes[t]
              /\ \A t \in Server : \A i \in DOMAIN votes[t] :
                    ~(t = src /\ i = eid) => votes'[t][i] = votes[t][i]
              /\ votes[src][eid] \in Nat /\ votes'[src][eid] <= Counted(votes[src][eid], TRUE)
              /\ \A t \in Server : Mode'[t] = "Leader" =>
                    Mode[t] = "Leader" \/ (t = src /\ isMajority(votes'[src][eid]))
          BY <1>1, <4>1, CountVoteStep
        <4> QED BY <3>1, <4>2
      <3>2. CASE c.granted = FALSE
        <4>1. CountVote(src, eid, FALSE, c.term, c.rterm)
          BY <2>1, <3>2
        <4>2. /\ \A t \in Server : DOMAIN votes'[t] = DOMAIN votes[t]
              /\ \A t \in Server : \A i \in DOMAIN votes[t] :
                    ~(t = src /\ i = eid) => votes'[t][i] = votes[t][i]
              /\ votes[src][eid] \in Nat /\ votes'[src][eid] <= Counted(votes[src][eid], FALSE)
              /\ \A t \in Server : Mode'[t] = "Leader" =>
                    Mode[t] = "Leader" \/ (t = src /\ isMajority(votes'[src][eid]))
          BY <1>1, <4>1, CountVoteStep
        <4> QED BY <4>2
      <3> QED BY <1>1, <3>1, <3>2
    <2>2. CASE CountVote(src, eid, FALSE, c.term, 0)
      BY <1>1, <2>2, CountVoteStep
    <2> QED BY <2>1, <2>2 DEF VoteReply, VoteLost
  <1>4. \A s, e : Spent(s, e) \subseteq Spent(s, e)' /\ Spent(s, e)' \subseteq Granted(s, e)
                 /\ Granted(s, e)' = Granted(s, e) /\ IsFiniteSet(Granted(s, e))
    <2> TAKE s, e
    <2>1. Spent(s, e) \subseteq Spent(s, e)' /\ Spent(s, e)' \subseteq Granted(s, e)
          /\ Granted(s, e)' = Granted(s, e) /\ Granted(s, e) \subseteq grants
      BY <1>2 DEF Spent, Granted, Asking
    <2> QED BY <1>2, <2>1, Smaller
  <1>5. \A s, e : /\ Cardinality(Spent(s, e)) \in Nat /\ Cardinality(Spent(s, e)') \in Nat
                  /\ Cardinality(Granted(s, e)') \in Nat
                  /\ Cardinality(Spent(s, e)) <= Cardinality(Spent(s, e)')
                  /\ Cardinality(Spent(s, e)') <= Cardinality(Granted(s, e)')
    <2> TAKE s, e
    <2>1. IsFiniteSet(Spent(s, e)')
      BY <1>4, Smaller
    <2> QED BY <1>4, <2>1, Smaller
  <1>6. ASSUME NEW s \in Server, NEW e \in DOMAIN votes'[s]
        PROVE  votes'[s][e] <= 1 + Cardinality(Spent(s, e)')
    <2>1. PICK m \in Nat, n \in Nat :
            m = Cardinality(Spent(s, e)) /\ n = Cardinality(Spent(s, e)') /\ m <= n
      BY <1>5
    <2>2. /\ e \in DOMAIN votes[s] /\ votes[s][e] \in Nat /\ votes[s][e] <= 1 + m
          /\ votes'[s][e] \in Nat
      <3>1. votes[s] \in Seq(Nat) /\ votes'[s] \in Seq(Nat)
        BY DEF TypeInv, Types
      <3>2. e \in DOMAIN votes[s]
        BY <1>3
      <3>3. votes[s][e] <= 1 + m
        BY <2>1, <3>2 DEF VoteCounts
      <3> QED BY <3>1, <3>2, <3>3, SMTT(30)
    <2>3. CASE ~(s = src /\ e = eid)
      BY <1>3, <2>1, <2>2, <2>3
    <2>4. CASE s = src /\ e = eid /\ b = FALSE
      BY <1>3, <2>1, <2>2, <2>4 DEF Counted
    <2>5. CASE s = src /\ e = eid /\ b = TRUE
      <3> DEFINE g == GrantOf(c)
      <3>1. g \in grants /\ g.for = s /\ g.eid = e /\ g.voter = c.dst
        BY <1>3, <2>5 DEF VoteCounts, GrantOf
      <3> HIDE DEF g
      <3>2. Asking(s, g.voter, e)
        BY <2>5, <3>1 DEF Asking
      <3>3. ~Asking(s, g.voter, e)'
        BY <1>2, <2>5, <3>1 DEF Asking, VoteCounts
      <3>4. g \in Spent(s, e)' /\ g \notin Spent(s, e)
        BY <1>2, <3>1, <3>2, <3>3 DEF Spent, Granted
      <3>5. IsFiniteSet(Spent(s, e)')
        BY <1>4, Smaller
      <3>6. m < n
        <4>1. Spent(s, e) \in SUBSET Spent(s, e)' /\ Spent(s, e) # Spent(s, e)'
          BY <1>4, <3>4
        <4>2. n = m => Spent(s, e) = Spent(s, e)'
          BY <2>1, <3>5, <4>1, FS_Subset
        <4> QED BY <2>1, <4>1, <4>2
      <3>7. votes'[s][e] <= votes[s][e] + 1
        BY <1>3, <2>5 DEF Counted
      <3> QED BY <2>1, <2>2, <3>6, <3>7
    <2> QED BY <2>3, <2>4, <2>5
  <1>7. ElectionQuorum'
    <2> SUFFICES ASSUME NEW s \in Server, Mode'[s] = "Leader"
                 PROVE  \E e \in DOMAIN votes'[s] : isMajority(1 + Cardinality(Granted(s, e)'))
      BY DEF ElectionQuorum, Granted
    <2>1. CASE Mode[s] = "Leader"
      BY <1>2, <1>3, <2>1, QuorumStays DEF VoteCounts
    <2>2. CASE s = src /\ isMajority(votes'[src][eid])
      <3>1. PICK v \in Nat, n \in Nat, m \in Nat :
              /\ v = votes'[src][eid] /\ n = Cardinality(Spent(s, eid)')
              /\ m = Cardinality(Granted(s, eid)') /\ v <= 1 + n /\ n <= m
        <4>1. votes'[src][eid] \in Nat /\ eid \in DOMAIN votes'[src]
          <5>1. votes'[src] \in Seq(Nat) /\ eid \in DOMAIN votes'[src]
            BY <1>1, <1>3 DEF TypeInv, Types
          <5> QED BY <5>1
        <4> QED BY <1>1, <1>5, <1>6, <2>2, <4>1
      <3>2. v <= 1 + m /\ 1 + m \in Nat
        BY <3>1
      <3>3. isMajority(1 + m)
        BY <2>2, <3>1, <3>2, MajorityFacts
      <3> QED BY <1>1, <1>3, <2>2, <3>1, <3>3
    <2> QED BY <1>3, <2>1, <2>2
  <1>8. /\ \A x, y \in rvs' : x.src = y.src /\ x.dst = y.dst /\ x.eid = y.eid => x = y
        /\ \A x \in rvs' : x.granted => GrantOf(x) \in grants'
    BY <1>2 DEF VoteCounts
  <1>9. \A g \in grants' : g.eid \in DOMAIN votes'[g.for]
    <2>1. \A g \in grants : g.for \in Server
      BY DEF TypeInv, Types, Grant
    <2> QED BY <1>2, <1>3, <2>1 DEF VoteCounts
  <1> QED BY <1>2, <1>6, <1>7, <1>8, <1>9 DEF VoteCounts

LEMMA StepCounts ==
    ASSUME TypeInv, TypeInv', VoteCounts, [Next]_vars
    PROVE  VoteCounts'
  <1>1. CASE UNCHANGED vars
    BY <1>1, QuietElections DEF vars
  <1>2. ASSUME NEW s \in Server, isTimedOut(s) PROVE VoteCounts'
    <2>1. \A t \in Server : Mode'[t] = "Leader" => Mode[t] = "Leader"
      BY <1>2 DEF isTimedOut, TypeInv, Types
    <2> QED BY <1>2, <2>1, QuietElections DEF isTimedOut, electVars
  <1>3. ASSUME NEW s \in Server,
               \/ ElectionWanted(s) \/ ElectionTimer(s) \/ StartRead(s) \/ StartAppend(s)
               \/ LeadRead(s) \/ takeCommits(s) \/ handleCommits(s)
        PROVE  VoteCounts'
    <2>1. UNCHANGED <<Mode, votes, grants, rvs>>
      BY <1>3 DEF ElectionWanted, ElectionTimer, StartRead, StartAppend, LeadRead, takeCommits,
                  handleCommits, electVars
    <2> QED BY <2>1, QuietElections
  <1>4. ASSUME NEW s \in Server, ElectionBegun(s) PROVE VoteCounts'
    BY <1>4, ElectionCounts
  <1>5. ASSUME NEW c \in rvs, VoteRead(c) PROVE VoteCounts'
    <2>1. PICK d : Follows(c, d) /\ d.granted = c.granted
      BY <1>5, VoteReadStep
    <2>2. UNCHANGED <<Mode, votes, grants>>
      BY <1>5 DEF VoteRead
    <2> QED BY <2>1, <2>2, CallGoesOn
  <1>6. ASSUME NEW c \in rvs, VoteNewer(c) PROVE VoteCounts'
    <2>1. PICK d : Follows(c, d) /\ d.granted = c.granted
      BY <1>6, VoteNewerStep
    <2>2. /\ c.dst \in Server /\ c.term \in Nat /\ setToFollower(c.dst, c.term)
          /\ UNCHANGED <<votes, grants>>
      BY <1>6, VoteNewerStep
    <2>3. \A t \in Server : Mode'[t] = "Leader" => Mode[t] = "Leader"
      BY <2>2, setToFollowerTypes DEF TypeInv
    <2> QED BY <2>1, <2>2, <2>3, CallGoesOn
  <1>7. ASSUME NEW c \in rvs, VoteJudged(c) PROVE VoteCounts'
    <2>1. PICK d : /\ Follows(c, d)
                   /\ \/ d.granted /\ grants' = grants \cup {GrantOf(c)}
                      \/ ~d.granted /\ grants' = grants
      BY <1>7, VoteJudgedStep
    <2>2. UNCHANGED <<Mode, votes>>
      BY <1>7 DEF VoteJudged
    <2> QED BY <2>1, <2>2, CallGoesOn
  <1>8. ASSUME NEW c \in rvs, VoteReply(c) \/ VoteLost(c) PROVE VoteCounts'
    BY <1>8, ReplyCounts
  <1>9. ASSUME NEW c \in ales, LeadLoop(c) \/ LeadSend(c) \/ AppendLost(c) PROVE VoteCounts'
    <2>1. UNCHANGED <<Mode, votes, grants, rvs>>
      BY <1>9 DEF LeadLoop, LeadSend, AppendLost, electVars
    <2> QED BY <2>1, QuietElections
  <1>10. ASSUME NEW c \in ales, AppendLogEntry(c) PROVE VoteCounts'
    <2>1. (Refused(c) \/ Stored(c) \/ Heard(c)) /\ UNCHANGED electVars
      BY <1>10, AppendStep
    <2>2. c.dst \in Server /\ c.term \in Nat
      BY ALEFacts DEF TypeInv, LeadTypes
    <2>3. UNCHANGED Mode \/ setToFollower(c.dst, c.term)
      BY <2>1 DEF Refused, Stored, Heard
    <2>4. \A t \in Server : Mode'[t] = "Leader" => Mode[t] = "Leader"
      BY <2>2, <2>3, setToFollowerTypes DEF TypeInv
    <2> QED BY <2>1, <2>4, QuietElections DEF electVars
  <1>11. ASSUME NEW c \in ales, AppendReply(c) PROVE VoteCounts'
    <2>1. \A t \in Server : Mode'[t] = Mode[t] \/ Mode'[t] = "Follower"
      BY <1>11, AppendReplyStep
    <2> QED BY <1>11, <2>1, QuietElections DEF AppendReply, electVars
  <1> QED BY <1>1, <1>2, <1>3, <1>4, <1>5, <1>6, <1>7, <1>8, <1>9, <1>10, <1>11 DEF Next

\* A peer leads only with the grants of a majority in one of its elections: a counter
\* never passes the grants whose calls are over, whatever replies are late, lost or
\* judged after the candidate's term has moved on (isElected, RequestVote).
THEOREM LeadersHaveQuorums == Spec => []ElectionQuorum
  <1>1. Init => VoteCounts
    <2> SUFFICES ASSUME Init PROVE VoteCounts
      OBVIOUS
    <2>1. grants = {} /\ rvs = {} /\ IsFiniteSet({})
      BY FS_EmptySet DEF Init
    <2>2. \A s \in Server : DOMAIN votes[s] = {} /\ Mode[s] = "Follower"
      BY DEF Init
    <2> QED BY <2>1, <2>2 DEF VoteCounts, ElectionQuorum
  <1>2. TypeInv /\ TypeInv' /\ VoteCounts /\ [Next]_vars => VoteCounts'
    BY StepCounts
  <1>3. VoteCounts => ElectionQuorum
    BY DEF VoteCounts
  <1> QED BY <1>1, <1>2, <1>3, TypeInvariance, PTL DEF Spec

-----------------------------------------------------------------------------
\* A leader's log.

LEMMA PrefixOf ==
    ASSUME NEW S, NEW a \in Seq(S), NEW b \in Seq(S), Len(a) <= Len(b),
           \A i \in 1..Len(a) : a[i] = b[i]
    PROVE  IsPrefix(a, b)
  <1>1. PICK n \in Nat : n = Len(a) /\ n <= Len(b)
    OBVIOUS
  <1>2. PICK p \in Seq(S) : p = SubSeq(a, 1, n) /\ Len(p) = n /\ \A i \in 1..n : p[i] = a[i]
    <2> DEFINE p == SubSeq(a, 1, n)
    <2>1. p \in Seq(S) /\ Len(p) = n /\ \A i \in 1..n : p[i] = a[i]
      BY <1>1
    <2> QED BY <2>1, Zenon
  <1>3. PICK q \in Seq(S) : q = SubSeq(b, 1, n) /\ Len(q) = n /\ \A i \in 1..n : q[i] = b[i]
    <2> DEFINE q == SubSeq(b, 1, n)
    <2>1. q \in Seq(S) /\ Len(q) = n /\ \A i \in 1..n : q[i] = b[i]
      BY <1>1
    <2> QED BY <2>1, Zenon
  <1>4. p = q
    BY <1>1, <1>2, <1>3
  <1> QED BY <1>1, <1>2, <1>3, <1>4 DEF IsPrefix

\* What WriteLog writes.
LEMMA WriteLogShape ==
    ASSUME LogTypes, Applying, NEW s \in Server, NEW keep \in 0..LastIndex(s),
           NEW entries \in Seq(Entries), WriteLog(s, keep, entries)
    PROVE  LET log == NewLog(logs[s], keep, entries) IN
           /\ logs'[s] = log /\ stale'[s] = Beyond(Array(s), log)
           /\ \A k \in 1..Len(taken[s].rest) :
                 \/ taken'[s].rest[k] = taken[s].rest[k]
                 \/ /\ First(s) + k \in (keep + 1)..Len(log)
                    /\ taken'[s].rest[k] = log[First(s) + k]
  <1>1. /\ logs \in [Server -> Seq(Entries)] /\ stale \in [Server -> Seq(Entries)]
        /\ taken \in [Server -> Slice]
    BY DEF LogTypes
  <1> DEFINE log == NewLog(logs[s], keep, entries)
             rest == taken[s].rest
             over == [k \in DOMAIN rest |->
                        IF First(s) + k \in (keep + 1)..Len(log) THEN log[First(s) + k] ELSE rest[k]]
  <1>2. /\ logs' = [logs EXCEPT ![s] = log]
        /\ stale' = [stale EXCEPT ![s] = Beyond(Array(s), log)]
        /\ \/ taken' = [taken EXCEPT ![s].rest = IF taken[s].shared THEN over ELSE rest]
           \/ taken' = [taken EXCEPT ![s].shared = FALSE]
    BY <1>1 DEF WriteLog, NewLog, Beyond, Array, First
  <1>3. logs'[s] = log /\ stale'[s] = Beyond(Array(s), log)
    <2> HIDE DEF log
    <2> QED BY <1>1, <1>2
  <1>4. taken'[s].rest = over \/ taken'[s].rest = rest
    <2> HIDE DEF over
    <2>1. taken[s] \in Slice
      BY <1>1
    <2>2. CASE taken' = [taken EXCEPT ![s].shared = FALSE]
      BY <1>1, <2>1, <2>2 DEF Slice
    <2>3. CASE taken' = [taken EXCEPT ![s].rest = IF taken[s].shared THEN over ELSE rest]
      BY <1>1, <2>1, <2>3 DEF Slice
    <2> QED BY <1>2, <2>2, <2>3
  <1>5. ASSUME NEW k \in 1..Len(rest)
        PROVE  \/ over[k] = rest[k]
               \/ First(s) + k \in (keep + 1)..Len(log) /\ over[k] = log[First(s) + k]
    <2>1. k \in DOMAIN rest
      BY LogFacts
    <2> HIDE DEF log, rest
    <2> QED BY <2>1
  <1> HIDE DEF over, log
  <1> QED BY <1>3, <1>4, <1>5 DEF log

\* Only Start and AppendLogEntry write logs; Start writes at the end, and
\* AppendLogEntry makes its peer a follower first.
LEMMA LogsStep ==
    ASSUME TypeInv, [Next]_vars
    PROVE  \/ UNCHANGED logs
           \/ \E s \in Server : StartAppend(s)
           \/ \E c \in ales : AppendLogEntry(c) /\ Stored(c)
  <1>1. CASE UNCHANGED vars
    BY <1>1 DEF vars
  <1>2. ASSUME NEW s \in Server,
               \/ isTimedOut(s) \/ ElectionWanted(s) \/ ElectionBegun(s)
               \/ ElectionTimer(s) \/ StartRead(s)
               \/ LeadRead(s) \/ takeCommits(s) \/ handleCommits(s)
        PROVE  UNCHANGED logs
    BY <1>2 DEF isTimedOut, ElectionWanted, ElectionBegun, ElectionTimer, StartRead, LeadRead,
                takeCommits, handleCommits, logVars
  <1>3. ASSUME NEW c \in rvs,
               VoteRead(c) \/ VoteNewer(c) \/ VoteJudged(c) \/ VoteReply(c) \/ VoteLost(c)
        PROVE  UNCHANGED logs
    BY <1>3 DEF VoteRead, VoteNewer, VoteJudged, VoteReply, VoteLost, logVars
  <1>4. ASSUME NEW c \in ales, LeadLoop(c) \/ LeadSend(c) \/ AppendReply(c) \/ AppendLost(c)
        PROVE  UNCHANGED logs
    BY <1>4 DEF LeadLoop, LeadSend, AppendReply, AppendLost, logVars
  <1>5. ASSUME NEW c \in ales, AppendLogEntry(c)
        PROVE  UNCHANGED logs \/ Stored(c)
    BY <1>5, AppendStep DEF Refused, Heard
  <1> QED BY <1>1, <1>2, <1>3, <1>4, <1>5 DEF Next

\* No step changes the log of a peer that leads before and after it, except at its end
\* (Start, AppendLogEntry).
THEOREM LeadersOnlyAppend == Spec => LeaderAppendOnly
  <1>1. ASSUME TypeInv, [Next]_vars, NEW s \in Server, Mode[s] = "Leader", Mode'[s] = "Leader"
        PROVE  IsPrefix(logs[s], logs'[s])
    <2>1. LogTypes /\ Applying /\ logs[s] \in Seq(Entries)
      BY <1>1, LogFacts DEF TypeInv
    <2>2. CASE logs'[s] = logs[s]
      BY <2>1, <2>2, PrefixOf
    <2>3. ASSUME NEW t \in Server, StartAppend(t)
          PROVE  IsPrefix(logs[s], logs'[s])
      <3>1. PICK es \in Seq(Entries) : WriteLog(t, LastIndex(t), es)
        <4>1. PICK le \in starting[t] : WriteLog(t, LastIndex(t), <<le>>)
          BY <2>3 DEF StartAppend
        <4>2. <<le>> \in Seq(Entries)
          BY <1>1 DEF TypeInv, LogTypes
        <4> QED BY <4>1, <4>2
      <3>2. LastIndex(t) \in 0..LastIndex(t)
        BY <2>1, LogFacts
      <3>3. CASE t # s
        BY <2>1, <2>2, <3>1, <3>2, <3>3, WriteLogFacts
      <3>4. CASE t = s
        <4>1. PICK a \in Seq(Entries), n \in Nat : a = logs[s] /\ n = Len(a) /\ LastIndex(s) = n
          BY <2>1 DEF LastIndex
        <4>2. logs'[s] = NewLog(a, n, es)
          BY <2>1, <3>1, <3>2, <3>4, <4>1, WriteLogShape
        <4>3. n \in 0..Len(a)
          BY <4>1
        <4>4. PICK b : b = NewLog(a, n, es)
          OBVIOUS
        <4>5. b \in Seq(Entries) /\ Len(b) = n + Len(es) /\ \A i \in 1..n : b[i] = a[i]
          BY <4>3, <4>4, NewLogFacts
        <4>6. Len(a) <= Len(b)
          BY <4>1, <4>5
        <4> QED BY <4>1, <4>2, <4>4, <4>5, <4>6, PrefixOf
      <3> QED BY <3>3, <3>4
    <2>4. ASSUME NEW c \in ales, Stored(c)
          PROVE  IsPrefix(logs[s], logs'[s])
      <3>1. /\ c.dst \in Server /\ c.term \in Nat /\ c.prev \in Nat /\ c.entries \in Seq(Entries)
            /\ Types
        BY <1>1, ALEFacts DEF TypeInv, LeadTypes
      <3>2. setToFollower(c.dst, c.term) /\ WriteLog(c.dst, c.prev, c.entries)
            /\ c.prev <= LastIndex(c.dst)
        BY <2>4 DEF Stored, Matching
      <3>3. s # c.dst
        BY <1>1, <3>1, <3>2, setToFollowerTypes
      <3>4. c.prev \in 0..LastIndex(c.dst)
        BY <2>1, <3>1, <3>2, LogFacts
      <3> QED BY <2>1, <2>2, <3>1, <3>2, <3>3, <3>4, WriteLogFacts
    <2> QED BY <1>1, <2>2, <2>3, <2>4, LogsStep
  <1>2. TypeInv /\ [Next]_vars =>
          [\A s \in Server : Mode[s] = "Leader" /\ Mode'[s] = "Leader" =>
               IsPrefix(logs[s], logs'[s])]_vars
    BY <1>1
  <1> QED BY <1>2, TypeInvariance, PTL DEF Spec, LeaderAppendOnly

-----------------------------------------------------------------------------
\* A peer that has not been misled: no index it slices its log with is beyond it.

\* The indices of a call stay within a log of length n.
Within(c, n) ==
    /\ c.st # "looping" => c.next <= n + 1
    /\ c.st \in {"sent", "replied"} => c.prev = c.next - 1 /\ c.prev + Len(c.entries) <= n

Sound(s) ==
    /\ s \in alive
    /\ \A p \in Server : pNextIndex[s][p] <= LastIndex(s) + 1
    /\ \A c \in ales : c.src = s => Within(c, LastIndex(s))

Sounds == \A s \in Server \ misled : Sound(s)

\* A log that nobody cuts does not get shorter.
LEMMA LogGrows ==
    ASSUME TypeInv, [Next]_vars, NEW s \in Server, s \notin misled'
    PROVE  LastIndex(s) <= LastIndex(s)'
  <1>1. LogTypes /\ Applying /\ logs[s] \in Seq(Entries) /\ LastIndex(s) \in Nat
    BY LogFacts DEF TypeInv
  <1>2. CASE logs'[s] = logs[s]
    BY <1>1, <1>2 DEF LastIndex
  <1>3. ASSUME NEW t \in Server, NEW keep \in 0..LastIndex(t), NEW es \in Seq(Entries),
               WriteLog(t, keep, es), t = s => keep + Len(es) >= LastIndex(s)
        PROVE  LastIndex(s) <= LastIndex(s)'
    <2>1. CASE t # s
      BY <1>1, <1>2, <1>3, <2>1, WriteLogFacts
    <2>2. CASE t = s
      <3>1. PICK a \in Seq(Entries) : a = logs[s] /\ LastIndex(s) = Len(a)
        BY <1>1 DEF LastIndex
      <3>2. logs'[s] = NewLog(a, keep, es)
        BY <1>1, <1>3, <2>2, <3>1, WriteLogShape
      <3>3. keep \in 0..Len(a)
        BY <2>2, <3>1
      <3>4. Len(NewLog(a, keep, es)) = keep + Len(es)
        BY <3>3, NewLogFacts, ZenonT(30)
      <3> QED BY <1>3, <2>2, <3>2, <3>4 DEF LastIndex
    <2> QED BY <2>1, <2>2
  <1>4. ASSUME NEW t \in Server, StartAppend(t) PROVE LastIndex(s) <= LastIndex(s)'
    <2>1. PICK le \in starting[t] : WriteLog(t, LastIndex(t), <<le>>)
      BY <1>4 DEF StartAppend
    <2>2. PICK es \in Seq(Entries) : WriteLog(t, LastIndex(t), es)
      <3>1. <<le>> \in Seq(Entries)
        BY <2>1 DEF TypeInv, LogTypes
      <3> QED BY <2>1, <3>1
    <2>3. LastIndex(t) \in 0..LastIndex(t) /\ LastIndex(t) + Len(es) >= LastIndex(t)
      BY <1>1, LogFacts
    <2> QED BY <1>3, <2>2, <2>3
  <1>5. ASSUME NEW c \in ales, AppendLogEntry(c), Stored(c), logs'[s] # logs[s]
        PROVE  LastIndex(s) <= LastIndex(s)'
    <2>1. /\ c.dst \in Server /\ c.prev \in Nat /\ c.entries \in Seq(Entries)
          /\ Len(c.entries) \in Nat
      BY ALEFacts DEF TypeInv, LeadTypes
    <2>2. WriteLog(c.dst, c.prev, c.entries) /\ c.prev <= LastIndex(c.dst)
      BY <1>5 DEF Stored, Matching
    <2>3. c.prev \in 0..LastIndex(c.dst)
      BY <1>1, <2>1, <2>2, LogFacts
    <2>4. misled' = misled \cup (IF c.prev + Len(c.entries) < LastIndex(c.dst) THEN {c.dst} ELSE {})
      <3>1. logs' # logs
        BY <1>5
      <3> QED BY <1>5, <3>1 DEF AppendLogEntry
    <2>5. c.dst = s => ~(c.prev + Len(c.entries) < LastIndex(s))
      BY <2>4
    <2>6. c.dst = s => c.prev + Len(c.entries) >= LastIndex(s)
      BY <1>1, <2>1, <2>5
    <2> QED BY <1>3, <2>1, <2>2, <2>3, <2>6
  <1> QED BY <1>2, <1>4, <1>5, LogsStep

\* Within a log that grows the indices stay within it.
LEMMA WithinGrows ==
    ASSUME NEW c \in ALECall, NEW m \in Nat, NEW n \in Nat, m <= n, Within(c, m)
    PROVE  Within(c, n)
  <1>1. c.next \in Nat /\ c.prev \in Nat /\ Len(c.entries) \in Nat
    BY ALEFacts
  <1> QED BY <1>1 DEF Within

\* What a step must leave of a sound peer.
LEMMA StaysSound ==
    ASSUME TypeInv, TypeInv', [Next]_vars, NEW s \in Server, s \notin misled', Sound(s),
           s \in alive',
           \A p \in Server : pNextIndex'[s][p] = pNextIndex[s][p]
                                \/ pNextIndex'[s][p] <= LastIndex(s) + 1,
           \A x \in ales' : x \in ales \/ (x.src = s => Within(x, LastIndex(s)))
    PROVE  Sound(s)'
  <1>1. LastIndex(s) \in Nat /\ LastIndex(s)' \in Nat /\ LastIndex(s) <= LastIndex(s)'
    <2>1. LastIndex(s) \in Nat
      BY LogFacts DEF TypeInv
    <2>2. LastIndex(s)' \in Nat
      BY DEF TypeInv, LogTypes, LastIndex
    <2> QED BY <2>1, <2>2, LogGrows
  <1>2. ASSUME NEW p \in Server PROVE pNextIndex'[s][p] <= LastIndex(s)' + 1
    <2>1. pNextIndex'[s][p] \in Nat /\ pNextIndex'[s][p] <= LastIndex(s) + 1
      BY DEF Sound, TypeInv, LeadTypes
    <2> QED BY <1>1, <2>1
  <1>3. ASSUME NEW x \in ales', x.src = s PROVE Within(x, LastIndex(s)')
    <2>1. x \in ALECall /\ Within(x, LastIndex(s))
      BY <1>3 DEF Sound, TypeInv, LeadTypes
    <2> QED BY <1>1, <2>1, WithinGrows
  <1>4. \A x \in ales' : x.src = s => Within(x, LastIndex(s))'
    BY <1>3 DEF Within
  <1> QED BY <1>2, <1>4 DEF Sound

\* The steps of a round, and the answers.
LEMMA SoundCalls ==
    ASSUME TypeInv, NEW s \in Server, Sound(s), s \notin misled',
           \/ \E t \in Server : LeadRead(t)
           \/ \E c \in ales : \/ LeadLoop(c) \/ LeadSend(c) \/ AppendLogEntry(c)
                              \/ AppendReply(c) \/ AppendLost(c)
    PROVE  /\ s \in alive'
           /\ \A x \in ales' : x \in ales \/ (x.src = s => Within(x, LastIndex(s)))
  <1>1. s \in alive /\ LastIndex(s) \in Nat
    BY LogFacts DEF Sound, TypeInv
  <1>2. ASSUME NEW t \in Server, LeadRead(t)
        PROVE  /\ s \in alive'
               /\ \A x \in ales' : x \in ales \/ (x.src = s => Within(x, LastIndex(s)))
    <2>1. UNCHANGED alive /\ \A x \in ales' : x \in ales \/ x.st = "looping"
      BY <1>2, LeadReadStep DEF LeadRead
    <2> QED BY <1>1, <2>1 DEF Within
  <1>3. ASSUME NEW c \in ales, NEW d, Goes(c, d), c.src = s => Within(d, LastIndex(s))
        PROVE  \A x \in ales' : x \in ales \/ (x.src = s => Within(x, LastIndex(s)))
    BY <1>3 DEF Goes, With
  <1>4. ASSUME NEW c \in ales, LeadLoop(c)
        PROVE  /\ s \in alive'
               /\ \A x \in ales' : x \in ales \/ (x.src = s => Within(x, LastIndex(s)))
    <2>1. UNCHANGED alive
      BY <1>4 DEF LeadLoop
    <2>2. PICK d : Goes(c, d) /\ d.st = "spawned" /\ d.next = pNextIndex[c.src][c.dst]
      BY <1>4, LeadLoopStep
    <2>3. c.dst \in Server
      BY ALEFacts DEF TypeInv, LeadTypes
    <2>4. c.src = s => Within(d, LastIndex(s))
      BY <2>2, <2>3 DEF Sound, Within
    <2> QED BY <1>1, <1>3, <2>1, <2>2, <2>4
  <1>5. ASSUME NEW c \in ales, LeadSend(c)
        PROVE  /\ s \in alive'
               /\ \A x \in ales' : x \in ales \/ (x.src = s => Within(x, LastIndex(s)))
    <2>1. c.next \in Nat /\ (c.src = s => c.next <= LastIndex(s) + 1)
      <3>1. c.st = "spawned" /\ c \in ALECall
        BY <1>5 DEF LeadSend, TypeInv, LeadTypes
      <3> QED BY <3>1, ALEFacts DEF Sound, Within
    <2>2. c.src = s => ~(c.next - 1 > LastIndex(s))
      BY <1>1, <2>1
    <2>3. CASE c.next - 1 > LastIndex(c.src) /\ ales' = ales \ {c} /\ alive' = alive \ {c.src}
      BY <1>1, <2>2, <2>3
    <2>4. CASE /\ UNCHANGED alive
               /\ \E d : /\ Goes(c, d) /\ d.st = "sent" /\ d.next = c.next
                         /\ d.prev = c.next - 1 /\ d.prev + Len(d.entries) <= LastIndex(c.src)
      <3>1. PICK d : /\ Goes(c, d) /\ d.st = "sent" /\ d.next = c.next
                     /\ d.prev = c.next - 1 /\ d.prev + Len(d.entries) <= LastIndex(c.src)
        BY <2>4
      <3>2. c.src = s => Within(d, LastIndex(s))
        BY <2>1, <3>1 DEF Within
      <3> QED BY <1>1, <1>3, <2>4, <3>1, <3>2
    <2> QED BY <1>5, <2>3, <2>4, LeadSendStep
  <1>6. ASSUME NEW c \in ales, AppendLogEntry(c)
        PROVE  /\ s \in alive'
               /\ \A x \in ales' : x \in ales \/ (x.src = s => Within(x, LastIndex(s)))
    <2>1. UNCHANGED alive
      BY <1>6, AppendStep
    <2>2. PICK d : /\ Goes(c, d) /\ d.st = "replied" /\ d.next = c.next /\ d.prev = c.prev
                   /\ d.entries = c.entries
      BY <1>6, AppendStep
    <2>3. c.src = s => Within(d, LastIndex(s))
      <3>1. c.st = "sent"
        BY <1>6 DEF AppendLogEntry
      <3> QED BY <2>2, <3>1 DEF Sound, Within
    <2> QED BY <1>1, <1>3, <2>1, <2>2, <2>3
  <1>7. ASSUME NEW c \in ales, AppendReply(c) \/ AppendLost(c)
        PROVE  /\ s \in alive'
               /\ \A x \in ales' : x \in ales \/ (x.src = s => Within(x, LastIndex(s)))
    <2>1. ales' = ales \ {c} /\ UNCHANGED alive
      BY <1>7 DEF AppendReply, AppendLost
    <2> QED BY <1>1, <2>1
  <1> QED BY <1>2, <1>4, <1>5, <1>6, <1>7

\* The reply sets pNextIndex within the log, unless it misleads.
LEMMA SoundReply ==
    ASSUME TypeInv, NEW s \in Server, Sound(s), s \notin misled', NEW c \in ales, AppendReply(c)
    PROVE  \A p \in Server : pNextIndex'[s][p] = pNextIndex[s][p]
                                \/ pNextIndex'[s][p] <= LastIndex(s) + 1
  <1>1. /\ pNextIndex \in [Server -> [Server -> Nat \ {0}]] /\ LastIndex(s) \in Nat
        /\ c \in ALECall /\ c.src \in Server /\ c.dst \in Server
        /\ c.next \in Nat /\ c.prev \in Nat /\ c.conflict \in Nat /\ Len(c.entries) \in Nat
    <2>1. pNextIndex \in [Server -> [Server -> Nat \ {0}]] /\ c \in ALECall /\ LastIndex(s) \in Nat
      BY LogFacts DEF TypeInv, LeadTypes
    <2> QED BY <2>1, ALEFacts
  <1>2. CASE UNCHANGED pNextIndex
    BY <1>2
  <1>3. ASSUME NEW n, pNextIndex' = [pNextIndex EXCEPT ![c.src][c.dst] = n],
               c.src = s => n <= LastIndex(s) + 1
        PROVE  \A p \in Server : pNextIndex'[s][p] = pNextIndex[s][p]
                                    \/ pNextIndex'[s][p] <= LastIndex(s) + 1
    BY <1>1, <1>3
  <1>4. CASE Replicated(c)
    <2>1. pNextIndex' = [pNextIndex EXCEPT ![c.src][c.dst] = c.next + Len(c.entries)]
      BY <1>4 DEF Replicated
    <2>2. c.src = s => c.prev = c.next - 1 /\ c.prev + Len(c.entries) <= LastIndex(s)
      BY DEF Sound, Within, AppendReply
    <2>3. c.src = s => c.next + Len(c.entries) <= LastIndex(s) + 1
      BY <1>1, <2>2
    <2> QED BY <1>3, <2>1, <2>3
  <1>5. CASE /\ pNextIndex' = [pNextIndex EXCEPT ![c.src][c.dst] = c.conflict + 1]
             /\ misled' = misled \cup (IF c.conflict > LastIndex(c.src) THEN {c.src} ELSE {})
    <2>1. c.src = s => ~(c.conflict > LastIndex(s))
      BY <1>5
    <2>2. c.src = s => c.conflict + 1 <= LastIndex(s) + 1
      BY <1>1, <2>1
    <2> QED BY <1>3, <1>5, <2>2
  <1> QED BY <1>2, <1>4, <1>5, Zenon DEF AppendReply

LEMMA SoundStep ==
    ASSUME TypeInv, TypeInv', Sounds, [Next]_vars
    PROVE  Sounds'
  <1> SUFFICES ASSUME NEW s \in Server, s \notin misled' PROVE Sound(s)'
    BY DEF Sounds
  <1>1. Sound(s)
    BY MisledStep DEF Sounds
  <1>2. CASE UNCHANGED <<alive, pNextIndex, ales>>
    <2>1. s \in alive' /\ \A p \in Server : pNextIndex'[s][p] = pNextIndex[s][p]
      BY <1>1, <1>2 DEF Sound
    <2> QED BY <1>1, <1>2, <2>1, StaysSound
  <1>3. ASSUME NEW c \in rvs, VoteReply(c) \/ VoteLost(c)
        PROVE  Sound(s)'
    <2>1. UNCHANGED <<alive, ales>>
      BY <1>3 DEF VoteReply, VoteLost
    <2>2. /\ c.src \in Server /\ c.eid \in DOMAIN votes[c.src] /\ c.granted \in BOOLEAN
          /\ c.term \in Nat /\ c.rterm \in Nat
      BY RVFacts DEF TypeInv, Types
    <2>3. \A p \in Server : pNextIndex'[s][p] = pNextIndex[s][p] \/ pNextIndex'[s][p] = LastIndex(s) + 1
      <3>1. CASE CountVote(c.src, c.eid, c.granted, c.term, c.rterm)
        BY <2>2, <3>1, CountVoteStep
      <3>2. CASE CountVote(c.src, c.eid, FALSE, c.term, 0)
        BY <2>2, <3>2, CountVoteStep
      <3> QED BY <1>3, <3>1, <3>2 DEF VoteReply, VoteLost
    <2>4. LastIndex(s) + 1 <= LastIndex(s) + 1
      BY LogFacts DEF TypeInv
    <2>5. s \in alive'
      BY <1>1, <2>1 DEF Sound
    <2> QED BY <1>1, <2>1, <2>3, <2>4, <2>5, StaysSound
  <1>4. ASSUME UNCHANGED pNextIndex,
               \/ \E t \in Server : LeadRead(t)
               \/ \E c \in ales : LeadLoop(c) \/ LeadSend(c) \/ AppendLogEntry(c) \/ AppendLost(c)
        PROVE  Sound(s)'
    <2>1. /\ s \in alive'
          /\ \A x \in ales' : x \in ales \/ (x.src = s => Within(x, LastIndex(s)))
      BY <1>1, <1>4, SoundCalls
    <2> QED BY <1>1, <1>4, <2>1, StaysSound
  <1>5. ASSUME NEW c \in ales, AppendReply(c) PROVE Sound(s)'
    <2>1. /\ s \in alive'
          /\ \A x \in ales' : x \in ales \/ (x.src = s => Within(x, LastIndex(s)))
      BY <1>1, <1>5, SoundCalls
    <2> QED BY <1>1, <1>5, <2>1, SoundReply, StaysSound
  <1>6. CASE UNCHANGED vars
    BY <1>2, <1>6 DEF vars
  <1>7. ASSUME NEW t \in Server,
               \/ isTimedOut(t) \/ ElectionWanted(t) \/ ElectionBegun(t)
               \/ ElectionTimer(t) \/ StartRead(t) \/ StartAppend(t)
               \/ takeCommits(t) \/ handleCommits(t)
        PROVE  UNCHANGED <<alive, pNextIndex, ales>>
    BY <1>7 DEF isTimedOut, ElectionWanted, ElectionBegun, ElectionTimer, StartRead, StartAppend,
                takeCommits, handleCommits, leadVars
  <1>8. ASSUME NEW c \in rvs, VoteRead(c) \/ VoteNewer(c) \/ VoteJudged(c)
        PROVE  UNCHANGED <<alive, pNextIndex, ales>>
    BY <1>8 DEF VoteRead, VoteNewer, VoteJudged, leadVars
  <1>9. ASSUME NEW t \in Server, LeadRead(t) PROVE Sound(s)'
    <2>1. UNCHANGED pNextIndex
      BY <1>9 DEF LeadRead
    <2> QED BY <1>4, <1>9, <2>1
  <1>10. ASSUME NEW c \in ales, LeadLoop(c) \/ LeadSend(c) \/ AppendLogEntry(c) \/ AppendLost(c)
         PROVE  Sound(s)'
    <2>1. UNCHANGED pNextIndex
      BY <1>10 DEF LeadLoop, LeadSend, AppendLogEntry, AppendLost
    <2> QED BY <1>4, <1>10, <2>1
  <1> QED BY <1>2, <1>3, <1>5, <1>6, <1>7, <1>8, <1>9, <1>10 DEF Next

\* A peer panics in isLeading or buildAppendLogArgs only if another leader has made its
\* log shorter, or a peer has told it a conflict index beyond its log: with any number
\* of candidates, no late, lost or overtaken reply takes an index beyond the log.
THEOREM PanicsNeedCuts == Spec => []PanicsOnlyIfMisled
  <1>1. Init => Sounds
    <2> SUFFICES ASSUME Init, NEW s \in Server PROVE Sound(s)
      BY DEF Sounds
    <2>1. Len(<<>>) = 0 /\ 1 <= 0 + 1
      OBVIOUS
    <2>2. /\ logs[s] = <<>> /\ ales = {} /\ s \in alive
          /\ \A p \in Server : pNextIndex[s][p] = 1
      BY DEF Init
    <2> QED BY <2>1, <2>2 DEF Sound, LastIndex
  <1>2. TypeInv /\ TypeInv' /\ Sounds /\ [Next]_vars => Sounds'
    BY SoundStep
  <1>3. Sounds => PanicsOnlyIfMisled
    BY DEF Sounds, Sound, PanicsOnlyIfMisled
  <1> QED BY <1>1, <1>2, <1>3, TypeInvariance, PTL DEF Spec

-----------------------------------------------------------------------------
\* One candidate: every log is the beginning of its log.

LEMMA SameAgrees ==
    ASSUME NEW s \in Server, NEW ref, Agrees(s, ref),
           logs'[s] = logs[s], stale'[s] = stale[s], taken'[s] = taken[s],
           appliedIndex'[s] = appliedIndex[s], applied'[s] = applied[s]
    PROVE  Agrees(s, ref)'
  BY DEF Agrees, First, LastIndex

LEMMA AgreesGrows ==
    ASSUME LogTypes, Applying, NEW s \in Server, NEW old \in Seq(Entries), NEW new \in Seq(Entries),
           Len(old) <= Len(new), \A i \in 1..Len(old) : new[i] = old[i], Agrees(s, old)
    PROVE  Agrees(s, new)
  <1>1. /\ LastIndex(s) \in Nat /\ Len(stale[s]) \in Nat /\ Len(taken[s].rest) \in Nat
        /\ First(s) \in Nat /\ DOMAIN applied[s] = 1..First(s)
        /\ Len(old) \in Nat /\ Len(new) \in Nat
    <2>1. appliedIndex[s] \in Nat /\ Len(taken[s].rest) <= appliedIndex[s]
          /\ DOMAIN applied[s] = 1..First(s)
      BY DEF Applying, First
    <2>2. LastIndex(s) \in Nat /\ Len(stale[s]) \in Nat /\ Len(taken[s].rest) \in Nat
      BY LogFacts
    <2> QED BY <2>1, <2>2 DEF First
  <1>2. \A i \in Nat : i > 0 /\ i <= Len(old) => i <= Len(new) /\ new[i] = old[i]
    BY <1>1
  <1>3. \A i \in 1..LastIndex(s) : i <= Len(new) /\ logs[s][i] = new[i]
    <2> TAKE i \in 1..LastIndex(s)
    <2>1. i \in Nat /\ i > 0 /\ i <= Len(old) /\ logs[s][i] = old[i]
      BY <1>1 DEF Agrees
    <2> QED BY <1>2, <2>1, Zenon
  <1>4. \A i \in 1..Len(stale[s]) : /\ LastIndex(s) + i <= Len(new)
                                   /\ stale[s][i] = new[LastIndex(s) + i]
    <2> TAKE i \in 1..Len(stale[s])
    <2>1. PICK j \in Nat : j = LastIndex(s) + i /\ j > 0 /\ j <= Len(old) /\ stale[s][i] = old[j]
      <3>1. LastIndex(s) + i \in Nat /\ LastIndex(s) + i > 0
        BY <1>1
      <3>2. LastIndex(s) + i <= Len(old) /\ stale[s][i] = old[LastIndex(s) + i]
        BY DEF Agrees
      <3> QED BY <3>1, <3>2
    <2> QED BY <1>2, <2>1
  <1>5. \A k \in 1..Len(taken[s].rest) : /\ First(s) + k <= Len(new)
                                        /\ taken[s].rest[k] = new[First(s) + k]
    <2> TAKE k \in 1..Len(taken[s].rest)
    <2>1. PICK j \in Nat : j = First(s) + k /\ j > 0 /\ j <= Len(old) /\ taken[s].rest[k] = old[j]
      BY <1>1 DEF Agrees
    <2> QED BY <1>2, <2>1
  <1>6. \A i \in DOMAIN applied[s] : i <= Len(new) /\ applied[s][i] = new[i].cmd
    <2> TAKE i \in DOMAIN applied[s]
    <2>1. i \in Nat /\ i > 0 /\ i <= Len(old) /\ applied[s][i] = old[i].cmd
      BY <1>1 DEF Agrees
    <2> QED BY <1>2, <2>1
  <1> QED BY <1>3, <1>4, <1>5, <1>6 DEF Agrees

LEMMA ArrayAgrees ==
    ASSUME LogTypes, Applying, NEW s \in Server, NEW ref \in Seq(Entries), Agrees(s, ref)
    PROVE  \A i \in 1..Len(Array(s)) : i <= Len(ref) /\ Array(s)[i] = ref[i]
  <1>1. PICK a \in Seq(Entries), b \in Seq(Entries) :
          a = logs[s] /\ b = stale[s] /\ Array(s) = a \o b /\ LastIndex(s) = Len(a)
    BY LogFacts DEF Array, LastIndex
  <1>2. PICK z : z = a \o b
    OBVIOUS
  <1>3. /\ Len(z) = Len(a) + Len(b) /\ \A i \in 1..Len(a) : z[i] = a[i]
        /\ \A i \in 1..Len(b) : z[Len(a) + i] = b[i]
    BY ONLY <1>2, ConcatFacts, a \in Seq(Entries), b \in Seq(Entries)
  <1>4. ASSUME NEW i \in 1..Len(z) PROVE i <= Len(ref) /\ z[i] = ref[i]
    <2>1. CASE i <= Len(a)
      <3>1. i \in 1..Len(a)
        BY <1>3, <2>1
      <3> QED BY <1>1, <1>3, <3>1 DEF Agrees
    <2>2. CASE i > Len(a)
      <3>1. PICK k \in 1..Len(b) : i = Len(a) + k
        <4>1. i - Len(a) \in 1..Len(b) /\ i = Len(a) + (i - Len(a))
          BY <1>3, <2>2
        <4> QED BY <4>1
      <3>2. Len(a) + k <= Len(ref) /\ b[k] = ref[Len(a) + k]
        BY <1>1 DEF Agrees
      <3> QED BY <1>3, <3>1, <3>2
    <2>3. i <= Len(a) \/ i > Len(a)
      BY <1>3
    <2> QED BY <2>1, <2>2, <2>3
  <1> QED BY <1>1, <1>2, <1>4

LEMMA WriteAgrees ==
    ASSUME LogTypes, Applying, NEW s \in Server, NEW keep \in 0..LastIndex(s),
           NEW entries \in Seq(Entries), WriteLog(s, keep, entries),
           UNCHANGED <<appliedIndex, applied>>, NEW ref \in Seq(Entries), Agrees(s, ref),
           keep + Len(entries) <= Len(ref), \A k \in 1..Len(entries) : entries[k] = ref[keep + k]
    PROVE  Agrees(s, ref)'
  <1>1. PICK a \in Seq(Entries) : a = logs[s] /\ Len(a) = LastIndex(s)
    BY LogFacts DEF LastIndex
  <1>2. keep \in 0..Len(a)
    BY <1>1
  <1>3. PICK b : b = NewLog(a, keep, entries)
    OBVIOUS
  <1>4. /\ b \in Seq(Entries) /\ Len(b) = keep + Len(entries) /\ Len(b) \in Nat
        /\ \A i \in 1..keep : b[i] = a[i]
        /\ \A i \in 1..Len(entries) : b[keep + i] = entries[i]
    BY <1>2, <1>3, NewLogFacts
  <1>5. /\ logs'[s] = b /\ stale'[s] = Beyond(Array(s), b)
        /\ \A k \in 1..Len(taken[s].rest) :
              \/ taken'[s].rest[k] = taken[s].rest[k]
              \/ /\ First(s) + k \in (keep + 1)..Len(b)
                 /\ taken'[s].rest[k] = b[First(s) + k]
    BY <1>1, <1>3, WriteLogShape
  <1>6. ASSUME NEW i \in 1..Len(b) PROVE i <= Len(ref) /\ b[i] = ref[i]
    <2>0. keep \in Nat /\ Len(entries) \in Nat /\ Len(ref) \in Nat /\ i \in Nat
      BY <1>2
    <2>1. CASE i <= keep
      <3>1. i \in 1..keep /\ i \in 1..LastIndex(s)
        BY <1>1, <1>2, <2>0, <2>1
      <3> QED BY <1>1, <1>4, <3>1 DEF Agrees
    <2>2. CASE i > keep
      <3>1. PICK k \in 1..Len(entries) : i = keep + k
        <4>1. i - keep \in 1..Len(entries) /\ i = keep + (i - keep)
          BY <1>4, <2>0, <2>2
        <4> QED BY <4>1
      <3>2. i <= Len(ref)
        BY <1>4, <2>0
      <3> QED BY <1>4, <3>1, <3>2
    <2> QED BY <2>0, <2>1, <2>2
  <1>7. PICK z \in Seq(Entries) : z = Array(s)
    BY TakenFacts
  <1>8. PICK x : x = Beyond(z, b)
    OBVIOUS
  <1>9. /\ x \in Seq(Entries) /\ Len(x) \in Nat
        /\ Len(x) = IF Len(z) > Len(b) THEN Len(z) - Len(b) ELSE 0
        /\ \A i \in DOMAIN x : x[i] = z[Len(b) + i]
    BY <1>4, <1>8, BeyondFacts
  <1>10. ASSUME NEW i \in 1..Len(x) PROVE Len(b) + i <= Len(ref) /\ x[i] = ref[Len(b) + i]
    <2>1. i \in DOMAIN x /\ Len(b) + i \in 1..Len(z)
      BY <1>4, <1>9
    <2>2. x[i] = z[Len(b) + i]
      BY <1>9, <2>1
    <2>3. Len(b) + i <= Len(ref) /\ z[Len(b) + i] = ref[Len(b) + i]
      BY <1>7, <2>1, ArrayAgrees
    <2> QED BY <2>2, <2>3
  <1>11. Len(taken'[s].rest) = Len(taken[s].rest) /\ First(s)' = First(s)
    BY WriteLogFacts DEF First
  <1>12. ASSUME NEW k \in 1..Len(taken[s].rest)
         PROVE  First(s) + k <= Len(ref) /\ taken'[s].rest[k] = ref[First(s) + k]
    <2>1. First(s) + k <= Len(ref) /\ taken[s].rest[k] = ref[First(s) + k]
      BY DEF Agrees
    <2>2. CASE /\ First(s) + k \in (keep + 1)..Len(b)
               /\ taken'[s].rest[k] = b[First(s) + k]
      <3>1. First(s) + k \in 1..Len(b)
        BY <1>2, <1>4, <2>2
      <3> QED BY <1>6, <2>1, <2>2, <3>1
    <2> QED BY <1>5, <2>1, <2>2
  <1>13. LastIndex(s)' = Len(b) /\ stale'[s] = x
    BY <1>5, <1>7, <1>8 DEF LastIndex
  <1> QED BY <1>5, <1>6, <1>10, <1>11, <1>12, <1>13 DEF Agrees, LastIndex

LEMMA CheckLogsFacts ==
    ASSUME Applying, NEW s \in Server, NEW i \in Nat, NEW le, CheckLogs(s, i, le)
    PROVE  /\ DOMAIN applied'[s] = DOMAIN applied[s] \cup {i}
           /\ \A k \in DOMAIN applied'[s] :
                 applied'[s][k] = IF k = i THEN le.cmd ELSE applied[s][k]
           /\ \A t \in Server : t # s => applied'[t] = applied[t]
  <1> DEFINE new == [k \in DOMAIN applied[s] \cup {i} |-> IF k = i THEN le.cmd ELSE applied[s][k]]
  <1>1. DOMAIN applied = Server /\ applied' = [applied EXCEPT ![s] = new]
    BY DEF Applying, CheckLogs
  <1> HIDE DEF new
  <1>2. applied'[s] = new /\ \A t \in Server : t # s => applied'[t] = applied[t]
    BY <1>1
  <1> QED BY <1>2 DEF new

LEMMA TakeAgrees ==
    ASSUME LogTypes, Applying, NEW s \in Server, takeCommits(s),
           NEW ref \in Seq(Entries), Agrees(s, ref)
    PROVE  /\ Agrees(s, ref)'
           /\ \A t \in Server : t # s => /\ taken'[t] = taken[t] /\ applied'[t] = applied[t]
                                         /\ appliedIndex'[t] = appliedIndex[t]
  <1>1. /\ taken[s].rest = <<>> /\ UNCHANGED <<logs, stale>>
        /\ appliedIndex' = [appliedIndex EXCEPT ![s] = @ + Len(Taken(s))]
        /\ IF Taken(s) = <<>>
           THEN UNCHANGED <<taken, applied>>
           ELSE /\ taken' = [taken EXCEPT ![s] = [Nothing EXCEPT !.rest = Tail(Taken(s))]]
                /\ CheckLogs(s, appliedIndex[s] + 1, Head(Taken(s)))
    BY Zenon DEF takeCommits, Taken, Array
  <1>2. /\ taken \in [Server -> Slice] /\ appliedIndex \in [Server -> Nat] /\ DOMAIN applied = Server
    BY DEF LogTypes, Applying
  <1>3. CASE Taken(s) = <<>>
    <2>1. UNCHANGED <<taken, applied>> /\ appliedIndex' = appliedIndex
      BY <1>1, <1>2, <1>3
    <2> QED BY <1>1, <2>1, SameAgrees
  <1>4. CASE Taken(s) # <<>>
    <2>1. PICK q, r \in Seq(Entries), a \in Nat, n \in Nat :
            /\ q = Taken(s) /\ n = Len(q) /\ n > 0 /\ r = Tail(q) /\ Len(r) = n - 1
            /\ a = appliedIndex[s] /\ Head(q) = q[1]
            /\ \A k \in 1..n : q[k] = Array(s)[a + k]
            /\ \A k \in 1..(n - 1) : r[k] = q[k + 1]
            /\ a + n <= Len(Array(s))
      <3>1. /\ Len(Taken(s)) = commitIndex[s] - appliedIndex[s]
            /\ commitIndex[s] <= Len(Array(s)) /\ commitIndex[s] \in Nat
        BY <1>4, TakenFacts DEF Applying
      <3>2. appliedIndex[s] + Len(Taken(s)) <= Len(Array(s))
        BY <1>2, <3>1
      <3> QED BY <1>2, <1>4, <3>2, TakenFacts
    <2>2. \A i \in 1..Len(Array(s)) : i <= Len(ref) /\ Array(s)[i] = ref[i]
      BY ArrayAgrees
    <2>3. ASSUME NEW k \in 1..n PROVE a + k <= Len(ref) /\ q[k] = ref[a + k]
      <3>1. a + k \in 1..Len(Array(s))
        <4>1. Len(Array(s)) \in Nat
          BY TakenFacts
        <4> QED BY <2>1, <4>1
      <3> QED BY <2>1, <2>2, <3>1
    <2>4. /\ taken'[s].rest = r /\ \A t \in Server : t # s => taken'[t] = taken[t]
      <3>1. taken' = [taken EXCEPT ![s] = [Nothing EXCEPT !.rest = r]]
        BY <1>1, <1>4, <2>1
      <3>2. Nothing \in Slice
        BY DEF Nothing, Slice
      <3>3. [Nothing EXCEPT !.rest = r].rest = r
        BY <3>2 DEF Slice
      <3> QED BY <1>2, <3>1, <3>3
    <2>5. /\ appliedIndex'[s] = a + n
          /\ \A t \in Server : t # s => appliedIndex'[t] = appliedIndex[t]
      BY <1>1, <1>2, <2>1
    <2>6. /\ DOMAIN applied'[s] = DOMAIN applied[s] \cup {a + 1}
          /\ \A k \in DOMAIN applied'[s] :
                applied'[s][k] = IF k = a + 1 THEN q[1].cmd ELSE applied[s][k]
          /\ \A t \in Server : t # s => applied'[t] = applied[t]
      <3>1. CheckLogs(s, a + 1, q[1]) /\ a + 1 \in Nat
        BY <1>1, <1>4, <2>1
      <3> QED BY <3>1, CheckLogsFacts
    <2>7. First(s)' = a + 1
      BY <2>1, <2>4, <2>5 DEF First
    <2>8. ASSUME NEW i \in DOMAIN applied'[s]
          PROVE  i <= Len(ref) /\ applied'[s][i] = ref[i].cmd
      <3>1. CASE i = a + 1
        <4>1. 1 \in 1..n
          BY <2>1
        <4>2. a + 1 <= Len(ref) /\ q[1] = ref[a + 1]
          BY <2>3, <4>1
        <4> QED BY <2>6, <3>1, <4>2
      <3>2. CASE i # a + 1
        BY <2>6, <3>2 DEF Agrees
      <3> QED BY <3>1, <3>2
    <2>9. ASSUME NEW k \in 1..(n - 1)
          PROVE  (a + 1) + k <= Len(ref) /\ r[k] = ref[(a + 1) + k]
      <3>1. k + 1 \in 1..n /\ a + (k + 1) = (a + 1) + k
        OBVIOUS
      <3>2. a + (k + 1) <= Len(ref) /\ q[k + 1] = ref[a + (k + 1)]
        BY <2>3, <3>1
      <3> QED BY <2>1, <3>1, <3>2
    <2>10. Agrees(s, ref)'
      <3>1. LastIndex(s)' = LastIndex(s)
        BY <1>1 DEF LastIndex
      <3>2. Len(r) = n - 1
        BY <2>1
      <3> QED BY <1>1, <2>4, <2>7, <2>8, <2>9, <3>1, <3>2 DEF Agrees
    <2> QED BY <2>4, <2>5, <2>6, <2>10
  <1> QED BY <1>3, <1>4

LEMMA HandleAgrees ==
    ASSUME LogTypes, Applying, NEW s \in Server, handleCommits(s),
           NEW ref \in Seq(Entries), Agrees(s, ref)
    PROVE  /\ Agrees(s, ref)'
           /\ \A t \in Server : t # s => /\ taken'[t] = taken[t] /\ applied'[t] = applied[t]
                                         /\ appliedIndex'[t] = appliedIndex[t]
  <1>1. taken \in [Server -> Slice] /\ appliedIndex \in [Server -> Nat] /\ DOMAIN applied = Server
    BY DEF LogTypes, Applying
  <1>2. PICK q \in Seq(Entries) : q = taken[s].rest
    BY LogFacts
  <1>3. /\ q # <<>> /\ UNCHANGED <<logs, stale, appliedIndex>>
        /\ taken' = [taken EXCEPT ![s] = IF Len(q) = 1 THEN Nothing
                                         ELSE [@ EXCEPT !.rest = Tail(q)]]
        /\ CheckLogs(s, appliedIndex[s] - Len(q) + 1, Head(q))
    BY <1>2 DEF handleCommits
  <1>4. PICK n \in Nat, a \in Nat :
          /\ n = Len(q) /\ n > 0 /\ a = appliedIndex[s] - n /\ a = First(s)
          /\ Head(q) = q[1] /\ appliedIndex[s] - Len(q) + 1 = a + 1
    <2>1. Len(q) \in Nat /\ Len(q) > 0 /\ Head(q) = q[1]
      BY <1>3
    <2>2. appliedIndex[s] \in Nat /\ Len(q) <= appliedIndex[s]
      BY <1>2 DEF Applying
    <2>3. appliedIndex[s] - Len(q) \in Nat
      BY <2>1, <2>2
    <2> QED BY <1>2, <2>1, <2>3 DEF First
  <1>5. ASSUME NEW k \in 1..n PROVE a + k <= Len(ref) /\ q[k] = ref[a + k]
    BY <1>2, <1>4 DEF Agrees
  <1>6. PICK r \in Seq(Entries) :
          /\ taken'[s].rest = r /\ Len(r) = n - 1 /\ \A k \in 1..(n - 1) : r[k] = q[k + 1]
          /\ \A t \in Server : t # s => taken'[t] = taken[t]
    <2>1. CASE n = 1
      <3>1. taken' = [taken EXCEPT ![s] = Nothing]
        BY <1>3, <1>4, <2>1
      <3>2. Nothing.rest = <<>> /\ Len(<<>>) = 0 /\ <<>> \in Seq(Entries)
        BY DEF Nothing
      <3>3. taken'[s] = Nothing /\ \A t \in Server : t # s => taken'[t] = taken[t]
        BY <1>1, <3>1
      <3>4. n - 1 = 0 /\ 1..(n - 1) = {}
        BY <2>1
      <3> QED BY <3>2, <3>3, <3>4
    <2>2. CASE n # 1
      <3>1. PICK r \in Seq(Entries) : r = Tail(q) /\ Len(r) = n - 1
                                      /\ \A k \in 1..(n - 1) : r[k] = q[k + 1]
        <4>1. /\ Tail(q) \in Seq(Entries) /\ Len(Tail(q)) = Len(q) - 1
              /\ \A k \in 1..(Len(q) - 1) : Tail(q)[k] = q[k + 1]
          BY <1>3
        <4> QED BY <1>4, <4>1, Zenon
      <3>2. taken' = [taken EXCEPT ![s] = [@ EXCEPT !.rest = r]]
        BY <1>3, <1>4, <2>2, <3>1
      <3>3. taken[s] \in Slice
        BY <1>1
      <3>4. taken'[s].rest = r /\ \A t \in Server : t # s => taken'[t] = taken[t]
        BY <1>1, <3>2, <3>3 DEF Slice
      <3> QED BY <3>1, <3>4
    <2> QED BY <2>1, <2>2
  <1>7. /\ DOMAIN applied'[s] = DOMAIN applied[s] \cup {a + 1}
        /\ \A k \in DOMAIN applied'[s] :
              applied'[s][k] = IF k = a + 1 THEN q[1].cmd ELSE applied[s][k]
        /\ \A t \in Server : t # s => applied'[t] = applied[t]
    <2>1. CheckLogs(s, a + 1, q[1]) /\ a + 1 \in Nat
      BY <1>3, <1>4
    <2> QED BY <2>1, CheckLogsFacts
  <1>8. First(s)' = a + 1
    <2>1. appliedIndex[s] = a + n
      BY <1>1, <1>4
    <2>2. First(s)' = appliedIndex'[s] - Len(taken'[s].rest)
      BY DEF First
    <2>3. appliedIndex'[s] = a + n /\ Len(taken'[s].rest) = n - 1
      BY <1>3, <1>6, <2>1
    <2>4. (a + n) - (n - 1) = a + 1
      OBVIOUS
    <2> QED BY <2>2, <2>3, <2>4, Zenon
  <1>9. ASSUME NEW i \in DOMAIN applied'[s]
        PROVE  i <= Len(ref) /\ applied'[s][i] = ref[i].cmd
    <2>1. CASE i = a + 1
      <3>1. 1 \in 1..n
        BY <1>4
      <3>2. a + 1 <= Len(ref) /\ q[1] = ref[a + 1]
        BY <1>5, <3>1
      <3> QED BY <1>7, <2>1, <3>2
    <2>2. CASE i # a + 1
      BY <1>7, <2>2 DEF Agrees
    <2> QED BY <2>1, <2>2
  <1>10. ASSUME NEW k \in 1..(n - 1)
         PROVE  (a + 1) + k <= Len(ref) /\ r[k] = ref[(a + 1) + k]
    <2>1. k + 1 \in 1..n /\ a + (k + 1) = (a + 1) + k
      OBVIOUS
    <2>2. a + (k + 1) <= Len(ref) /\ q[k + 1] = ref[a + (k + 1)]
      BY <1>5, <2>1
    <2> QED BY <1>6, <2>1, <2>2
  <1>11. Agrees(s, ref)'
    <2>1. LastIndex(s)' = LastIndex(s)
      BY <1>3 DEF LastIndex
    <2> QED BY <1>3, <1>6, <1>8, <1>9, <1>10, <2>1 DEF Agrees
  <1> QED BY <1>3, <1>6, <1>7, <1>11

LEMMA QuietOneLog ==
    ASSUME NEW l \in Server, OneLog(l), UNCHANGED <<logs, stale, taken, appliedIndex, applied>>
    PROVE  OneLog(l)'
  BY SameAgrees DEF OneLog

LEMMA QuietRequests ==
    ASSUME NEW l \in Server, Requests(l), UNCHANGED <<logs, pNextIndex, ales>>
    PROVE  Requests(l)'
  BY DEF Requests, Carries, LastIndex

LEMMA SoleElection ==
    ASSUME NEW l \in Server, MayTimeOut \subseteq {l}, TypeInv, SoleInv(l), NEW s \in Server,
           isTimedOut(s) \/ ElectionWanted(s) \/ ElectionBegun(s) \/ ElectionTimer(s)
    PROVE  SoleInv(l)'
  <1>1. UNCHANGED logVars /\ UNCHANGED applyVars /\ UNCHANGED leadVars /\ UNCHANGED alive
    BY DEF isTimedOut, ElectionWanted, ElectionBegun, ElectionTimer
  <1>2. OneLog(l)' /\ Requests(l)'
    BY <1>1, QuietOneLog, QuietRequests DEF SoleInv, logVars, applyVars, leadVars
  <1>3. Sole(l) /\ Mode \in [Server -> {"Follower", "Candidate", "Leader"}]
    BY DEF SoleInv, TypeInv, Types
  <1>4. CASE isTimedOut(s)
    <2>1. s = l
      <3>1. /\ Len(votes[s]) < MaxElections[s] /\ MaxElections[s] \in Nat /\ votes[s] \in Seq(Nat)
        BY <1>4, RaftAssumption DEF isTimedOut, TypeInv, Types
      <3>2. MaxElections[s] > 0
        BY <3>1
      <3> QED BY <3>2 DEF MayTimeOut
    <2>2. \A t \in Peers(l) : Mode'[t] = Mode[t]
      BY <1>3, <1>4, <2>1 DEF isTimedOut, Peers
    <2>3. Sole(l)'
      BY <1>1, <1>3, <1>4, <2>2 DEF Sole, isTimedOut, electVars, logVars, leadVars
    <2> QED BY <1>2, <2>3 DEF SoleInv
  <1>5. CASE ElectionWanted(s)
    <2>1. s = l
      BY <1>3, <1>5 DEF ElectionWanted, Sole, Peers
    <2>2. ticking' \in [Server -> BOOLEAN] /\ \A t \in Peers(l) : ticking'[t] = ticking[t]
      BY <1>3, <1>5, <2>1 DEF ElectionWanted, Sole, Peers
    <2>3. Sole(l)'
      BY <1>1, <1>3, <1>5, <2>2 DEF Sole, ElectionWanted, logVars, leadVars
    <2> QED BY <1>2, <2>3 DEF SoleInv
  <1>6. CASE ElectionBegun(s)
    <2>1. s = l
      BY <1>3, <1>6 DEF ElectionBegun, Sole, Peers
    <2>2. ticking' \in [Server -> BOOLEAN] /\ \A t \in Peers(l) : ticking'[t] = ticking[t]
      BY <1>3, <1>6, <2>1 DEF ElectionBegun, Sole, Peers
    <2>3. \A c \in rvs' : c.src = l
      <3>1. \A c \in rvs' : c \in rvs \/ c.src = s
        BY <1>6, ElectionBegunStep
      <3> QED BY <1>3, <2>1, <3>1 DEF Sole
    <2>4. Sole(l)'
      BY <1>1, <1>3, <1>6, <2>2, <2>3 DEF Sole, ElectionBegun, logVars, leadVars
    <2> QED BY <1>2, <2>4 DEF SoleInv
  <1>7. CASE ElectionTimer(s)
    BY <1>1, <1>2, <1>3, <1>7 DEF SoleInv, Sole, ElectionTimer, logVars, leadVars
  <1> QED BY <1>4, <1>5, <1>6, <1>7

LEMMA SoleVote ==
    ASSUME NEW l \in Server, TypeInv, SoleInv(l), NEW c \in rvs,
           VoteRead(c) \/ VoteNewer(c) \/ VoteJudged(c)
    PROVE  SoleInv(l)'
  <1>1. /\ UNCHANGED logVars /\ UNCHANGED applyVars /\ UNCHANGED leadVars
        /\ UNCHANGED <<alive, ticking>>
    BY DEF VoteRead, VoteNewer, VoteJudged
  <1>2. OneLog(l)' /\ Requests(l)'
    BY <1>1, QuietOneLog, QuietRequests DEF SoleInv, logVars, applyVars, leadVars
  <1>3. \E d : Follows(c, d)
    BY VoteReadStep, VoteNewerStep, VoteJudgedStep
  <1>4. \A x \in rvs' : x.src = l
    BY <1>3 DEF SoleInv, Sole, Follows, With
  <1>5. \A t \in Server : Mode'[t] = "Follower" \/ Mode'[t] = Mode[t]
    <2>1. CASE VoteNewer(c)
      <3>1. c.dst \in Server /\ c.term \in Nat /\ setToFollower(c.dst, c.term)
        BY <2>1, VoteNewerStep
      <3> QED BY <3>1, setToFollowerTypes DEF TypeInv
    <2>2. CASE VoteRead(c) \/ VoteJudged(c)
      BY <2>2 DEF VoteRead, VoteJudged
    <2> QED BY <2>1, <2>2
  <1>6. Sole(l)'
    BY <1>1, <1>4, <1>5 DEF SoleInv, Sole, Peers, logVars, leadVars
  <1> QED BY <1>2, <1>6 DEF SoleInv

LEMMA SoleCount ==
    ASSUME NEW l \in Server, TypeInv, SoleInv(l), NEW c \in rvs, VoteReply(c) \/ VoteLost(c)
    PROVE  SoleInv(l)'
  <1>1. /\ UNCHANGED logVars /\ UNCHANGED applyVars /\ UNCHANGED <<alive, ticking, ales>>
        /\ rvs' = rvs \ {c}
    BY DEF VoteReply, VoteLost
  <1>2. OneLog(l)'
    BY <1>1, QuietOneLog DEF SoleInv, logVars, applyVars
  <1>3. /\ c.src = l /\ c.eid \in DOMAIN votes[l] /\ c.granted \in BOOLEAN
        /\ c.term \in Nat /\ c.rterm \in Nat
    BY RVFacts DEF TypeInv, Types, SoleInv, Sole
  <1>4. /\ \A t \in Server : t # l => Mode'[t] = Mode[t]
        /\ \A p \in Server : pNextIndex'[l][p] = pNextIndex[l][p] \/ pNextIndex'[l][p] = LastIndex(l) + 1
    <2>1. CASE CountVote(l, c.eid, c.granted, c.term, c.rterm)
      <3>1. CASE c.granted = TRUE
        <4>1. CountVote(l, c.eid, TRUE, c.term, c.rterm)
          BY <2>1, <3>1
        <4> QED BY <1>3, <4>1, CountVoteStep
      <3>2. CASE c.granted = FALSE
        <4>1. CountVote(l, c.eid, FALSE, c.term, c.rterm)
          BY <2>1, <3>2
        <4> QED BY <1>3, <4>1, CountVoteStep
      <3> QED BY <1>3, <3>1, <3>2
    <2>2. CASE CountVote(l, c.eid, FALSE, c.term, 0)
      BY <1>3, <2>2, CountVoteStep
    <2> QED BY <1>3, <2>1, <2>2 DEF VoteReply, VoteLost
  <1>5. Requests(l)'
    <2>1. LastIndex(l) \in Nat /\ LastIndex(l)' = LastIndex(l)
      BY <1>1, LogFacts DEF TypeInv, LastIndex, logVars
    <2>2. \A p \in Server : pNextIndex'[l][p] <= LastIndex(l) + 1
      <3>1. LastIndex(l) + 1 <= LastIndex(l) + 1
        BY <2>1
      <3>2. \A p \in Server : pNextIndex[l][p] <= LastIndex(l) + 1
        BY DEF SoleInv, Requests
      <3> QED BY <1>4, <3>1, <3>2, Zenon
    <2>3. \A x \in ales : Carries(x, logs[l])'
      BY <1>1 DEF SoleInv, Requests, Carries, logVars
    <2> QED BY <1>1, <2>1, <2>2, <2>3 DEF Requests
  <1>6. Sole(l)'
    BY <1>1, <1>4 DEF SoleInv, Sole, Peers, logVars
  <1> QED BY <1>2, <1>5, <1>6 DEF SoleInv

\* A log that grows still carries what it carried.
LEMMA CarriesGrows ==
    ASSUME NEW c \in ALECall, NEW old \in Seq(Entries), NEW new \in Seq(Entries),
           Len(old) <= Len(new), \A i \in 1..Len(old) : new[i] = old[i], Carries(c, old)
    PROVE  Carries(c, new)
  <1>1. /\ c.conflict \in Nat /\ c.next \in Nat /\ c.prev \in Nat /\ Len(c.entries) \in Nat
        /\ Len(old) \in Nat /\ Len(new) \in Nat
    BY ALEFacts
  <1>2. c.conflict <= Len(new) /\ (c.st # "looping" => c.next <= Len(new) + 1)
    BY <1>1 DEF Carries
  <1>3. ASSUME c.st \in {"sent", "replied"}
        PROVE  /\ c.prev = c.next - 1 /\ c.prev + Len(c.entries) <= Len(new)
               /\ \A k \in 1..Len(c.entries) : c.entries[k] = new[c.prev + k]
    <2>1. /\ c.prev = c.next - 1 /\ c.prev + Len(c.entries) <= Len(old)
          /\ \A k \in 1..Len(c.entries) : c.entries[k] = old[c.prev + k]
      BY <1>3 DEF Carries
    <2>2. c.prev + Len(c.entries) <= Len(new)
      BY <1>1, <2>1
    <2>3. ASSUME NEW k \in 1..Len(c.entries) PROVE c.entries[k] = new[c.prev + k]
      <3>1. c.prev + k \in 1..Len(old)
        <4>1. \A p, m, n \in Nat : \A i \in 1..m : p + m <= n => p + i \in 1..n
          OBVIOUS
        <4> QED BY <1>1, <2>1, <4>1, Zenon
      <3> QED BY <2>1, <3>1
    <2> QED BY <2>1, <2>2, <2>3
  <1> QED BY <1>2, <1>3 DEF Carries

LEMMA SoleStart ==
    ASSUME NEW l \in Server, TypeInv, TypeInv', SoleInv(l), NEW s \in Server,
           StartRead(s) \/ StartAppend(s)
    PROVE  SoleInv(l)'
  <1>1. /\ UNCHANGED <<Mode, CurrentTerm, VotedFor, alive>> /\ UNCHANGED electVars
        /\ UNCHANGED leadVars /\ UNCHANGED applyVars
    BY DEF StartRead, StartAppend
  <1>2. s = l
    BY DEF StartRead, StartAppend, SoleInv, Sole, Peers
  <1>3. \A t \in Peers(l) : starting'[t] = starting[t]
    BY <1>2 DEF StartRead, StartAppend, TypeInv, LogTypes, Peers
  <1>4. Sole(l)'
    BY <1>1, <1>3 DEF SoleInv, Sole, electVars, leadVars
  <1>5. CASE StartRead(s)
    <2>1. UNCHANGED <<logs, stale, taken>>
      BY <1>5 DEF StartRead
    <2> QED BY <1>1, <1>4, <2>1, QuietOneLog, QuietRequests DEF SoleInv, applyVars, leadVars
  <1>6. CASE StartAppend(s)
    <2>1. PICK le \in starting[l] : WriteLog(l, LastIndex(l), <<le>>)
      BY <1>2, <1>6 DEF StartAppend
    <2>2. <<le>> \in Seq(Entries) /\ LogTypes /\ Applying
      BY <2>1 DEF TypeInv, LogTypes
    <2>3. PICK es \in Seq(Entries) : WriteLog(l, LastIndex(l), es)
      BY <2>1, <2>2
    <2>4. PICK a \in Seq(Entries), n \in Nat : a = logs[l] /\ n = Len(a) /\ LastIndex(l) = n
      BY <2>2, LogFacts DEF LastIndex
    <2>5. n \in 0..LastIndex(l) /\ WriteLog(l, n, es)
      BY <2>3, <2>4
    <2>6. PICK b : b = NewLog(a, n, es)
      OBVIOUS
    <2>7. /\ b \in Seq(Entries) /\ Len(b) = n + Len(es) /\ \A i \in 1..n : b[i] = a[i]
          /\ \A i \in 1..Len(es) : b[n + i] = es[i]
      <3>1. n \in 0..Len(a)
        BY <2>4
      <3> QED BY <2>6, <3>1, NewLogFacts
    <2>8. logs'[l] = b /\ stale'[l] = Beyond(Array(l), b)
      BY <2>2, <2>4, <2>5, <2>6, WriteLogShape
    <2>9. Len(es) \in Nat /\ Len(a) <= Len(b) /\ n + Len(es) <= Len(b)
      BY <2>4, <2>7
    <2>10. \A t \in Server : Agrees(t, b)
      BY <2>2, <2>4, <2>7, <2>9, AgreesGrows DEF SoleInv, OneLog
    <2>11. UNCHANGED <<appliedIndex, applied>>
      BY <1>1 DEF applyVars
    <2>12. Agrees(l, b)'
      BY <2>2, <2>5, <2>7, <2>9, <2>10, <2>11, WriteAgrees
    <2>13. ASSUME NEW t \in Server, t # l PROVE Agrees(t, b)'
      <3>1. logs'[t] = logs[t] /\ stale'[t] = stale[t] /\ taken'[t] = taken[t]
        BY <2>2, <2>5, <2>13, WriteLogFacts
      <3> QED BY <2>10, <2>11, <3>1, SameAgrees
    <2>14. \A t \in Server : Agrees(t, logs[l])'
      BY <2>8, <2>12, <2>13 DEF Agrees
    <2>15. stale'[l] = <<>>
      <3>1. PICK z \in Seq(Entries) : z = Array(l) /\ Len(z) = n
        <4>1. Len(stale[l]) = 0
          BY DEF SoleInv, OneLog
        <4> QED BY <2>2, <2>4, <4>1, TakenFacts
      <3>2. PICK x : x = Beyond(z, b)
        OBVIOUS
      <3>3. x \in Seq(Entries) /\ Len(x) = IF Len(z) > Len(b) THEN Len(z) - Len(b) ELSE 0
        BY <2>7, <3>2, BeyondFacts
      <3>4. Len(x) = 0
        BY <2>4, <2>7, <2>9, <3>1, <3>3
      <3> QED BY <2>8, <3>1, <3>2, <3>3, <3>4
    <2>16. Requests(l)'
      <3>1. ASSUME NEW c \in ales PROVE Carries(c, b)
        <4>1. c \in ALECall /\ Carries(c, a)
          BY <2>4 DEF SoleInv, Requests, TypeInv, LeadTypes
        <4> QED BY <2>4, <2>7, <2>9, <4>1, CarriesGrows
      <3>2. \A p \in Server : pNextIndex[l][p] <= Len(b) + 1
        <4> TAKE p \in Server
        <4>1. pNextIndex[l][p] \in Nat /\ pNextIndex[l][p] <= n + 1
          BY <2>4 DEF SoleInv, Requests, TypeInv, LeadTypes
        <4> QED BY <2>7, <2>9, <4>1
      <3> QED BY <1>1, <2>8, <3>1, <3>2 DEF Requests, Carries, LastIndex, leadVars
    <2> QED BY <1>4, <2>14, <2>15, <2>16 DEF SoleInv, OneLog
  <1> QED BY <1>5, <1>6

LEMMA SoleCommit ==
    ASSUME NEW l \in Server, TypeInv, SoleInv(l), NEW s \in Server,
           takeCommits(s) \/ handleCommits(s)
    PROVE  SoleInv(l)'
  <1>1. /\ UNCHANGED <<Mode, alive, logs, stale, starting>> /\ UNCHANGED electVars
        /\ UNCHANGED leadVars
    BY DEF takeCommits, handleCommits
  <1>2. Sole(l)' /\ Requests(l)'
    BY <1>1, QuietRequests DEF SoleInv, Sole, electVars, leadVars
  <1>3. PICK a \in Seq(Entries) : a = logs[l]
    BY LogFacts DEF TypeInv
  <1>4. \A t \in Server : Agrees(t, a)
    BY <1>3 DEF SoleInv, OneLog
  <1>5. /\ Agrees(s, a)'
        /\ \A t \in Server : t # s => /\ taken'[t] = taken[t] /\ applied'[t] = applied[t]
                                      /\ appliedIndex'[t] = appliedIndex[t]
    BY <1>4, TakeAgrees, HandleAgrees DEF TypeInv
  <1>6. \A t \in Server : Agrees(t, a)'
    BY <1>1, <1>4, <1>5, SameAgrees
  <1>7. OneLog(l)'
    BY <1>1, <1>3, <1>6 DEF SoleInv, OneLog, Agrees
  <1> QED BY <1>2, <1>7 DEF SoleInv

\* Calls that go on, while l's log stays.
LEMMA GoesOn ==
    ASSUME NEW l \in Server, SoleInv(l), NEW c \in ales, NEW d, Goes(c, d), logs'[l] = logs[l],
           Carries(d, logs[l])
    PROVE  /\ \A x \in ales' : x.src = l /\ x.dst # l
           /\ \A x \in ales' : Carries(x, logs[l])'
  <1>1. \A x \in ales' : x.src = l /\ x.dst # l
    BY DEF SoleInv, Sole, Goes, With
  <1>2. \A x \in ales' : Carries(x, logs[l])
    BY DEF SoleInv, Requests, Goes, With
  <1> QED BY <1>1, <1>2 DEF Carries

LEMMA SoleLead ==
    ASSUME NEW l \in Server, TypeInv, SoleInv(l),
           \/ \E s \in Server : LeadRead(s)
           \/ \E c \in ales : LeadLoop(c) \/ LeadSend(c) \/ AppendLost(c)
    PROVE  SoleInv(l)'
  <1>1. /\ UNCHANGED logVars /\ UNCHANGED applyVars /\ UNCHANGED electVars
        /\ UNCHANGED <<Mode, pNextIndex>>
    BY DEF LeadRead, LeadLoop, LeadSend, AppendLost
  <1>2. OneLog(l)'
    BY <1>1, QuietOneLog DEF SoleInv, logVars, applyVars
  <1>3. LastIndex(l) \in Nat /\ LastIndex(l) = Len(logs[l]) /\ logs'[l] = logs[l]
    BY <1>1, LogFacts DEF TypeInv, LastIndex, logVars
  <1>4. ASSUME UNCHANGED alive, \A x \in ales' : x.src = l /\ x.dst # l,
               \A x \in ales' : Carries(x, logs[l])'
        PROVE  SoleInv(l)'
    BY <1>1, <1>2, <1>3, <1>4 DEF SoleInv, Sole, Requests, LastIndex, electVars, logVars
  <1>5. ASSUME NEW s \in Server, LeadRead(s) PROVE SoleInv(l)'
    <2>1. s = l /\ UNCHANGED alive
      BY <1>5 DEF LeadRead, SoleInv, Sole, Peers
    <2>2. \A c \in ales' : c \in ales \/ (c.src = s /\ c.dst \in Peers(s) /\ c.st = "looping" /\ c.conflict = 0)
      BY <1>5, LeadReadStep
    <2>3. \A c \in ales' : c.src = l /\ c.dst # l
      BY <2>1, <2>2 DEF SoleInv, Sole, Peers
    <2>4. \A c \in ales' : Carries(c, logs[l])'
      BY <1>3, <2>2 DEF SoleInv, Requests, Carries
    <2> QED BY <1>4, <2>1, <2>3, <2>4
  <1>6. ASSUME NEW c \in ales, LeadLoop(c) PROVE SoleInv(l)'
    <2>1. PICK d : /\ Goes(c, d) /\ d.st = "spawned" /\ d.next = pNextIndex[c.src][c.dst]
                   /\ d.conflict = c.conflict
      BY <1>6, LeadLoopStep
    <2>2. c.src = l /\ c.dst \in Server /\ Carries(c, logs[l])
      BY ALEFacts DEF SoleInv, Sole, Requests, TypeInv, LeadTypes
    <2>3. d.next <= Len(logs[l]) + 1
      BY <1>3, <2>1, <2>2 DEF SoleInv, Requests
    <2>4. Carries(d, logs[l])
      BY <2>1, <2>2, <2>3 DEF Carries
    <2>5. UNCHANGED alive
      BY <1>6 DEF LeadLoop
    <2> QED BY <1>3, <1>4, <2>1, <2>4, <2>5, GoesOn
  <1>7. ASSUME NEW c \in ales, LeadSend(c) PROVE SoleInv(l)'
    <2>1. /\ c.src = l /\ c.next \in Nat /\ c.next <= Len(logs[l]) + 1 /\ c.conflict <= Len(logs[l])
      <3>1. c.src = l /\ c.next \in Nat /\ Carries(c, logs[l]) /\ c.st = "spawned"
        BY <1>7, ALEFacts DEF SoleInv, Sole, Requests, TypeInv, LeadTypes, LeadSend
      <3> QED BY <3>1 DEF Carries
    <2>2. ~(c.next - 1 > LastIndex(c.src))
      BY <1>3, <2>1
    <2>3. UNCHANGED alive
      BY <1>7, <2>2, LeadSendStep
    <2>4. PICK d : /\ Goes(c, d) /\ d.st = "sent" /\ d.next = c.next /\ d.conflict = c.conflict
                   /\ d.prev = c.next - 1 /\ d.prev + Len(d.entries) <= LastIndex(c.src)
                   /\ \A k \in 1..Len(d.entries) : d.entries[k] = logs[c.src][d.prev + k]
      BY <1>7, <2>2, LeadSendStep
    <2>5. Carries(d, logs[l])
      BY <1>3, <2>1, <2>4 DEF Carries
    <2> QED BY <1>3, <1>4, <2>3, <2>4, <2>5, GoesOn
  <1>8. ASSUME NEW c \in ales, AppendLost(c) PROVE SoleInv(l)'
    <2>1. ales' = ales \ {c} /\ UNCHANGED alive
      BY <1>8 DEF AppendLost
    <2>2. \A x \in ales' : x.src = l /\ x.dst # l /\ Carries(x, logs[l])'
      BY <1>3, <2>1 DEF SoleInv, Sole, Requests, Carries
    <2> QED BY <1>4, <2>1, <2>2
  <1> QED BY <1>5, <1>6, <1>7, <1>8

LEMMA SoleAppend ==
    ASSUME NEW l \in Server, TypeInv, SoleInv(l), NEW c \in ales, AppendLogEntry(c)
    PROVE  SoleInv(l)'
  <1>1. /\ Refused(c) \/ Stored(c) \/ Heard(c)
        /\ UNCHANGED <<alive, starting, appliedIndex, applied, pNextIndex>> /\ UNCHANGED electVars
    BY AppendStep
  <1>2. PICK d : /\ Goes(c, d) /\ d.st = "replied" /\ d.next = c.next /\ d.prev = c.prev
                 /\ d.entries = c.entries /\ d.conflict <= LastIndex(c.dst)
    BY AppendStep
  <1>3. /\ c.src = l /\ c.dst \in Server /\ c.dst # l /\ c.term \in Nat /\ c.prev \in Nat
        /\ c.entries \in Seq(Entries) /\ Carries(c, logs[l]) /\ c.st = "sent"
        /\ d.conflict \in Nat
    <2>1. c \in ALECall /\ d \in ALECall
      BY <1>2 DEF TypeInv, LeadTypes, Goes
    <2> QED BY <2>1, ALEFacts DEF SoleInv, Sole, Requests, AppendLogEntry
  <1>4. LogTypes /\ Applying /\ Types /\ \A t \in Server : Agrees(t, logs[l])
    BY DEF TypeInv, SoleInv, OneLog
  <1>5. PICK a \in Seq(Entries) : a = logs[l] /\ LastIndex(l) = Len(a)
    BY <1>4, LogFacts DEF LastIndex
  <1>6. logs'[l] = logs[l] /\ stale'[l] = stale[l] /\ \A t \in Server : Agrees(t, a)'
    <2>1. CASE UNCHANGED <<logs, stale, taken>>
      BY <1>1, <1>4, <1>5, <2>1, SameAgrees
    <2>2. CASE Stored(c)
      <3>1. WriteLog(c.dst, c.prev, c.entries) /\ c.prev <= LastIndex(c.dst)
        BY <2>2 DEF Stored, Matching
      <3>2. c.prev \in 0..LastIndex(c.dst)
        BY <1>3, <1>4, <3>1, LogFacts
      <3>3. \A t \in Server \ {c.dst} : /\ logs'[t] = logs[t] /\ stale'[t] = stale[t]
                                         /\ taken'[t] = taken[t]
        BY <1>3, <1>4, <3>1, <3>2, WriteLogFacts
      <3>4. /\ c.prev + Len(c.entries) <= Len(a)
            /\ \A k \in 1..Len(c.entries) : c.entries[k] = a[c.prev + k]
        BY <1>3, <1>5 DEF Carries
      <3>5. Agrees(c.dst, a)'
        BY <1>1, <1>3, <1>4, <1>5, <3>1, <3>2, <3>4, WriteAgrees, SMTT(30)
      <3>6. ASSUME NEW t \in Server, t # c.dst PROVE Agrees(t, a)'
        BY <1>1, <1>4, <1>5, <3>3, <3>6, SameAgrees
      <3> QED BY <1>3, <3>3, <3>5, <3>6
    <2> QED BY <1>1, <2>1, <2>2 DEF Refused, Heard
  <1>7. OneLog(l)'
    BY <1>5, <1>6 DEF SoleInv, OneLog, Agrees
  <1>8. Carries(d, logs[l])
    <2>1. LastIndex(c.dst) <= Len(a) /\ LastIndex(c.dst) \in Nat
      <3>1. LastIndex(c.dst) \in Nat /\ \A i \in 1..LastIndex(c.dst) : i <= Len(a)
        BY <1>3, <1>4, <1>5, LogFacts DEF Agrees
      <3>2. LastIndex(c.dst) = 0 \/ LastIndex(c.dst) \in 1..LastIndex(c.dst)
        BY <3>1
      <3> QED BY <3>1, <3>2
    <2>2. d.conflict <= Len(a)
      BY <1>2, <1>3, <2>1
    <2> QED BY <1>2, <1>3, <1>5, <2>2 DEF Carries
  <1>9. /\ \A x \in ales' : x.src = l /\ x.dst # l
        /\ \A x \in ales' : Carries(x, logs[l])'
    BY <1>2, <1>6, <1>8, GoesOn
  <1>10. Requests(l)'
    BY <1>1, <1>6, <1>9 DEF SoleInv, Requests, LastIndex
  <1>11. \A t \in Server : Mode'[t] = "Follower" \/ Mode'[t] = Mode[t]
    BY <1>1, <1>3, <1>4, setToFollowerTypes DEF Refused, Stored, Heard
  <1>12. Sole(l)'
    BY <1>1, <1>9, <1>11 DEF SoleInv, Sole, Peers, electVars
  <1> QED BY <1>7, <1>10, <1>12 DEF SoleInv

LEMMA SoleReply ==
    ASSUME NEW l \in Server, TypeInv, SoleInv(l), NEW c \in ales, AppendReply(c)
    PROVE  SoleInv(l)'
  <1>1. /\ ales' = ales \ {c} /\ UNCHANGED <<alive, appliedIndex, applied>>
        /\ UNCHANGED logVars /\ UNCHANGED electVars
    BY DEF AppendReply
  <1>2. OneLog(l)'
    BY <1>1, QuietOneLog DEF SoleInv, logVars
  <1>3. Sole(l)'
    <2>1. \A t \in Server : Mode'[t] = Mode[t] \/ Mode'[t] = "Follower"
      BY AppendReplyStep
    <2> QED BY <1>1, <2>1 DEF SoleInv, Sole, Peers, electVars, logVars
  <1>4. /\ c.src = l /\ c.dst \in Server /\ c.next \in Nat /\ c.prev \in Nat /\ c.conflict \in Nat
        /\ Len(c.entries) \in Nat /\ LastIndex(l) \in Nat
        /\ c.prev = c.next - 1 /\ c.prev + Len(c.entries) <= LastIndex(l)
        /\ c.conflict <= LastIndex(l)
    <2>1. c \in ALECall /\ c.src = l /\ Carries(c, logs[l]) /\ c.st = "replied"
      BY DEF TypeInv, LeadTypes, SoleInv, Sole, Requests, AppendReply
    <2>2. LastIndex(l) \in Nat
      BY LogFacts DEF TypeInv
    <2>3. /\ c.prev = c.next - 1 /\ c.prev + Len(c.entries) <= LastIndex(l)
          /\ c.conflict <= LastIndex(l)
      BY <2>1 DEF Carries, LastIndex
    <2> QED BY <2>1, <2>2, <2>3, ALEFacts
  <1>5. c.next + Len(c.entries) <= LastIndex(l) + 1 /\ c.conflict + 1 <= LastIndex(l) + 1
    BY <1>4
  <1>6. \A p \in Server : pNextIndex'[l][p] <= LastIndex(l) + 1
    <2>1. /\ pNextIndex \in [Server -> [Server -> Nat \ {0}]]
          /\ \A p \in Server : pNextIndex[l][p] <= LastIndex(l) + 1
      BY DEF TypeInv, LeadTypes, SoleInv, Requests
    <2>2. ASSUME NEW n, n <= LastIndex(l) + 1, pNextIndex' = [pNextIndex EXCEPT ![l][c.dst] = n]
          PROVE  \A p \in Server : pNextIndex'[l][p] <= LastIndex(l) + 1
      BY <1>4, <2>1, <2>2
    <2>3. \/ UNCHANGED pNextIndex
          \/ pNextIndex' = [pNextIndex EXCEPT ![l][c.dst] = c.next + Len(c.entries)]
          \/ pNextIndex' = [pNextIndex EXCEPT ![l][c.dst] = c.conflict + 1]
      BY <1>4, AppendReplyStep
    <2> QED BY <1>5, <2>1, <2>2, <2>3
  <1>7. Requests(l)'
    <2>1. logs' = logs
      BY <1>1 DEF logVars
    <2> QED BY <1>1, <1>6, <2>1 DEF SoleInv, Requests, Carries, LastIndex
  <1> QED BY <1>2, <1>3, <1>7 DEF SoleInv

LEMMA SoleInit ==
    ASSUME NEW l \in Server, Init
    PROVE  SoleInv(l)
  <1>1. \A s \in Server : /\ logs[s] = <<>> /\ stale[s] = <<>> /\ taken[s].rest = <<>>
                          /\ applied[s] = <<>> /\ Mode[s] = "Follower" /\ starting[s] = {}
                          /\ ticking[s] = FALSE /\ pNextIndex[l][s] = 1
    BY DEF Init, Nothing
  <1>2. Len(<<>>) = 0 /\ 1..0 = {} /\ DOMAIN <<>> = {}
    OBVIOUS
  <1>3. Sole(l)
    BY <1>1 DEF Sole, Init, Peers
  <1>4. OneLog(l)
    BY <1>1, <1>2 DEF OneLog, Agrees, LastIndex
  <1>5. Requests(l)
    <2>1. LastIndex(l) = 0 /\ ales = {} /\ 1 <= 0 + 1
      BY <1>1, <1>2 DEF LastIndex, Init
    <2> QED BY <1>1, <2>1 DEF Requests
  <1> QED BY <1>3, <1>4, <1>5 DEF SoleInv

LEMMA SoleStep ==
    ASSUME NEW l \in Server, MayTimeOut \subseteq {l}, TypeInv, TypeInv', SoleInv(l), [Next]_vars
    PROVE  SoleInv(l)'
  <1>1. CASE UNCHANGED vars
    <2>1. OneLog(l)' /\ Requests(l)'
      BY <1>1, QuietOneLog, QuietRequests DEF vars, SoleInv
    <2>2. Sole(l)'
      BY <1>1 DEF vars, SoleInv, Sole
    <2> QED BY <2>1, <2>2 DEF SoleInv
  <1>2. ASSUME NEW s \in Server,
               \/ isTimedOut(s) \/ ElectionWanted(s) \/ ElectionBegun(s)
               \/ ElectionTimer(s) \/ StartRead(s) \/ StartAppend(s)
               \/ LeadRead(s) \/ takeCommits(s) \/ handleCommits(s)
        PROVE  SoleInv(l)'
    BY <1>2, SoleElection, SoleStart, SoleLead, SoleCommit
  <1>3. ASSUME NEW c \in rvs,
               VoteRead(c) \/ VoteNewer(c) \/ VoteJudged(c) \/ VoteReply(c) \/ VoteLost(c)
        PROVE  SoleInv(l)'
    BY <1>3, SoleVote, SoleCount
  <1>4. ASSUME NEW c \in ales,
               \/ LeadLoop(c) \/ LeadSend(c) \/ AppendLogEntry(c)
               \/ AppendReply(c) \/ AppendLost(c)
        PROVE  SoleInv(l)'
    BY <1>4, SoleLead, SoleAppend, SoleReply
  <1> QED BY <1>1, <1>2, <1>3, <1>4 DEF Next

\* Where one peer alone stands for election, the invariant SoleInv holds.
THEOREM SoleInvariance ==
    ASSUME NEW l \in Server, MayTimeOut \subseteq {l}
    PROVE  Spec => []SoleInv(l)
  <1>1. Init => SoleInv(l)
    BY SoleInit
  <1>2. TypeInv /\ TypeInv' /\ SoleInv(l) /\ [Next]_vars => SoleInv(l)'
    BY SoleStep
  <1> QED BY <1>1, <1>2, TypeInvariance, PTL DEF Spec

\* With one candidate the logs of the others are prefixes of its log and what is
\* applied is what that log holds, however requests and replies are lost or overtake
\* each other (AppendLogEntry, handleCommits).
THEOREM SoleFollowers ==
    ASSUME NEW l \in Server, MayTimeOut \subseteq {l}
    PROVE  Spec => []FollowersArePrefixes
  <1>1. TypeInv /\ SoleInv(l) => FollowersArePrefixes
    <2> SUFFICES ASSUME TypeInv, SoleInv(l), NEW s \in Server
                 PROVE  /\ IsPrefix(logs[s], logs[l])
                        /\ \A i \in DOMAIN applied[s] :
                              i <= LastIndex(l) /\ applied[s][i] = logs[l][i].cmd
      BY DEF FollowersArePrefixes
    <2>1. Agrees(s, logs[l])
      BY DEF SoleInv, OneLog
    <2>2. PICK a \in Seq(Entries), b \in Seq(Entries), n \in Nat :
            a = logs[s] /\ b = logs[l] /\ n = Len(a) /\ LastIndex(s) = n /\ LastIndex(l) = Len(b)
      BY LogFacts DEF TypeInv, LastIndex
    <2>3. \A i \in 1..n : i <= Len(b) /\ a[i] = b[i]
      BY <2>1, <2>2 DEF Agrees
    <2>4. n <= Len(b)
      <3>1. n = 0 \/ n \in 1..n
        OBVIOUS
      <3> QED BY <2>3, <3>1
    <2>5. IsPrefix(a, b)
      BY <2>2, <2>3, <2>4, PrefixOf
    <2> QED BY <2>1, <2>2, <2>5 DEF Agrees
  <1> QED BY <1>1, SoleInvariance, TypeInvariance, PTL

\* With one candidate no two peers apply different commands at an index (checkLogs).
THEOREM SoleStateMachine ==
    ASSUME NEW l \in Server, MayTimeOut \subseteq {l}
    PROVE  Spec => []StateMachineSafety
  <1>1. SoleInv(l) => StateMachineSafety
    BY DEF SoleInv, OneLog, Agrees, StateMachineSafety
  <1> QED BY <1>1, SoleInvariance, PTL
=============================================================================
