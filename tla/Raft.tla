-------------------------------- MODULE Raft --------------------------------
(***************************************************************************)
(* The Raft peer of raft1/raft.go, with its goroutines: the ticker, the    *)
(* goroutine of each RPC it sends, the RPC handlers and handleCommits.     *)
(*                                                                         *)
(* rf.mu is taken and released several times within one function, and what *)
(* was read under it is used after it was released; a step is one critical *)
(* section.  Go's logs[0], the sentinel entry of term 0, is not stored: a   *)
(* log is the sequence of its entries from index 1.  A log that is cut     *)
(* short leaves its old entries behind in the slice's backing array, where *)
(* handleCommits can still read them: stale holds them.                    *)
(***************************************************************************)
EXTENDS Naturals, Sequences, FiniteSets, FiniteSetsExt, SequencesExt

CONSTANTS Server,        \* the peers
          None,          \* VotedFor -1
          Links,         \* <<s, t>> \in Links: requests of s reach t
          Unreliable,    \* TRUE: requests and replies may be lost
          MaxElections,  \* bounds: elections of each peer,
          MaxStarts,     \*   commands submitted in all,
          MaxRounds      \*   rounds of isLeading of each peer

ASSUME RaftAssumption ==
    /\ IsFiniteSet(Server) /\ None \notin Server
    /\ Unreliable \in BOOLEAN /\ Links \subseteq Server \X Server
    /\ MaxElections \in [Server -> Nat] /\ MaxStarts \in Nat
    /\ MaxRounds \in [Server -> Nat]

VARIABLES
    Mode, CurrentTerm, VotedFor, logs, commitIndex, appliedIndex,
    electionInProgress, pNextIndex, pMatchIndex,
    stale,        \* stale[s]: the backing array of logs[s] beyond its length
    ticking,      \* ticking[s]: isElected has read its condition as true
    starting,     \* starting[s]: the terms of Start calls that saw a leader
    wake,         \* wake[s]: somebody is sending on commitChan
    taken,        \* taken[s]: what handleCommits has still to read of its slice
    applied,      \* applied[s]: the commands CheckLogs gets from s, by index
    alive,        \* the peers that have not panicked
    misled,       \* history: the peers whose log another leader made shorter, or that
                  \* took a conflict index beyond their log
    votes,        \* votes[s][e]: the vote counter of s's e-th election
    grants,       \* history: who granted its vote to whom, in which election
    rvs,          \* RequestVote calls under way
    ales,         \* AppendLogEntry calls under way
    started,      \* commands submitted so far
    rounds        \* rounds[s]: rounds of isLeading so far

logVars   == <<logs, stale, taken, starting, started>>
electVars == <<ticking, electionInProgress, votes, grants, rvs>>
leadVars  == <<pNextIndex, pMatchIndex, ales, rounds>>
applyVars == <<commitIndex, appliedIndex, wake, applied, misled>>
vars == <<Mode, CurrentTerm, VotedFor, logs, stale, commitIndex, appliedIndex,
          electionInProgress, pNextIndex, pMatchIndex, ticking, starting, wake,
          taken, applied, alive, misled, votes, grants, rvs, ales, started, rounds>>

Peers(s)   == Server \ {s}
LastIndex(s)  == Len(logs[s])
TermAt(s, i) == IF i = 0 THEN 0 ELSE logs[s][i].term
LastTerm(s) == TermAt(s, LastIndex(s))
MayTimeOut == {s \in Server : MaxElections[s] > 0}
Majority   == (Cardinality(Server) \div 2) + 1

\* isMajority
isMajority(n) == n >= Majority

\* resolveIndexConflict: the last index whose entry has the given term, or 0.
resolveIndexConflict(s, term) ==
    Max({0} \cup {i \in 1..LastIndex(s) : logs[s][i].term = term})

\* A slice handleCommits is done with.  shared: its array is that of the log.
Nothing == [rest |-> <<>>, shared |-> TRUE]

Init ==
    /\ Mode = [s \in Server |-> "Follower"]
    /\ CurrentTerm = [s \in Server |-> 0]
    /\ VotedFor = [s \in Server |-> None]
    /\ logs = [s \in Server |-> <<>>]
    /\ stale = [s \in Server |-> <<>>]
    /\ commitIndex = [s \in Server |-> 0]
    /\ appliedIndex = [s \in Server |-> 0]
    /\ electionInProgress = [s \in Server |-> FALSE]
    /\ pNextIndex = [s \in Server |-> [p \in Server |-> 1]]
    /\ pMatchIndex = [s \in Server |-> [p \in Server |-> 0]]
    /\ ticking = [s \in Server |-> FALSE]
    /\ starting = [s \in Server |-> {}]
    /\ wake = [s \in Server |-> FALSE]
    /\ taken = [s \in Server |-> Nothing]
    /\ applied = [s \in Server |-> <<>>]
    /\ alive = Server
    /\ misled = {}
    /\ votes = [s \in Server |-> <<>>]
    /\ grants = {}
    /\ rvs = {}
    /\ ales = {}
    /\ started = 0
    /\ rounds = [s \in Server |-> 0]

\* Mutant: the entries go to the end of the log, which is not cut.
WriteLogAtEnd(s, keep, entries) ==
    /\ logs' = [logs EXCEPT ![s] = @ \o entries]
    /\ stale' = [stale EXCEPT ![s] = <<>>]
    /\ UNCHANGED taken

\* append(logs[:keep+1], entries...): within the capacity of the backing array
\* it overwrites in place, also what handleCommits has still to read; beyond it
\* the log moves to a new array and handleCommits keeps the old one.
WriteLog(s, keep, entries) ==
    LET array == logs[s] \o stale[s]
        log   == SubSeq(logs[s], 1, keep) \o entries
        first == appliedIndex[s] - Len(taken[s].rest)
    IN  /\ logs' = [logs EXCEPT ![s] = log]
        /\ stale' = [stale EXCEPT ![s] = SubSeq(array, Len(log) + 1, Len(array))]
        /\ \/ taken' = [taken EXCEPT ![s].rest =
                  IF taken[s].shared
                  THEN [k \in DOMAIN @ |->
                           IF first + k \in (keep + 1)..Len(log) THEN log[first + k] ELSE @[k]]
                  ELSE @]
           \/ /\ Len(log) > Len(array) /\ taken[s].rest # <<>>
              /\ taken' = [taken EXCEPT ![s].shared = FALSE]

\* Mutant: a leader steps down for a newer term only.
setToFollowerIfNewer(s, term) ==
    /\ Mode' = [Mode EXCEPT ![s] = IF term > CurrentTerm[s] THEN "Follower" ELSE @]
    /\ CurrentTerm' = [CurrentTerm EXCEPT ![s] = term]
    /\ VotedFor' = [VotedFor EXCEPT ![s] = None]

setToFollower(s, term) ==
    /\ Mode' = [Mode EXCEPT ![s] = "Follower"]
    /\ CurrentTerm' = [CurrentTerm EXCEPT ![s] = term]
    /\ VotedFor' = [VotedFor EXCEPT ![s] = None]

-----------------------------------------------------------------------------
\* The ticker: isTimedOut, isElected, isLeading, one after the other.

TickerIdle(s) ==
    /\ s \in alive /\ ~ticking[s]
    /\ \A c \in ales : c.src = s => c.st # "looping"

\* MaxElections also bounds the time-outs: one that no election follows is not
\* looked at.
isTimedOut(s) ==
    /\ TickerIdle(s)
    /\ Mode[s] = "Follower"
    /\ Len(votes[s]) < MaxElections[s]
    /\ Mode' = [Mode EXCEPT ![s] = "Candidate"]
    /\ UNCHANGED <<CurrentTerm, VotedFor, alive>>
    /\ UNCHANGED logVars /\ UNCHANGED electVars /\ UNCHANGED leadVars /\ UNCHANGED applyVars

\* The first critical section of isElected.
ElectionWanted(s) ==
    /\ TickerIdle(s)
    /\ Mode[s] = "Candidate" /\ ~electionInProgress[s]
    /\ Len(votes[s]) < MaxElections[s]
    /\ ticking' = [ticking EXCEPT ![s] = TRUE]
    /\ UNCHANGED <<Mode, CurrentTerm, VotedFor, alive, electionInProgress, votes,
                   grants, rvs>>
    /\ UNCHANGED logVars /\ UNCHANGED leadVars /\ UNCHANGED applyVars

\* A RequestVote call: ct, vf, li and lt are what the handler reads first.
VoteCall(s, p, e, term) ==
    [src |-> s, dst |-> p, eid |-> e, term |-> term, st |-> "sent",
     lastIndex |-> LastIndex(s), lastTerm |-> LastTerm(s),
     ct |-> 0, vf |-> None, li |-> 0, lt |-> 0, granted |-> FALSE, rterm |-> 0]

\* The second: the term goes up, with or without the peer being a candidate
\* still, and a goroutine per peer asks for its vote.  VotedFor is not set.
ElectionBegun(s) ==
    LET e == Len(votes[s]) + 1 IN
    /\ s \in alive
    /\ ticking[s]
    /\ ticking' = [ticking EXCEPT ![s] = FALSE]
    /\ electionInProgress' = [electionInProgress EXCEPT ![s] = TRUE]
    /\ CurrentTerm' = [CurrentTerm EXCEPT ![s] = @ + 1]
    /\ votes' = [votes EXCEPT ![s] = Append(@, 1)]
    /\ rvs' = rvs \cup {VoteCall(s, p, e, CurrentTerm[s] + 1) : p \in Peers(s)}
    /\ UNCHANGED <<Mode, VotedFor, alive, grants>>
    /\ UNCHANGED logVars /\ UNCHANGED leadVars /\ UNCHANGED applyVars

\* The timer goroutine of an election.
ElectionTimer(s) ==
    /\ s \in alive
    /\ electionInProgress[s]
    /\ electionInProgress' = [electionInProgress EXCEPT ![s] = FALSE]
    /\ UNCHANGED <<Mode, CurrentTerm, VotedFor, alive, ticking, votes, grants, rvs>>
    /\ UNCHANGED logVars /\ UNCHANGED leadVars /\ UNCHANGED applyVars

-----------------------------------------------------------------------------
\* The handler RequestVote: three critical sections of rf.mu.

\* The peer a request reaches is alive and on this side of the partition.
Running(c) == c.dst \in alive /\ <<c.src, c.dst>> \in Links
With(calls, c, d) == (calls \ {c}) \cup {d}

VoteRead(c) ==
    LET t == CurrentTerm[c.dst] IN
    /\ c.st = "sent" /\ Running(c)
    /\ rvs' = With(rvs, c,
            IF c.term < t THEN [c EXCEPT !.st = "replied", !.rterm = t]
            ELSE [c EXCEPT !.st = IF c.term > t THEN "newer" ELSE "judged",
                           !.ct = t, !.vf = VotedFor[c.dst],
                           !.li = LastIndex(c.dst), !.lt = LastTerm(c.dst)])
    /\ UNCHANGED <<Mode, CurrentTerm, VotedFor, alive, ticking,
                   electionInProgress, votes, grants>>
    /\ UNCHANGED logVars /\ UNCHANGED leadVars /\ UNCHANGED applyVars

\* The peer takes the candidate's term although its own may have passed it since.
VoteNewer(c) ==
    /\ c.st = "newer" /\ Running(c)
    /\ setToFollower(c.dst, c.term)
    /\ rvs' = With(rvs, c, [c EXCEPT !.st = "judged", !.ct = c.term, !.vf = None])
    /\ UNCHANGED <<alive, ticking, electionInProgress, votes, grants>>
    /\ UNCHANGED logVars /\ UNCHANGED leadVars /\ UNCHANGED applyVars

UpToDate(c) == \/ c.lastTerm > c.lt
               \/ c.lastTerm = c.lt /\ c.lastIndex >= c.li

VoteJudged(c) ==
    LET granted == c.vf \in {None, c.src} /\ UpToDate(c) IN
    /\ c.st = "judged" /\ Running(c)
    /\ VotedFor' = IF granted THEN [VotedFor EXCEPT ![c.dst] = c.src] ELSE VotedFor
    /\ grants' = grants \cup
           (IF granted THEN {[voter |-> c.dst, for |-> c.src, eid |-> c.eid]} ELSE {})
    /\ rvs' = With(rvs, c, [c EXCEPT !.st = "replied", !.granted = granted,
                                     !.rterm = c.ct])
    /\ UNCHANGED <<Mode, CurrentTerm, alive, ticking, electionInProgress, votes>>
    /\ UNCHANGED logVars /\ UNCHANGED leadVars /\ UNCHANGED applyVars

\* The requester's side of isElected, once Call has returned.
setToLeader(s) ==
    /\ Mode' = [Mode EXCEPT ![s] = "Leader"]
    /\ electionInProgress' = [electionInProgress EXCEPT ![s] = FALSE]
    /\ pNextIndex' = [pNextIndex EXCEPT ![s] = [p \in Server |-> LastIndex(s) + 1]]
    /\ pMatchIndex' = [pMatchIndex EXCEPT ![s] = [p \in Server |-> 0]]

\* Mutant: every reply counts as a vote.
CountedAlways(n, granted) == n + 1

\* The vote counter of an election after a reply.
Counted(n, granted) == IF granted THEN n + 1 ELSE n

CountVote(s, e, granted, term, rterm) ==
    LET n == Counted(votes[s][e], granted) IN
    \/ /\ Mode[s] # "Candidate"
       /\ electionInProgress' = [electionInProgress EXCEPT ![s] = FALSE]
       /\ UNCHANGED <<Mode, CurrentTerm, VotedFor, votes, pNextIndex, pMatchIndex>>
    \/ /\ Mode[s] = "Candidate" /\ rterm > term
       /\ setToFollower(s, rterm)
       /\ UNCHANGED <<electionInProgress, votes, pNextIndex, pMatchIndex>>
    \/ /\ Mode[s] = "Candidate" /\ rterm <= term
       /\ votes' = [votes EXCEPT ![s][e] = n]
       /\ IF isMajority(n) THEN setToLeader(s)
          ELSE UNCHANGED <<Mode, electionInProgress, pNextIndex, pMatchIndex>>
       /\ UNCHANGED <<CurrentTerm, VotedFor>>

VoteReply(c) ==
    /\ c.st = "replied" /\ c.src \in alive
    /\ CountVote(c.src, c.eid, c.granted, c.term, c.rterm)
    /\ rvs' = rvs \ {c}
    /\ UNCHANGED <<alive, ticking, grants, ales, rounds>>
    /\ UNCHANGED logVars /\ UNCHANGED applyVars

\* A request or a reply that is lost, or sent where no live peer is reached,
\* makes Call return false with the zero reply, and ok is not looked at.
Lossy(c) == Unreliable \/ ~Running(c)

VoteLost(c) ==
    /\ c.st \in {"sent", "replied"} /\ Lossy(c) /\ c.src \in alive
    /\ CountVote(c.src, c.eid, FALSE, c.term, 0)
    /\ rvs' = rvs \ {c}
    /\ UNCHANGED <<alive, ticking, grants, ales, rounds>>
    /\ UNCHANGED logVars /\ UNCHANGED applyVars

-----------------------------------------------------------------------------
\* Start: the leadership is read in one critical section and relied on in the
\* next.

StartRead(s) ==
    /\ s \in alive /\ Mode[s] = "Leader"
    /\ started < MaxStarts
    /\ started' = started + 1
    /\ starting' = [starting EXCEPT ![s] =
                       @ \cup {[term |-> CurrentTerm[s], cmd |-> started + 1]}]
    /\ UNCHANGED <<Mode, CurrentTerm, VotedFor, logs, stale, taken, alive>>
    /\ UNCHANGED electVars /\ UNCHANGED leadVars /\ UNCHANGED applyVars

StartAppend(s) == \E le \in starting[s] :
    /\ s \in alive
    /\ starting' = [starting EXCEPT ![s] = @ \ {le}]
    /\ WriteLog(s, LastIndex(s), <<le>>)
    /\ UNCHANGED <<Mode, CurrentTerm, VotedFor, alive, started>>
    /\ UNCHANGED electVars /\ UNCHANGED leadVars /\ UNCHANGED applyVars

-----------------------------------------------------------------------------
\* isLeading

\* The first critical section: cterm and last are read for the whole round.
LeadRead(s) ==
    /\ TickerIdle(s) /\ Mode[s] = "Leader"
    /\ rounds[s] < MaxRounds[s]
    /\ rounds' = [rounds EXCEPT ![s] = @ + 1]
    /\ ales' = ales \cup
           {[src |-> s, dst |-> p, round |-> rounds[s] + 1, st |-> "looping",
             cterm |-> CurrentTerm[s], last |-> LastIndex(s), next |-> 0,
             term |-> 0, prev |-> 0, pterm |-> 0, entries |-> <<>>, lc |-> 0,
             success |-> FALSE, conflict |-> 0, rterm |-> 0] : p \in Peers(s)}
    /\ UNCHANGED <<Mode, CurrentTerm, VotedFor, alive, pNextIndex, pMatchIndex>>
    /\ UNCHANGED logVars /\ UNCHANGED electVars /\ UNCHANGED applyVars

\* One turn of the loop: the peer's pNextIndex is read, a goroutine started.
LeadLoop(c) ==
    /\ c.st = "looping" /\ c.src \in alive
    /\ ales' = With(ales, c, [c EXCEPT !.st = "spawned",
                                       !.next = pNextIndex[c.src][c.dst]])
    /\ UNCHANGED <<Mode, CurrentTerm, VotedFor, alive, pNextIndex, pMatchIndex,
                   rounds>>
    /\ UNCHANGED logVars /\ UNCHANGED electVars /\ UNCHANGED applyVars

Included(c) == c.last >= c.next

\* buildAppendLogArgs: the request is stamped with the term found now.
buildAppendLogArgs(c, entries) ==
    [c EXCEPT !.st = "sent", !.term = CurrentTerm[c.src], !.prev = c.next - 1,
              !.pterm = TermAt(c.src, c.next - 1), !.entries = entries,
              !.lc = commitIndex[c.src]]

\* The goroutine slices the log it finds now, whoever wrote it.  A log that has
\* become too short makes the slice expressions panic.
LeadSend(c) ==
    LET s == c.src
        entries == IF Included(c) THEN SubSeq(logs[s], c.next, LastIndex(s)) ELSE <<>>
    IN
    /\ c.st = "spawned" /\ s \in alive
    /\ IF c.next - 1 > LastIndex(s)
       THEN alive' = alive \ {s} /\ ales' = ales \ {c}
       ELSE /\ ales' = With(ales, c, buildAppendLogArgs(c, entries))
            /\ UNCHANGED alive
    /\ UNCHANGED <<Mode, CurrentTerm, VotedFor, pNextIndex, pMatchIndex, rounds>>
    /\ UNCHANGED logVars /\ UNCHANGED electVars /\ UNCHANGED applyVars

\* The handler AppendLogEntry, one critical section.  It answers with the term
\* it had before the request, and sets commitIndex on heartbeats only.
Matching(c) == c.prev <= LastIndex(c.dst) /\ TermAt(c.dst, c.prev) = c.pterm

\* Mutant: the leader's commitIndex is taken over whatever the log holds.
NewCommitUnbounded(c) == c.lc

\* The commitIndex a heartbeat brings.
NewCommit(c) == Min({c.lc, LastIndex(c.dst)})

AppendLogEntry(c) ==
    LET d == c.dst
        Reply(success, conflict) ==
            ales' = With(ales, c, [c EXCEPT !.st = "replied",
                                            !.rterm = CurrentTerm[d],
                                            !.success = success,
                                            !.conflict = conflict])
    IN
    /\ c.st = "sent" /\ Running(c)
    /\ \/ /\ c.term < CurrentTerm[d]
          /\ Reply(FALSE, 0)
          /\ UNCHANGED <<Mode, CurrentTerm, VotedFor, logs, stale, taken, commitIndex,
                         wake, misled>>
       \/ /\ c.term >= CurrentTerm[d]
          /\ setToFollower(d, c.term)
          /\ \/ /\ c.entries # <<>> /\ ~Matching(c)
                /\ Reply(FALSE, resolveIndexConflict(d, c.pterm))
                /\ UNCHANGED <<logs, stale, taken, commitIndex, wake, misled>>
             \/ /\ c.entries # <<>> /\ Matching(c)
                /\ WriteLog(d, c.prev, c.entries)
                /\ misled' = misled \cup
                       (IF c.prev + Len(c.entries) < LastIndex(d) THEN {d} ELSE {})
                /\ Reply(TRUE, 0)
                /\ UNCHANGED <<commitIndex, wake>>
             \/ /\ c.entries = <<>> /\ Matching(c) /\ c.lc > commitIndex[d]
                /\ commitIndex' = [commitIndex EXCEPT ![d] = NewCommit(c)]
                /\ wake' = [wake EXCEPT ![d] = TRUE]
                /\ Reply(FALSE, 0)
                /\ UNCHANGED <<logs, stale, taken, misled>>
             \/ /\ c.entries = <<>> /\ ~(Matching(c) /\ c.lc > commitIndex[d])
                /\ Reply(FALSE, 0)
                /\ UNCHANGED <<logs, stale, taken, commitIndex, wake, misled>>
    /\ UNCHANGED <<alive, starting, started, appliedIndex, applied, pNextIndex,
                   pMatchIndex, rounds>>
    /\ UNCHANGED electVars

\* The leader's side: pMatchIndex is set to the leader's last index now, and a
\* quorum is counted by equality with it.
isQuorumReached(s, match) ==
    1 + Cardinality({p \in Peers(s) : match[p] = LastIndex(s)}) = Majority

\* Mutant: pNextIndex is one too far.
ReplicatedOffByOne(c) ==
    /\ pNextIndex' = [pNextIndex EXCEPT ![c.src][c.dst] = c.next + Len(c.entries) + 1]
    /\ UNCHANGED <<pMatchIndex, commitIndex, wake>>

Replicated(c) ==
    LET s     == c.src
        match == [pMatchIndex[s] EXCEPT ![c.dst] = LastIndex(s)]
    IN
    /\ pNextIndex' = [pNextIndex EXCEPT ![s][c.dst] = c.next + Len(c.entries)]
    /\ pMatchIndex' = [pMatchIndex EXCEPT ![s] = match]
    /\ IF isQuorumReached(s, match)
       THEN /\ commitIndex' = [commitIndex EXCEPT ![s] = LastIndex(s)]
            /\ wake' = [wake EXCEPT ![s] = TRUE]
       ELSE UNCHANGED <<commitIndex, wake>>

AppendReply(c) ==
    LET s == c.src
        counts == Included(c) /\ c.cterm = c.rterm /\ Mode[s] = "Leader"
    IN
    /\ c.st = "replied" /\ s \in alive
    /\ ales' = ales \ {c}
    /\ \/ /\ c.rterm > c.cterm
          /\ setToFollower(s, c.rterm)
          /\ UNCHANGED <<pNextIndex, pMatchIndex, commitIndex, wake, misled>>
       \/ /\ c.rterm <= c.cterm /\ counts /\ c.success
          /\ Replicated(c)
          /\ UNCHANGED <<Mode, CurrentTerm, VotedFor, misled>>
       \/ /\ c.rterm <= c.cterm /\ counts /\ ~c.success
          /\ pNextIndex' = [pNextIndex EXCEPT ![s][c.dst] = c.conflict + 1]
          /\ misled' = misled \cup (IF c.conflict > LastIndex(s) THEN {s} ELSE {})
          /\ UNCHANGED <<Mode, CurrentTerm, VotedFor, pMatchIndex, commitIndex, wake>>
       \/ /\ c.rterm <= c.cterm /\ ~counts
          /\ UNCHANGED <<Mode, CurrentTerm, VotedFor, pNextIndex, pMatchIndex,
                         commitIndex, wake, misled>>
    /\ UNCHANGED <<alive, appliedIndex, applied, rounds>>
    /\ UNCHANGED logVars /\ UNCHANGED electVars

AppendLost(c) ==
    /\ c.st \in {"sent", "replied"} /\ Lossy(c) /\ c.src \in alive
    /\ ales' = ales \ {c}
    /\ UNCHANGED <<Mode, CurrentTerm, VotedFor, alive, pNextIndex, pMatchIndex,
                   rounds>>
    /\ UNCHANGED logVars /\ UNCHANGED electVars /\ UNCHANGED applyVars

-----------------------------------------------------------------------------
\* handleCommits and the applier of the service (raft1/server.go).

\* A message is read under the lock and sent without it; the applier passes each to
\* CheckLogs before it takes the next.  What CheckLogs records of s is the messages
\* of s in their order, whenever the calls happen: the two are one step.
CheckLogs(s, i, le) ==
    applied' = [applied EXCEPT ![s] =
                   [k \in DOMAIN @ \cup {i} |-> IF k = i THEN le.cmd ELSE @[k]]]

\* A pass begins: the first entry of the slice is read with the slice.  The slice
\* reaches into the array beyond a log that was cut meanwhile.
takeCommits(s) ==
    LET slice == SubSeq(logs[s] \o stale[s], appliedIndex[s] + 1, commitIndex[s]) IN
    /\ s \in alive
    /\ wake[s] /\ taken[s].rest = <<>>
    /\ wake' = [wake EXCEPT ![s] = FALSE]
    /\ appliedIndex' = [appliedIndex EXCEPT ![s] = @ + Len(slice)]
    /\ IF slice = <<>>
       THEN UNCHANGED <<taken, applied>>
       ELSE /\ taken' = [taken EXCEPT ![s] = [Nothing EXCEPT !.rest = Tail(slice)]]
            /\ CheckLogs(s, appliedIndex[s] + 1, Head(slice))
    /\ UNCHANGED <<Mode, CurrentTerm, VotedFor, alive, misled, commitIndex, logs, stale,
                   starting, started>>
    /\ UNCHANGED electVars /\ UNCHANGED leadVars

\* Each other entry is read after the send of the one before, under the lock again.
handleCommits(s) ==
    LET rest == taken[s].rest IN
    /\ s \in alive
    /\ rest # <<>>
    /\ taken' = [taken EXCEPT ![s] = IF Len(rest) = 1 THEN Nothing
                                     ELSE [@ EXCEPT !.rest = Tail(rest)]]
    /\ CheckLogs(s, appliedIndex[s] - Len(rest) + 1, Head(rest))
    /\ UNCHANGED <<Mode, CurrentTerm, VotedFor, alive, misled, commitIndex, appliedIndex,
                   wake, logs, stale, starting, started>>
    /\ UNCHANGED electVars /\ UNCHANGED leadVars

Next ==
    \/ \E s \in Server :
          \/ isTimedOut(s) \/ ElectionWanted(s) \/ ElectionBegun(s)
          \/ ElectionTimer(s) \/ StartRead(s) \/ StartAppend(s)
          \/ LeadRead(s) \/ takeCommits(s) \/ handleCommits(s)
    \/ \E c \in rvs :
          VoteRead(c) \/ VoteNewer(c) \/ VoteJudged(c) \/ VoteReply(c) \/ VoteLost(c)
    \/ \E c \in ales :
          \/ LeadLoop(c) \/ LeadSend(c) \/ AppendLogEntry(c)
          \/ AppendReply(c) \/ AppendLost(c)

Spec == Init /\ [][Next]_vars

-----------------------------------------------------------------------------
Entries == [term : Nat, cmd : 1..MaxStarts]

TypeOK ==
    /\ Mode \in [Server -> {"Follower", "Candidate", "Leader"}]
    /\ CurrentTerm \in [Server -> Nat]
    /\ VotedFor \in [Server -> Server \cup {None}]
    /\ \A s \in Server : logs[s] \in Seq(Entries) /\ stale[s] \in Seq(Entries)
    /\ \A s \in Server : commitIndex[s] <= LastIndex(s) + Len(stale[s])
    /\ pNextIndex \in [Server -> [Server -> Nat \ {0}]]
    /\ pMatchIndex \in [Server -> [Server -> Nat]]
    /\ alive \subseteq Server /\ misled \subseteq Server
    /\ \A s \in Server : DOMAIN applied[s] = 1..(appliedIndex[s] - Len(taken[s].rest))

\* A leader has been granted the votes of a majority in one of its elections:
\* late, lost and repeated replies of several elections of the same peer, each
\* with its own counter (isElected), never add up to a majority nobody gave.
ElectionQuorum ==
    \A s \in Server : Mode[s] = "Leader" =>
        \E e \in DOMAIN votes[s] :
            isMajority(1 + Cardinality({g \in grants : g.for = s /\ g.eid = e}))

\* A leader never overwrites or deletes entries of its own log, with the
\* AppendLogEntry requests of other leaders, of its own term too, coming in
\* (setToFollower comes before the truncation in AppendLogEntry).
LeaderAppendOnly ==
    [][\A s \in Server : Mode[s] = "Leader" /\ Mode'[s] = "Leader" =>
          IsPrefix(logs[s], logs'[s])]_vars

\* Two peers never apply different commands at the same index
\* (the tester's checkLogs).
StateMachineSafety ==
    \A s, t \in Server : \A i \in DOMAIN applied[s] \cap DOMAIN applied[t] :
        applied[s][i] = applied[t][i]

\* A peer panics in isLeading or buildAppendLogArgs, whose slices of its log use
\* a pNextIndex read in an earlier critical section and set from replies to still
\* earlier requests, only if another leader has made its log shorter, or a peer
\* has told it a conflict index beyond its log; replies that are late, from
\* another round or leadership, or to a log that has grown since, do not do it.
PanicsOnlyIfMisled == Server \ alive \subseteq misled

\* Where only one peer stands for election, the logs of the others are
\* prefixes of its log whatever requests and replies are lost or overtake each
\* other, and no command is applied that the log does not hold at its index.
FollowersArePrefixes ==
    \A l \in MayTimeOut : \A s \in Server :
        /\ IsPrefix(logs[s], logs[l])
        /\ \A i \in DOMAIN applied[s] :
              i <= LastIndex(l) /\ applied[s][i] = logs[l][i].cmd
=============================================================================
