------------------------------- MODULE Tester -------------------------------
(***************************************************************************)
(* The tester's network with its clients and a server group: clerks and    *)
(* servers call servers while the tester cuts, partitions and restarts.    *)
(***************************************************************************)
EXTENDS Clnts, ServerGrp

CONSTANT MaxOps         \* how often the tester interferes

ASSUME MaxOpsAssumption == MaxOps \in Nat

VARIABLES ops,          \* interferences so far
          ending,       \* Config.Cleanup has begun
          sides         \* history: the partition the tester asked for, {} after
                        \* operations that do not amount to one

testVars == <<ops, ending, sides>>
vars == <<netVars, clntVars, grpVars, testVars>>

\* MakeConfig.
Init ==
    /\ StartServers
    /\ makeClnts
    /\ reqs = [id \in Calls |-> [st |-> "none", end |-> Link(0, 0), srv |-> 0, ok |-> FALSE]]
    /\ done = FALSE
    /\ ops = 0
    /\ ending = FALSE
    /\ sides = {Servers}

Interfere(s) == ~ending /\ ops < MaxOps /\ ops' = ops + 1 /\ sides' = s /\ UNCHANGED ending

\* The calls on the group are made one after the other.
Rewired(s) == turns = {} /\ Interfere(s) /\ UNCHANGED clntVars

ClerkCalls(c, s, id) == ClntCall(c, s, id) /\ UNCHANGED <<grpVars, testVars>>
ServerCalls(i, j, id) == ServerCall(i, j, id) /\ UNCHANGED <<clntVars, testVars>>
Network(id) == processReq(id) /\ UNCHANGED <<clntVars, grpVars, testVars>>
Handle(id) == (Save(id) \/ Answer(id) \/ Broken(id)) /\ UNCHANGED <<clntVars, testVars>>

Interrupted(c) ==
    /\ SetClnt(c) \/ RemoveClnt(c)
    /\ Interfere(sides)
    /\ UNCHANGED grpVars

Partitioned(l) ==
    LET p == MakePartition(l) IN
    /\ Partition(p[1], p[2])
    /\ Rewired({p[1], p[2]})

\* A turn of the loop of Test.Partitioner: any two sides, one of them perhaps empty.
Partitioner(p) ==
    /\ Partition(p, Servers \ p)
    /\ Rewired({p, Servers \ p})

Healed ==
    /\ ConnectAll
    /\ Rewired({Servers})

\* Partition or ConnectAll goes on.
LoopTurns(t) == Turn(t) /\ UNCHANGED <<clntVars, testVars>>

\* After a Partition, ConnectOne bridges the sides.
Reconnected(i) ==
    /\ ConnectOne(i)
    /\ Rewired(IF sides = {Servers} THEN sides ELSE {})

Disconnected(i) ==
    /\ DisconnectAll(i)
    /\ Rewired(sides)

Shutdown(i) ==
    /\ Isolate(i)
    /\ Rewired(sides)

\* The rest of ShutdownServer goes on by itself, StartServer when the test wants.
Lifecycle(i) ==
    /\ \/ ShutdownStep(i)
       \/ ~ending /\ (startServer(i) \/ AddServer(i))
    /\ UNCHANGED <<clntVars, testVars>>

\* Config.Cleanup: the clients' ends go, the groups shut down server by server,
\* and last the network stops.
CleanupClnts ==
    /\ ~ending /\ ending' = TRUE
    /\ turns = {}
    /\ \A i \in Servers : phase[i] \in {"up", "down"}
    /\ removed' = Clients
    /\ DeleteEnds(UNION {EndsOf(c) : c \in Clients})
    /\ UNCHANGED <<servers, reqs, done, made, srvs, grpVars, ops, sides>>

CleanupGroup(i) ==
    /\ ending
    /\ \A j \in Servers : j < i => phase[j] = "down"
    /\ Isolate(i)
    /\ UNCHANGED <<clntVars, testVars>>

CleanupNet ==
    /\ ending
    /\ \A i \in Servers : phase[i] = "down"
    /\ Cleanup
    /\ UNCHANGED <<ends, enabled, servers, reqs, clntVars, grpVars, testVars>>

Next ==
    \/ \E id \in Calls :
          \/ \E c \in Clients, s \in Servers : ClerkCalls(c, s, id)
          \/ \E i, j \in Servers : ServerCalls(i, j, id)
          \/ Network(id)
          \/ Handle(id)
    \/ \E c \in Clients : Interrupted(c)
    \/ \E i \in Servers :
          \/ Partitioned(i)
          \/ Reconnected(i)
          \/ Disconnected(i)
          \/ Shutdown(i)
          \/ Lifecycle(i)
          \/ CleanupGroup(i)
    \/ \E p \in SUBSET Servers : Partitioner(p)
    \/ Healed
    \/ \E t \in turns : LoopTurns(t)
    \/ CleanupClnts
    \/ CleanupNet

Spec == Init /\ [][Next]_vars

\* Goroutines of the network run; nothing is assumed of handlers or the tester.
FairSpec == Spec /\ \A id \in Calls : WF_vars(Network(id))

-----------------------------------------------------------------------------
TypeOK ==
    /\ ends \subseteq End
    /\ enabled \subseteq ends
    /\ servers \in [Servers -> Nat]
    /\ reqs \in [Calls -> Req]
    /\ done \in BOOLEAN
    /\ made \in [Clients -> SUBSET Servers]
    /\ srvs \in [Clients -> SUBSET Servers]
    /\ removed \subseteq Clients
    /\ connected \in [Servers -> BOOLEAN]
    /\ turns \subseteq [srv : Servers, to : SUBSET Servers, from : SUBSET Servers]
    /\ gen \in [Servers -> Nat \ {0}]
    /\ phase \in [Servers -> Phase]
    /\ disk \in [Servers -> SUBSET Calls]
    /\ saved \in [Servers -> SUBSET Calls]
    /\ handler \in [Calls -> {"none", "saved", "over"}]
    /\ ops \in Nat /\ ending \in BOOLEAN
    /\ sides \subseteq SUBSET Servers

Acked(id) == reqs[id].st = "returned" /\ reqs[id].ok

\* What server i will have after its next restart, or has if it is not being shut
\* down.
Durable(i) == IF phase[i] \in {"checkpointed", "down"} THEN saved[i] ELSE disk[i]

\* A caller that got a positive reply can rely on it: the update is in the
\* persister of the server's present incarnation, or in the one its next
\* incarnation starts from.  Handlers run on while ShutdownServer isolates the
\* server, deletes it and copies its persister, and their updates after the copy
\* are lost (the comment at labrpc.go:338).
AckedIsDurable == \A id \in Calls : Acked(id) => id \in Durable(reqs[id].end.to)

\* Two servers reach each other exactly when both are connected and on one
\* side of the last Partition or ConnectAll, once its loops are over, whatever was
\* disconnected, restarted with fresh ends or connected again since (connect,
\* disconnect).
LinksAsTold ==
    sides # {} /\ turns = {} =>
        \A i, j \in Servers :
            Link(i, j) \in enabled <=>
                connected[i] /\ connected[j] /\ \E p \in sides : {i, j} \subseteq p

\* A client that DisconnectAll has cut reaches no server, also not through an end
\* that a clerk makes later (Clnt.makeEnd, and the comment at clnts.go:25).
CutClientIsCut ==
    \A c \in Clients : srvs[c] = {} => \A e \in enabled : e.owner # c

\* A call does not outlive its server: once the server it was dispatched to has
\* been deleted, the call returns even if the handler never does (the poll of
\* isServerDead in processReq).
DeletedServerReleases ==
    \A id \in Calls :
        (Pending(id) /\ reqs[id].srv # 0 /\ servers[reqs[id].end.to] # reqs[id].srv)
            ~> (reqs[id].st = "returned")
=============================================================================
