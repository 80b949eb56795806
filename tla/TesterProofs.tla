---------------------------- MODULE TesterProofs ----------------------------
(***************************************************************************)
(* The invariants of the tester for any number of servers, clients, calls  *)
(* and interferences: first AckedIsDurable, then the wiring.               *)
(*                                                                         *)
(* The argument for AckedIsDurable is the comment at labrpc.go:338: a      *)
(* positive reply is only passed on while the server it came from is       *)
(* registered, a registered server has not been checkpointed, and what a   *)
(* handler saves before that is part of the copy its next incarnation      *)
(* starts from.                                                            *)
(***************************************************************************)
EXTENDS Tester, TLAPS

\* The part of TypeOK the argument needs; the wiring is not.
Types ==
    /\ servers \in [Servers -> Nat]
    /\ reqs \in [Calls -> Req]
    /\ gen \in [Servers -> Nat \ {0}]
    /\ phase \in [Servers -> Phase]
    /\ disk \in [Servers -> SUBSET Calls]
    /\ saved \in [Servers -> SUBSET Calls]
    /\ handler \in [Calls -> {"none", "saved", "over"}]

\* DeleteServer comes before, and AddServer after, the persister changes hands.
RegisteredWhileUp ==
    \A i \in Servers : servers[i] = IF phase[i] \in {"up", "isolated"} THEN gen[i] ELSE 0

\* How far call id has come tells what the server it is for has of it.
Progress(id) ==
    LET r == reqs[id]
        s == r.end.to
    IN  /\ r.srv <= gen[s]
        /\ r.st \in {"none", "sent"} => r.srv = 0 /\ ~r.ok
        /\ r.st \in {"served", "answered"} => r.srv # 0
        /\ r.st = "served" => ~r.ok
        /\ handler[id] = "saved" /\ r.srv = gen[s] => id \in disk[s]
        /\ handler[id] # "none" => r.srv # 0
        /\ r.st = "answered" /\ r.ok /\ r.srv = gen[s] => id \in disk[s]
        /\ r.st \in {"replying", "returned"} /\ r.ok => id \in Durable(s)

IInv == Types /\ RegisteredWhileUp /\ \A id \in Calls : Progress(id)
-----------------------------------------------------------------------------
core == <<servers, reqs, gen, phase, disk, saved, handler>>

\* What the invariant speaks of is left alone.
LEMMA CoreUnchanged == IInv /\ UNCHANGED core => IInv'
  BY DEF IInv, Types, RegisteredWhileUp, Progress, Durable, core

\* What replacing one call's record amounts to.
LEMMA SetReq ==
    ASSUME reqs \in [Calls -> Req], NEW id \in Calls, NEW r \in Req,
           reqs' = [reqs EXCEPT ![id] = r]
    PROVE  /\ reqs' \in [Calls -> Req]
           /\ reqs'[id] = r
           /\ \A k \in Calls \ {id} : reqs'[k] = reqs[k]
  OBVIOUS

\* A call that fails keeps its destination.
LEMMA FailFacts ==
    ASSUME reqs \in [Calls -> Req], NEW id \in Calls, Fail(id)
    PROVE  /\ reqs' \in [Calls -> Req]
           /\ reqs'[id].st = "returned" /\ ~reqs'[id].ok
           /\ reqs'[id].end = reqs[id].end /\ reqs'[id].srv = reqs[id].srv
           /\ \A k \in Calls \ {id} : reqs'[k] = reqs[k]
  <1> DEFINE r == [reqs[id] EXCEPT !.st = "returned", !.ok = FALSE]
  <1>1. r \in Req /\ r.st = "returned" /\ ~r.ok /\ r.end = reqs[id].end /\ r.srv = reqs[id].srv
    BY DEF Req, Stage
  <1>2. reqs' = [reqs EXCEPT ![id] = r]
    BY DEF Fail
  <1> QED
    BY <1>1, <1>2, SetReq

\* A call begins on an end that leads to some server.
LEMMA CallKeeps ==
    ASSUME IInv, NEW id \in Calls, NEW e \in End, Call(id, e),
           UNCHANGED <<servers, gen, phase, disk, saved, handler>>
    PROVE  IInv'
  <1>0. PICK r \in Req : /\ reqs' = [reqs EXCEPT ![id] = r]
                         /\ r.end = e /\ r.srv = 0 /\ ~r.ok /\ r.st \in {"sent", "returned"}
    <2> DEFINE R(st) == [st |-> st, end |-> e, srv |-> 0, ok |-> FALSE]
    <2>1. R("sent") \in Req /\ R("returned") \in Req
      BY DEF Req, Stage
    <2> QED
      BY <2>1 DEF Call
  <1>1. Types' /\ reqs'[id] = r /\ \A k \in Calls \ {id} : reqs'[k] = reqs[k]
    BY <1>0, SetReq DEF Types, IInv
  <1>2. RegisteredWhileUp'
    BY DEF RegisteredWhileUp, IInv
  <1>3. ASSUME NEW k \in Calls PROVE Progress(k)'
    <2>1. e.to \in Servers /\ gen[e.to] \in Nat \ {0}
      BY DEF End, IInv, Types
    <2>2. CASE k = id
      BY <1>0, <1>1, <2>1, <2>2 DEF IInv, Types, Progress, Call, Durable
    <2>3. CASE k # id
      BY <1>1, <2>3 DEF IInv, Types, Progress, Durable
    <2> QED
      BY <2>2, <2>3
  <1> QED
    BY <1>1, <1>2, <1>3 DEF IInv

\* processReq passes a positive reply on only while its server is registered.
LEMMA NetworkKeeps ==
    ASSUME IInv, NEW id \in Calls, processReq(id), UNCHANGED grpVars
    PROVE  IInv'
  <1> USE DEF processReq, grpVars
  <1>1. reqs[id] \in Req /\ reqs[id].end \in End /\ reqs[id].end.to \in Servers /\ reqs[id].srv \in Nat
    BY DEF IInv, Types, Req, End
  <1>2. servers[reqs[id].end.to] \in Nat /\ servers[reqs[id].end.to] <= gen[reqs[id].end.to]
    BY <1>1 DEF IInv, Types, RegisteredWhileUp
  <1>3. RegisteredWhileUp'
    BY DEF RegisteredWhileUp, IInv
  <1>4. ASSUME reqs' \in [Calls -> Req], Progress(id)',
               \A k \in Calls \ {id} : reqs'[k] = reqs[k]
        PROVE  IInv'
    <2>1. ASSUME NEW k \in Calls \ {id} PROVE Progress(k)'
      BY <1>4, <2>1 DEF IInv, Types, Progress, Durable
    <2> QED
      BY <1>3, <1>4, <2>1 DEF IInv, Types
  <1>5. CASE Fail(id) /\ reqs[id].st \in {"sent", "served", "answered"}
    BY <1>1, <1>4, <1>5, FailFacts DEF IInv, Types, Progress, Durable
  <1>6. CASE Deliver(id)
    <2> DEFINE r == [reqs[id] EXCEPT !.st = "served", !.srv = Destination(reqs[id].end)]
    <2>1. /\ r \in Req /\ r.st = "served" /\ r.end = reqs[id].end /\ r.ok = reqs[id].ok
          /\ r.srv = servers[reqs[id].end.to] /\ r.srv # 0
      BY <1>1, <1>2, <1>6 DEF Req, Stage, Deliver, Destination
    <2>2. reqs' = [reqs EXCEPT ![id] = r]
      BY <1>6 DEF Deliver
    <2>3. handler[id] = "none" /\ ~reqs[id].ok
      BY <1>6 DEF IInv, Types, Progress, Deliver
    <2>4. reqs' \in [Calls -> Req] /\ reqs'[id] = r /\ \A k \in Calls \ {id} : reqs'[k] = reqs[k]
      BY <2>1, <2>2, SetReq DEF IInv, Types
    <2>5. Progress(id)'
      BY <1>1, <1>2, <2>1, <2>3, <2>4 DEF Progress
    <2> QED
      BY <1>4, <2>4, <2>5
  <1>7. CASE Judge(id) /\ ~Fail(id)
    <2> DEFINE r == [reqs[id] EXCEPT !.st = "replying"]
    <2>1. r \in Req /\ r.st = "replying" /\ r.end = reqs[id].end /\ r.ok = reqs[id].ok /\ r.srv = reqs[id].srv
      BY <1>1 DEF Req, Stage
    <2>2. reqs' = [reqs EXCEPT ![id] = r] /\ reqs[id].ok /\ ~isServerDead(id)
      BY <1>7 DEF Judge
    <2>3. reqs[id].srv = gen[reqs[id].end.to] /\ phase[reqs[id].end.to] \in {"up", "isolated"}
      BY <1>1, <1>7, <2>2 DEF IInv, Types, RegisteredWhileUp, Progress, Judge, isServerDead
    <2>4. id \in Durable(reqs[id].end.to)
      BY <1>7, <2>2, <2>3 DEF IInv, Progress, Judge, Durable
    <2> QED
      BY <1>1, <1>4, <1>7, <2>1, <2>2, <2>3, <2>4, SetReq DEF IInv, Types, Progress, Judge, Durable
  <1>8. CASE Reply(id)
    <2> DEFINE r == [reqs[id] EXCEPT !.st = "returned"]
    <2>1. r \in Req /\ r.st = "returned" /\ r.end = reqs[id].end /\ r.ok = reqs[id].ok /\ r.srv = reqs[id].srv
      BY <1>1 DEF Req, Stage
    <2>2. reqs' = [reqs EXCEPT ![id] = r]
      BY <1>8 DEF Reply
    <2> QED
      BY <1>1, <1>4, <1>8, <2>1, <2>2, SetReq DEF IInv, Types, Progress, Reply, Durable
  <1> QED
    BY <1>5, <1>6, <1>7, <1>8 DEF Undelivered, GiveUp, Judge

\* A handler saves, returns, or is lost with its process.
LEMMA HandleKeeps ==
    ASSUME IInv, NEW id \in Calls, Save(id) \/ Answer(id) \/ Broken(id)
    PROVE  IInv'
  <1>1. reqs[id] \in Req /\ reqs[id].end.to \in Servers /\ reqs[id].srv \in Nat
    BY DEF IInv, Types, Req, End
  <1>2. CASE Save(id)
    <2> USE <1>2 DEF Save, Alive, netVars
    <2>1. Types'
      BY <1>1 DEF IInv, Types
    <2>2. RegisteredWhileUp'
      BY DEF IInv, RegisteredWhileUp
    <2>3. ASSUME NEW k \in Calls PROVE Progress(k)'
      <3>1. reqs[k].end.to \in Servers
        BY DEF IInv, Types, Req, End
      <3> QED
        BY <1>1, <3>1 DEF IInv, Types, Progress, Durable
    <2> QED
      BY <2>1, <2>2, <2>3 DEF IInv
  <1>3. CASE Answer(id) \/ Broken(id)
    <2> USE <1>3 DEF Answer, Broken, Dispatched, Alive
    <2>0. PICK r \in Req :
             /\ reqs' = [reqs EXCEPT ![id] = r] /\ r.end = reqs[id].end /\ r.srv = reqs[id].srv
             /\ \/ r.st = reqs[id].st /\ r.ok = reqs[id].ok
                \/ r.st = "answered" /\ (r.ok => handler[id] = "saved" /\ r.srv = gen[r.end.to])
      <3>1. CASE reqs[id].st = "served"
        <4>1. PICK ok \in BOOLEAN : /\ reqs' = [reqs EXCEPT ![id].st = "answered", ![id].ok = ok]
                                    /\ ok => Answer(id)
          BY <3>1
        <4> DEFINE r == [reqs[id] EXCEPT !.st = "answered", !.ok = ok]
        <4>2. r \in Req /\ r.st = "answered" /\ r.end = reqs[id].end /\ r.ok = ok /\ r.srv = reqs[id].srv
          BY <1>1 DEF Req, Stage
        <4>3. reqs' = [reqs EXCEPT ![id] = r]
          BY <4>1
        <4> QED
          BY <4>1, <4>2, <4>3
      <3>2. CASE reqs[id].st # "served"
        BY <1>1, <3>2 DEF IInv, Types
      <3> QED
        BY <3>1, <3>2
    <2>1. Types' /\ reqs'[id] = r /\ \A k \in Calls \ {id} : reqs'[k] = reqs[k]
      BY <2>0, SetReq DEF IInv, Types
    <2>2. RegisteredWhileUp'
      BY DEF IInv, RegisteredWhileUp
    <2>3. ASSUME NEW k \in Calls PROVE Progress(k)'
      <3>1. CASE k = id
        BY <1>1, <2>0, <2>1, <3>1 DEF IInv, Types, Progress, Durable
      <3>2. CASE k # id
        BY <1>1, <2>1, <3>2 DEF IInv, Types, Progress, Durable
      <3> QED
        BY <3>1, <3>2
    <2> QED
      BY <2>1, <2>2, <2>3 DEF IInv
  <1> QED
    BY <1>2, <1>3

\* Each step of ShutdownServer and StartServer keeps what is durable.
LEMMA LifecycleKeeps ==
    ASSUME IInv, NEW i \in Servers,
           Isolate(i) \/ ShutdownStep(i) \/ startServer(i) \/ AddServer(i)
    PROVE  IInv'
  <1> USE DEF To, Phase, netVars
  <1>1. CASE Isolate(i)
    <2>1. ASSUME NEW k \in Calls PROVE Progress(k)'
      BY <1>1 DEF IInv, Types, Progress, Durable, Isolate, Req, End
    <2> QED
      BY <1>1, <2>1 DEF IInv, Types, RegisteredWhileUp, Isolate
  <1>2. CASE DeleteServer(i)
    <2>1. ASSUME NEW k \in Calls PROVE Progress(k)'
      BY <1>2 DEF IInv, Types, Progress, Durable, DeleteServer, Req, End
    <2> QED
      BY <1>2, <2>1 DEF IInv, Types, RegisteredWhileUp, DeleteServer
  <1>3. CASE checkpointPersister(i)
    <2>1. ASSUME NEW k \in Calls PROVE Progress(k)'
      BY <1>3 DEF IInv, Types, Progress, Durable, checkpointPersister, Req, End
    <2> QED
      BY <1>3, <2>1 DEF IInv, Types, RegisteredWhileUp, checkpointPersister
  <1>4. CASE kill(i)
    <2>1. ASSUME NEW k \in Calls PROVE Progress(k)'
      BY <1>4 DEF IInv, Types, Progress, Durable, kill, Req, End
    <2> QED
      BY <1>4, <2>1 DEF IInv, Types, RegisteredWhileUp, kill
  <1>5. CASE startServer(i)
    <2>1. ASSUME NEW k \in Calls PROVE Progress(k)'
      <3>1. reqs[k] \in Req /\ reqs[k].end.to \in Servers /\ reqs[k].srv \in Nat
        BY DEF IInv, Types, Req, End
      <3> QED
        BY <1>5, <3>1 DEF IInv, Types, Progress, Durable, startServer
    <2> QED
      BY <1>5, <2>1 DEF IInv, Types, RegisteredWhileUp, startServer
  <1>6. CASE AddServer(i)
    <2>1. ASSUME NEW k \in Calls PROVE Progress(k)'
      BY <1>6 DEF IInv, Types, Progress, Durable, AddServer, Req, End
    <2> QED
      BY <1>6, <2>1 DEF IInv, Types, RegisteredWhileUp, AddServer
  <1> QED
    BY <1>1, <1>2, <1>3, <1>4, <1>5, <1>6 DEF ShutdownStep

LEMMA InitIInv == Init => IInv
  <1> SUFFICES ASSUME Init PROVE IInv
    OBVIOUS
  <1> USE DEF Init, StartServers
  <1>1. 0 \in Servers
    BY NAssumption DEF Servers
  <1>2. Link(0, 0) \in End
    BY <1>1 DEF Link, End
  <1>3. Types
    BY <1>2 DEF Types, Req, Stage, Phase
  <1>4. RegisteredWhileUp
    BY DEF RegisteredWhileUp
  <1>5. ASSUME NEW id \in Calls PROVE Progress(id)
    BY <1>1, <1>2 DEF Progress, Link
  <1> QED
    BY <1>3, <1>4, <1>5 DEF IInv

LEMMA NextKeeps == IInv /\ [Next]_vars => IInv'
  <1> SUFFICES ASSUME IInv, [Next]_vars PROVE IInv'
    OBVIOUS
  <1>1. ASSUME NEW id \in Calls, NEW c \in Clients, NEW s \in Servers, ClerkCalls(c, s, id)
        PROVE  IInv'
    <2>1. ClntEnd(c, s) \in End
      BY DEF ClntEnd, End
    <2> QED
      BY <1>1, <2>1, CallKeeps DEF ClerkCalls, ClntCall, grpVars
  <1>2. ASSUME NEW id \in Calls, NEW i \in Servers, NEW j \in Servers, ServerCalls(i, j, id)
        PROVE  IInv'
    <2>1. Link(i, j) \in End
      BY DEF Link, End, IInv, Types
    <2> QED
      BY <1>2, <2>1, CallKeeps DEF ServerCalls, ServerCall, grpVars
  <1>3. ASSUME NEW id \in Calls, Network(id) PROVE IInv'
    BY <1>3, NetworkKeeps DEF Network
  <1>4. ASSUME NEW id \in Calls, Handle(id) PROVE IInv'
    BY <1>4, HandleKeeps DEF Handle
  <1>5. ASSUME NEW c \in Clients, Interrupted(c) PROVE IInv'
    BY <1>5, CoreUnchanged DEF Interrupted, SetClnt, RemoveClnt, grpVars, core
  <1>6. ASSUME NEW i \in Servers, Partitioned(i) \/ Reconnected(i) \/ Disconnected(i) PROVE IInv'
    BY <1>6, CoreUnchanged
       DEF Partitioned, Partition, Loop, Reconnected, ConnectOne, Disconnected, DisconnectAll, Rewire,
           netVars, core
  <1>6a. ASSUME NEW p \in SUBSET Servers, Partitioner(p) PROVE IInv'
    BY <1>6a, CoreUnchanged DEF Partitioner, Partition, Loop, netVars, core
  <1>6b. ASSUME NEW t \in turns, LoopTurns(t) PROVE IInv'
    BY <1>6b, CoreUnchanged DEF LoopTurns, Turn, Rewire, core
  <1>7. ASSUME NEW i \in Servers, Shutdown(i) \/ Lifecycle(i) \/ CleanupGroup(i) PROVE IInv'
    BY <1>7, LifecycleKeeps DEF Shutdown, Lifecycle, CleanupGroup
  <1>8. CASE Healed \/ CleanupClnts \/ CleanupNet
    BY <1>8, CoreUnchanged
       DEF Healed, ConnectAll, Loop, CleanupClnts, CleanupNet, netVars, grpVars, core
  <1>9. CASE UNCHANGED vars
    BY <1>9, CoreUnchanged DEF vars, netVars, grpVars, core
  <1> QED
    BY <1>1, <1>2, <1>3, <1>4, <1>5, <1>6, <1>7, <1>8, <1>9, <1>6a, <1>6b DEF Next

\* A positive reply is never about an update that a shutdown or a restart of its
\* server loses (processReq, ShutdownServer, CheckpointPersister, StartServer).
THEOREM AcknowledgedUpdatesSurvive == Spec => []AckedIsDurable
  <1>1. IInv => AckedIsDurable
    BY DEF IInv, Progress, AckedIsDurable, Acked
  <1> QED
    BY <1>1, InitIInv, NextKeeps, PTL DEF Spec
-----------------------------------------------------------------------------
(***************************************************************************)
(* The wiring: TypeOK, LinksAsTold and CutClientIsCut.                     *)
(*                                                                         *)
(* The tester's two kinds of ends do not meet: a client's ends change with *)
(* the client's methods, the servers' ends with connect and disconnect.    *)
(* LinksAsTold is about the moments between the calls on a group; while    *)
(* the loops of Partition or ConnectAll go on, it holds of a pair of       *)
(* servers as soon as one of them has had its turn.                        *)
(***************************************************************************)
WTypes ==
    /\ ends \subseteq End
    /\ enabled \subseteq ends
    /\ done \in BOOLEAN
    /\ made \in [Clients -> SUBSET Servers]
    /\ srvs \in [Clients -> SUBSET Servers]
    /\ removed \subseteq Clients
    /\ connected \in [Servers -> BOOLEAN]
    /\ turns \subseteq [srv : Servers, to : SUBSET Servers, from : SUBSET Servers]
    /\ ops \in Nat /\ ending \in BOOLEAN
    /\ sides \subseteq SUBSET Servers

\* The network knows the ends the servers use.
LinksKnown == \A i, j \in Servers : Link(i, j) \in ends

\* No end of an incarnation to come is enabled.
NoFutureEnds == \A e \in enabled : e.owner \in Servers => e.gen <= gen[e.owner]

\* What a client may use is in its table.
InTable == \A c \in Clients : \A e \in enabled : e.owner = c => e \in EndsOf(c)

\* The network knows the ends of a client until the client is removed.
TableKnown == \A c \in Clients \ removed : EndsOf(c) \subseteq ends

\* Only servers that are connected have an enabled end between them.
BothConnected == \A i, j \in Servers : Link(i, j) \in enabled => connected[i] /\ connected[j]

\* A server is disconnected from the first step of its shutdown on.
UpIfConnected == \A i \in Servers : connected[i] => phase[i] = "up"

\* The sides share no server and leave none out.
ProperSides ==
    /\ \A p, q \in sides : p \cap q # {} => p = q
    /\ sides # {} => UNION sides = Servers

\* The turns that are left lead to the sides the tester asked for.
ProperTurns ==
    /\ turns # {} => ~ending /\ \A i \in Servers : phase[i] = "up"
    /\ \A t \in turns : t.to \in sides /\ t.srv \in t.to /\ t.from = Servers \ t.to

HasTurn(i)      == \E t \in turns : t.srv = i
OnOneSide(i, j) == \E p \in sides : {i, j} \subseteq p
AsTold(i, j)    == Link(i, j) \in enabled <=> connected[i] /\ connected[j] /\ OnOneSide(i, j)

\* A pair is wired as told as soon as one of the two has had its turn.
WiredSoFar ==
    sides # {} => \A i, j \in Servers : (HasTurn(i) /\ HasTurn(j)) \/ AsTold(i, j)

\* What the clients' methods keep, and what the calls on the group keep.
ClntInv == InTable /\ TableKnown /\ CutClientIsCut
GrpInv  == /\ LinksKnown /\ NoFutureEnds /\ BothConnected /\ UpIfConnected
           /\ ProperSides /\ ProperTurns /\ WiredSoFar

WInv == WTypes /\ ClntInv /\ GrpInv

LEMMA ClientsAreNoServers == \A c \in Clients : c \notin Servers
  BY ClientsAssumption, NAssumption DEF Servers

LEMMA LinkType ==
    ASSUME gen \in [Servers -> Nat \ {0}], NEW i \in Servers, NEW j \in Servers
    PROVE  /\ Link(i, j) \in End
           /\ Link(i, j).owner = i /\ Link(i, j).to = j /\ Link(i, j).gen = gen[i]
  BY DEF Link, End

\* Nothing the invariant speaks of changes, but ops and done may.
LEMMA WiringUnchanged ==
    ASSUME WInv, UNCHANGED <<ends, enabled, clntVars, connected, turns, gen, sides>>,
           ops' \in Nat, done' \in BOOLEAN, ending' \in BOOLEAN,
           ending' = ending \/ turns = {},
           \A i \in Servers : phase[i] = "up" => phase'[i] = "up"
    PROVE  WInv'
  <1> USE DEF WInv, ClntInv, GrpInv, clntVars
  <1>1. WTypes'
    BY DEF WTypes
  <1>2. LinksKnown' /\ NoFutureEnds' /\ BothConnected' /\ UpIfConnected'
    BY DEF LinksKnown, NoFutureEnds, BothConnected, UpIfConnected, Link
  <1>3. InTable' /\ TableKnown' /\ CutClientIsCut'
    BY DEF InTable, TableKnown, CutClientIsCut, EndsOf
  <1>4. ProperSides' /\ ProperTurns'
    BY DEF ProperSides, ProperTurns
  <1>5. WiredSoFar'
    BY DEF WiredSoFar, HasTurn, AsTold, OnOneSide, Link
  <1> QED
    BY <1>1, <1>2, <1>3, <1>4, <1>5

\* A step that changes clients' ends only keeps what is told of the servers'.
LEMMA ClientStep ==
    ASSUME GrpInv, gen \in [Servers -> Nat \ {0}],
           UNCHANGED <<connected, turns, gen, phase, sides>>,
           ending' = ending \/ turns = {},
           \A e \in End : e.owner \in Servers => (e \in ends' <=> e \in ends)
                                                 /\ (e \in enabled' <=> e \in enabled),
           enabled' \subseteq End
    PROVE  GrpInv'
  <1> USE DEF GrpInv
  <1>1. \A i, j \in Servers : /\ Link(i, j)' = Link(i, j)
                              /\ Link(i, j) \in ends' <=> Link(i, j) \in ends
                              /\ Link(i, j) \in enabled' <=> Link(i, j) \in enabled
    <2> TAKE i \in Servers, j \in Servers
    <2>1. Link(i, j)' = Link(i, j)
      BY DEF Link
    <2> QED
      BY <2>1, LinkType
  <1>2. LinksKnown' /\ BothConnected' /\ UpIfConnected'
    BY <1>1 DEF LinksKnown, BothConnected, UpIfConnected
  <1>3. NoFutureEnds'
    BY DEF NoFutureEnds
  <1>4. ProperSides' /\ ProperTurns'
    BY DEF ProperSides, ProperTurns
  <1>5. WiredSoFar'
    BY <1>1 DEF WiredSoFar, HasTurn, AsTold, OnOneSide
  <1> QED
    BY <1>2, <1>3, <1>4, <1>5

LEMMA ClntEndType ==
    ASSUME NEW c \in Clients, NEW s \in Servers
    PROVE  /\ ClntEnd(c, s) \in End
           /\ ClntEnd(c, s).owner = c /\ ClntEnd(c, s).to = s
           /\ ClntEnd(c, s).owner \notin Servers
  BY ClientsAreNoServers DEF ClntEnd, End

\* The ends in a client's table.
LEMMA EndsOfType ==
    ASSUME made \in [Clients -> SUBSET Servers], NEW c \in Clients, NEW e \in EndsOf(c)
    PROVE  e \in End /\ e.owner = c /\ e.owner \notin Servers /\ e.to \in made[c] /\ e = ClntEnd(c, e.to)
  <1>1. PICK s \in made[c] : e = ClntEnd(c, s)
    BY DEF EndsOf
  <1> QED
    BY <1>1, ClntEndType

\* A clerk calls: its client has an end to the server, or makes one.
LEMMA ClerkCallsKeeps ==
    ASSUME IInv, WInv, NEW c \in Clients, NEW s \in Servers, NEW id \in Calls, ClerkCalls(c, s, id)
    PROVE  WInv'
  <1> USE DEF WInv, ClntInv, ClerkCalls, ClntCall, grpVars, testVars
  <1>1. CASE s \in made[c]
    BY <1>1, WiringUnchanged DEF makeEnd, clntVars, WTypes
  <1>2. CASE s \notin made[c]
    <2> DEFINE e == ClntEnd(c, s)
    <2>1. /\ made' = [made EXCEPT ![c] = @ \cup {s}]
          /\ ends' = ends \cup {e}
          /\ enabled' = enabled \/ (enabled' = enabled \cup {e} /\ srvs[c] # {})
      BY <1>2 DEF makeEnd
    <2>2. e \in End /\ e.owner = c /\ c \notin Servers
      BY ClntEndType
    <2>3. WTypes'
      BY <2>1, <2>2 DEF WTypes
    <2>4. GrpInv'
      BY <2>1, <2>2, <2>3, ClientStep DEF IInv, Types, WTypes
    <2>5. EndsOf(c)' = EndsOf(c) \cup {e} /\ \A d \in Clients \ {c} : EndsOf(d)' = EndsOf(d)
      BY <2>1 DEF WTypes, EndsOf, ClntEnd
    <2>6. InTable' /\ TableKnown'
      BY <2>1, <2>2, <2>5 DEF InTable, TableKnown
    <2>7. CutClientIsCut'
      BY <2>1, <2>2 DEF CutClientIsCut
    <2> QED
      BY <2>3, <2>4, <2>6, <2>7
  <1> QED
    BY <1>1, <1>2

\* The tester's methods of a client change the client's ends.
LEMMA InterruptedKeeps ==
    ASSUME IInv, WInv, NEW c \in Clients, Interrupted(c)
    PROVE  WInv'
  <1> USE DEF WInv, ClntInv
  <1>0. /\ UNCHANGED <<made, connected, turns, gen, phase, sides, done, ending>>
        /\ ops' \in Nat /\ c \notin removed
        /\ removed' \subseteq Clients
        /\ ending' = ending \/ turns = {}
    BY DEF Interrupted, SetClnt, RemoveClnt, Interfere, grpVars, WTypes
  <1>1. \A d \in Clients : EndsOf(d)' = EndsOf(d)
    BY <1>0 DEF EndsOf, ClntEnd
  <1>2. \A e \in EndsOf(c) : e \in End /\ e.owner = c /\ e.owner \notin Servers
    BY EndsOfType DEF WTypes
  <1>3. EndsOf(c) \subseteq ends /\ Servers # {} /\ \A e \in enabled : e.owner = c => e \in EndsOf(c)
    <2>1. 0 \in Servers
      BY NAssumption DEF Servers
    <2> QED
      BY <1>0, <2>1 DEF InTable, TableKnown
  <1>4. ASSUME WTypes', InTable', CutClientIsCut', TableKnown',
               \A e \in End : e.owner \in Servers => (e \in ends' <=> e \in ends)
                                                     /\ (e \in enabled' <=> e \in enabled)
        PROVE  WInv'
    BY <1>0, <1>4, ClientStep DEF IInv, Types, WTypes
  <1>5. CASE SetClnt(c)
    <2> USE <1>5 DEF SetClnt
    <2>0. UNCHANGED <<ends, removed>> /\ TableKnown'
      BY <1>1 DEF TableKnown
    <2>1. PICK es \in SUBSET EndsOf(c) :
              \/ /\ enabled' = enabled \cup es
                 /\ \E to \in (SUBSET Servers) \ {{}} : srvs' = [srvs EXCEPT ![c] = to]
              \/ enabled' = enabled \ es /\ UNCHANGED srvs
              \/ enabled' = enabled \ EndsOf(c) /\ srvs' = [srvs EXCEPT ![c] = {}]
      <3>1. CASE ConnectClnt(c)
        BY <1>3, <3>1 DEF ConnectClnt
      <3>2. CASE \E to \in (SUBSET Servers) \ {{}} : ConnectTo(c, to)
        BY <3>2 DEF ConnectTo
      <3>3. CASE \E s \in Servers : Disconnect(c, s)
        BY <3>3 DEF Disconnect, EndsOf
      <3>4. CASE DisconnectClnt(c)
        BY <3>4 DEF DisconnectClnt
      <3> QED
        BY <3>1, <3>2, <3>3, <3>4
    <2>2. WTypes'
      BY <1>0, <1>3, <2>0, <2>1 DEF WTypes
    <2>3. InTable'
      BY <1>1, <1>2, <2>1 DEF InTable
    <2>4. CutClientIsCut'
      <3> SUFFICES ASSUME NEW d \in Clients, srvs'[d] = {}, NEW e \in enabled' PROVE e.owner # d
        BY DEF CutClientIsCut
      <3>1. CASE d = c
        BY <1>3, <2>1, <3>1 DEF CutClientIsCut, WTypes
      <3>2. CASE d # c
        BY <1>2, <2>1, <3>2 DEF CutClientIsCut, WTypes
      <3> QED
        BY <3>1, <3>2
    <2> QED
      BY <1>2, <1>4, <2>0, <2>1, <2>2, <2>3, <2>4
  <1>6. CASE RemoveClnt(c)
    <2> USE <1>6 DEF RemoveClnt, DeleteEnds
    <2>1. WTypes'
      BY <1>0 DEF WTypes
    <2>2. InTable' /\ TableKnown' /\ CutClientIsCut'
      <3>1. \A d \in Clients : \A e \in EndsOf(d) : e.owner = d
        BY EndsOfType DEF WTypes
      <3> QED
        BY <1>1, <1>2, <3>1 DEF InTable, TableKnown, CutClientIsCut
    <2> QED
      BY <1>2, <1>4, <2>1, <2>2
  <1> QED
    BY <1>5, <1>6 DEF Interrupted

\* Config.Cleanup deletes the ends of all clients.
LEMMA CleanupClntsKeeps == ASSUME IInv, WInv, CleanupClnts PROVE WInv'
  <1> USE DEF WInv, ClntInv, CleanupClnts, DeleteEnds, grpVars
  <1>1. \A c \in Clients : \A e \in EndsOf(c) : e \in End /\ e.owner = c /\ e.owner \notin Servers
    BY EndsOfType DEF WTypes
  <1>2. WTypes'
    BY DEF WTypes
  <1>3. \A e \in End : e.owner \in Servers => (e \in ends' <=> e \in ends)
                                              /\ (e \in enabled' <=> e \in enabled)
    BY <1>1
  <1>4. GrpInv'
    BY <1>2, <1>3, ClientStep DEF IInv, Types, WTypes
  <1>5. \A d \in Clients : EndsOf(d)' = EndsOf(d)
    BY DEF EndsOf, ClntEnd
  <1>6. InTable' /\ TableKnown' /\ CutClientIsCut'
    BY <1>5 DEF InTable, TableKnown, CutClientIsCut
  <1> QED
    BY <1>2, <1>4, <1>6

\* What connect and disconnect do to the ends between servers.
LEMMA LinkInjective ==
    ASSUME NEW i, NEW j, NEW k, NEW l, Link(i, j) = Link(k, l)
    PROVE  i = k /\ j = l
  <1>1. Link(i, j).owner = i /\ Link(i, j).to = j /\ Link(k, l).owner = k /\ Link(k, l).to = l
    BY DEF Link
  <1> QED
    BY <1>1

LEMMA ConnectLinks ==
    ASSUME NEW t, NEW i \in Servers, NEW to \in SUBSET Servers
    PROVE  /\ connect(t, i, to).connected = [t.connected EXCEPT ![i] = TRUE]
           /\ \A a, b \in Servers :
                 Link(a, b) \in connect(t, i, to).enabled <=>
                    \/ Link(a, b) \in t.enabled
                    \/ a = i /\ b \in to /\ connect(t, i, to).connected[b]
                    \/ b = i /\ a \in to /\ connect(t, i, to).connected[a]
           /\ \A e \in connect(t, i, to).enabled :
                 e \in t.enabled \/ \E a, b \in Servers : e = Link(a, b)
  <1> DEFINE now   == [t.connected EXCEPT ![i] = TRUE]
             peers == {j \in to : now[j]}
  <1>1. /\ connect(t, i, to).connected = now
        /\ connect(t, i, to).enabled
              = t.enabled \cup {Link(i, j) : j \in peers} \cup {Link(j, i) : j \in peers}
    BY DEF connect
  <1> HIDE DEF now
  <1>2. \A a, b \in Servers : Link(a, b) \in {Link(i, j) : j \in peers} <=> a = i /\ b \in peers
    BY LinkInjective
  <1>3. \A a, b \in Servers : Link(a, b) \in {Link(j, i) : j \in peers} <=> b = i /\ a \in peers
    BY LinkInjective
  <1>4. /\ \A a, b \in Servers :
              Link(a, b) \in connect(t, i, to).enabled <=>
                 \/ Link(a, b) \in t.enabled
                 \/ a = i /\ b \in to /\ now[b]
                 \/ b = i /\ a \in to /\ now[a]
        /\ \A e \in connect(t, i, to).enabled :
              e \in t.enabled \/ \E a, b \in Servers : e = Link(a, b)
    BY <1>1, <1>2, <1>3
  <1> QED
    BY <1>1, <1>4 DEF now

LEMMA DisconnectLinks ==
    ASSUME NEW t, NEW i \in Servers, NEW from \in SUBSET Servers
    PROVE  /\ disconnect(t, i, from).connected = [t.connected EXCEPT ![i] = FALSE]
           /\ \A a, b \in Servers :
                 Link(a, b) \in disconnect(t, i, from).enabled <=>
                    /\ Link(a, b) \in t.enabled
                    /\ ~(a = i /\ b \in from)
                    /\ ~(b = i /\ a \in from)
           /\ disconnect(t, i, from).enabled \subseteq t.enabled
  <1>1. /\ disconnect(t, i, from).connected = [t.connected EXCEPT ![i] = FALSE]
        /\ disconnect(t, i, from).enabled
              = t.enabled \ ({Link(i, j) : j \in from} \cup {Link(j, i) : j \in from})
    BY DEF disconnect
  <1>2. \A a, b \in Servers : Link(a, b) \in {Link(i, j) : j \in from} <=> a = i /\ b \in from
    BY LinkInjective
  <1>3. \A a, b \in Servers : Link(a, b) \in {Link(j, i) : j \in from} <=> b = i /\ a \in from
    BY LinkInjective
  <1> QED
    BY <1>1, <1>2, <1>3

\* A step that enables ends between servers, or disables ends, is none of the
\* clients' business.
LEMMA GroupStep ==
    ASSUME IInv, WInv, UNCHANGED <<ends, clntVars, gen>>,
           \A e \in enabled' : e \in enabled \/ \E a, b \in Servers : e = Link(a, b)
    PROVE  /\ enabled' \subseteq ends' /\ ClntInv' /\ LinksKnown' /\ NoFutureEnds'
           /\ \A a, b \in Servers : Link(a, b)' = Link(a, b)
  <1> USE DEF WInv, ClntInv, GrpInv, clntVars
  <1>0. \A a, b \in Servers : /\ Link(a, b)' = Link(a, b)
                              /\ Link(a, b) \in ends /\ Link(a, b).owner = a /\ Link(a, b).gen = gen[a]
    BY DEF Link, LinksKnown
  <1>1. enabled' \subseteq ends' /\ LinksKnown'
    BY <1>0 DEF WTypes, LinksKnown
  <1>2. NoFutureEnds'
    BY <1>0 DEF NoFutureEnds, IInv, Types
  <1>3. \A c \in Clients : EndsOf(c)' = EndsOf(c)
    BY DEF EndsOf, ClntEnd
  <1>4. \A c \in Clients : \A e \in enabled' : e.owner = c => e \in enabled
    BY <1>0, ClientsAreNoServers
  <1>5. ClntInv'
    BY <1>3, <1>4 DEF InTable, TableKnown, CutClientIsCut
  <1> QED
    BY <1>0, <1>1, <1>2, <1>5

\* A turn of a loop wires one server as told.
LEMMA LoopTurnsKeeps ==
    ASSUME IInv, WInv, NEW t \in turns, LoopTurns(t)
    PROVE  WInv'
  <1> USE DEF WInv, GrpInv
  <1> DEFINE i == t.srv
             now == [connected EXCEPT ![i] = TRUE]
             off == disconnect(Wiring, i, t.from)
  <1>1. /\ i \in Servers /\ t.to \in SUBSET Servers /\ t.from = Servers \ t.to /\ i \in t.to
        /\ t.to \in sides /\ sides # {}
        /\ ~ending /\ \A k \in Servers : phase[k] = "up"
    BY DEF WTypes, ProperTurns
  <1>2. /\ turns' = turns \ {t}
        /\ connected' = connect(off, i, t.to).connected
        /\ enabled' = connect(off, i, t.to).enabled
        /\ UNCHANGED <<ends, clntVars, gen, phase, done, ops, ending, sides>>
    BY DEF LoopTurns, Turn, Rewire, testVars
  <1>3. /\ off.connected = [connected EXCEPT ![i] = FALSE]
        /\ \A a, b \in Servers :
              Link(a, b) \in off.enabled <=>
                 /\ Link(a, b) \in enabled
                 /\ ~(a = i /\ b \in t.from)
                 /\ ~(b = i /\ a \in t.from)
        /\ off.enabled \subseteq enabled
    BY <1>1, DisconnectLinks DEF Wiring
  <1>4. now = [off.connected EXCEPT ![i] = TRUE]
    BY <1>1, <1>3 DEF WTypes
  <1>5. /\ connected' = now
        /\ \A a, b \in Servers :
              Link(a, b) \in enabled' <=>
                 \/ Link(a, b) \in off.enabled
                 \/ a = i /\ b \in t.to /\ now[b]
                 \/ b = i /\ a \in t.to /\ now[a]
        /\ \A e \in enabled' : e \in off.enabled \/ \E a, b \in Servers : e = Link(a, b)
    <2> DEFINE to == t.to
               on == connect(off, i, to)
    <2>0. i \in Servers /\ to \in SUBSET Servers
      BY <1>1
    <2> HIDE DEF off, now, i, to
    <2>1. /\ on.connected = [off.connected EXCEPT ![i] = TRUE]
          /\ \A a, b \in Servers :
                Link(a, b) \in on.enabled <=>
                   \/ Link(a, b) \in off.enabled
                   \/ a = i /\ b \in to /\ on.connected[b]
                   \/ b = i /\ a \in to /\ on.connected[a]
          /\ \A e \in on.enabled : e \in off.enabled \/ \E a, b \in Servers : e = Link(a, b)
      BY <2>0, ConnectLinks
    <2>2. on.connected = now
      BY <2>1, <1>4
    <2> QED
      BY <1>2, <2>1, <2>2 DEF to
  <1> HIDE DEF off
  <1>6. /\ enabled' \subseteq ends' /\ ClntInv' /\ LinksKnown' /\ NoFutureEnds'
        /\ \A a, b \in Servers : Link(a, b)' = Link(a, b)
    BY <1>2, <1>3, <1>5, GroupStep
  <1>7. WTypes'
    BY <1>1, <1>2, <1>5, <1>6 DEF WTypes, clntVars
  <1>8. now \in [Servers -> BOOLEAN] /\ now[i] /\ \A k \in Servers \ {i} : now[k] = connected[k]
    BY <1>1 DEF WTypes
  <1>9. BothConnected' /\ UpIfConnected'
    <2>1. BothConnected'
      BY <1>3, <1>5, <1>6, <1>8 DEF BothConnected
    <2>2. UpIfConnected'
      BY <1>1, <1>2, <1>5, <1>8 DEF UpIfConnected
    <2> QED
      BY <2>1, <2>2
  <1>10. ProperSides' /\ ProperTurns'
    BY <1>2 DEF ProperSides, ProperTurns
  <1>11. WiredSoFar'
    <2> SUFFICES ASSUME NEW a \in Servers, NEW b \in Servers
                 PROVE  (HasTurn(a) /\ HasTurn(b))' \/ AsTold(a, b)'
      BY DEF WiredSoFar
    <2>0. OnOneSide(a, b)' <=> OnOneSide(a, b)
      BY <1>2 DEF OnOneSide
    <2>1. \A k \in Servers : OnOneSide(i, k) <=> k \in t.to
      <3> TAKE k \in Servers
      <3>1. ASSUME k \in t.to PROVE OnOneSide(i, k)
        BY <1>1, <3>1 DEF OnOneSide
      <3>2. ASSUME OnOneSide(i, k) PROVE k \in t.to
        <4>1. PICK p \in sides : i \in p /\ k \in p
          BY <3>2 DEF OnOneSide
        <4>2. p = t.to
          BY <1>1, <4>1 DEF ProperSides
        <4> QED
          BY <4>1, <4>2
      <3> QED
        BY <3>1, <3>2
    <2>2. CASE a = i
      <3>1. Link(a, b) \in enabled' <=> now[b] /\ b \in t.to
        <4>1. CASE b \in t.to /\ now[b]
          BY <1>5, <2>2, <4>1
        <4>2. CASE b \in t.to /\ ~now[b]
          BY <1>1, <1>3, <1>5, <1>8, <2>2, <4>2 DEF BothConnected
        <4>3. CASE b \notin t.to
          BY <1>1, <1>3, <1>5, <2>2, <4>3
        <4> QED
          BY <4>1, <4>2, <4>3
      <3> QED
        BY <1>5, <1>6, <1>8, <2>0, <2>1, <2>2, <3>1 DEF AsTold
    <2>3. CASE b = i
      <3>1. Link(a, b) \in enabled' <=> now[a] /\ a \in t.to
        <4>1. CASE a \in t.to /\ now[a]
          BY <1>5, <2>3, <4>1
        <4>2. CASE a \in t.to /\ ~now[a]
          BY <1>1, <1>3, <1>5, <1>8, <2>3, <4>2 DEF BothConnected
        <4>3. CASE a \notin t.to
          BY <1>1, <1>3, <1>5, <2>3, <4>3
        <4> QED
          BY <4>1, <4>2, <4>3
      <3>2. OnOneSide(a, b) <=> OnOneSide(b, a)
        BY DEF OnOneSide
      <3> QED
        BY <1>5, <1>6, <1>8, <2>0, <2>1, <2>3, <3>1, <3>2 DEF AsTold
    <2>4. CASE a # i /\ b # i
      <3>1. (HasTurn(a)' <=> HasTurn(a)) /\ (HasTurn(b)' <=> HasTurn(b))
        BY <1>2, <2>4 DEF HasTurn
      <3>2. (HasTurn(a) /\ HasTurn(b)) \/ AsTold(a, b)
        BY <1>1 DEF WiredSoFar
      <3>3. Link(a, b) \in enabled' <=> Link(a, b) \in enabled
        BY <1>3, <1>5, <2>4
      <3> QED
        BY <1>5, <1>6, <1>8, <2>0, <2>4, <3>1, <3>2, <3>3 DEF AsTold
    <2> QED
      BY <2>2, <2>3, <2>4
  <1> QED
    BY <1>6, <1>7, <1>9, <1>10, <1>11

\* Partition and ConnectAll begin: every server has a turn to come.
LEMMA LoopBegins ==
    ASSUME IInv, WInv, NEW ts \in SUBSET [srv : Servers, to : SUBSET Servers, from : SUBSET Servers],
           NEW ps \in SUBSET SUBSET Servers, Loop(ts), Rewired(ps),
           UNION ps = Servers,
           \A p, q \in ps : p \cap q # {} => p = q,
           \A t \in ts : t.to \in ps /\ t.srv \in t.to /\ t.from = Servers \ t.to,
           \A i \in Servers : \E t \in ts : t.srv = i
    PROVE  WInv'
  <1> USE DEF WInv, GrpInv, ClntInv
  <1>1. /\ turns' = ts /\ sides' = ps /\ ~ending /\ ops' \in Nat
        /\ UNCHANGED <<ends, enabled, done, clntVars, connected, gen, phase, ending>>
    BY DEF Loop, Rewired, Interfere, netVars, WTypes
  <1>2. \A i \in Servers : phase[i] = "up"
    BY DEF Loop
  <1>3. WTypes'
    BY <1>1 DEF WTypes, clntVars
  <1>4. ClntInv'
    BY <1>1 DEF InTable, TableKnown, CutClientIsCut, EndsOf, clntVars
  <1>5. LinksKnown' /\ NoFutureEnds' /\ BothConnected' /\ UpIfConnected'
    BY <1>1 DEF LinksKnown, NoFutureEnds, BothConnected, UpIfConnected, Link
  <1>6. ProperSides' /\ ProperTurns'
    BY <1>1, <1>2 DEF ProperSides, ProperTurns
  <1>7. WiredSoFar'
    BY <1>1 DEF WiredSoFar, HasTurn
  <1> QED
    BY <1>3, <1>4, <1>5, <1>6, <1>7

LEMMA PartitionKeeps ==
    ASSUME IInv, WInv, NEW p \in SUBSET Servers, NEW q, q = Servers \ p,
           Partition(p, q), Rewired({p, q})
    PROVE  WInv'
  <1> DEFINE ts == LoopOver(p, q) \cup LoopOver(q, p)
  <1>1. ts \in SUBSET [srv : Servers, to : SUBSET Servers, from : SUBSET Servers]
    BY DEF LoopOver
  <1>2. \A t \in ts : t.to \in {p, q} /\ t.srv \in t.to /\ t.from = Servers \ t.to
    BY DEF LoopOver
  <1>3. \A i \in Servers : \E t \in ts : t.srv = i
    <2> TAKE i \in Servers
    <2>1. CASE i \in p
      <3>1. [srv |-> i, to |-> p, from |-> q] \in ts
        BY <2>1 DEF LoopOver
      <3> QED
        BY <3>1
    <2>2. CASE i \notin p
      <3>1. [srv |-> i, to |-> q, from |-> p] \in ts
        BY <2>2 DEF LoopOver
      <3> QED
        BY <3>1
    <2> QED
      BY <2>1, <2>2
  <1>4. Loop(ts)
    BY DEF Partition
  <1>5. /\ {p, q} \in SUBSET SUBSET Servers /\ UNION {p, q} = Servers
        /\ \A a, b \in {p, q} : a \cap b # {} => a = b
    OBVIOUS
  <1> HIDE DEF ts
  <1> QED
    BY <1>1, <1>2, <1>3, <1>4, <1>5, LoopBegins

LEMMA HealedKeeps == ASSUME IInv, WInv, Healed PROVE WInv'
  <1> DEFINE ts == LoopOver(Servers, {})
  <1>1. ts \in SUBSET [srv : Servers, to : SUBSET Servers, from : SUBSET Servers]
    BY DEF LoopOver
  <1>2. \A t \in ts : t.to \in {Servers} /\ t.srv \in t.to /\ t.from = Servers \ t.to
    BY DEF LoopOver
  <1>3. \A i \in Servers : \E t \in ts : t.srv = i
    <2> TAKE i \in Servers
    <2>1. [srv |-> i, to |-> Servers, from |-> {}] \in ts
      BY DEF LoopOver
    <2> QED
      BY <2>1
  <1>4. Loop(ts) /\ Rewired({Servers})
    BY DEF Healed, ConnectAll
  <1>5. /\ {Servers} \in SUBSET SUBSET Servers /\ UNION {Servers} = Servers
        /\ \A a, b \in {Servers} : a \cap b # {} => a = b
    OBVIOUS
  <1> HIDE DEF ts
  <1> QED
    BY <1>1, <1>2, <1>3, <1>4, <1>5, LoopBegins

\* ConnectOne wires a server to all that are connected.
LEMMA ReconnectedKeeps ==
    ASSUME IInv, WInv, NEW i \in Servers, Reconnected(i)
    PROVE  WInv'
  <1> USE DEF WInv, GrpInv
  <1> DEFINE on == connect(Wiring, i, Servers)
             now == [connected EXCEPT ![i] = TRUE]
  <1>1. /\ phase[i] = "up" /\ turns = {} /\ turns' = {} /\ ops' \in Nat
        /\ connected' = on.connected /\ enabled' = on.enabled
        /\ sides' = IF sides = {Servers} THEN sides ELSE {}
        /\ UNCHANGED <<ends, clntVars, gen, phase, done, ending>>
    BY DEF Reconnected, ConnectOne, Rewire, Rewired, Interfere, WTypes
  <1>2. Wiring.connected = connected /\ Wiring.enabled = enabled
    BY DEF Wiring
  <1>3. /\ on.connected = [Wiring.connected EXCEPT ![i] = TRUE]
        /\ \A a, b \in Servers :
              Link(a, b) \in on.enabled <=>
                 \/ Link(a, b) \in Wiring.enabled
                 \/ a = i /\ b \in Servers /\ on.connected[b]
                 \/ b = i /\ a \in Servers /\ on.connected[a]
        /\ \A e \in on.enabled : e \in Wiring.enabled \/ \E a, b \in Servers : e = Link(a, b)
    BY ConnectLinks
  <1> HIDE DEF on
  <1>4. /\ now \in [Servers -> BOOLEAN] /\ now[i]
        /\ \A k \in Servers \ {i} : now[k] = connected[k]
        /\ on.connected = now
    BY <1>2, <1>3 DEF WTypes
  <1> HIDE DEF now
  <1>5. /\ connected' = now
        /\ \A a, b \in Servers :
              Link(a, b) \in enabled' <=> Link(a, b) \in enabled \/ (a = i /\ now[b]) \/ (b = i /\ now[a])
        /\ \A e \in enabled' : e \in enabled \/ \E a, b \in Servers : e = Link(a, b)
    BY <1>1, <1>2, <1>3, <1>4
  <1>6. /\ enabled' \subseteq ends' /\ ClntInv' /\ LinksKnown' /\ NoFutureEnds'
        /\ \A a, b \in Servers : Link(a, b)' = Link(a, b)
    BY <1>1, <1>5, GroupStep
  <1>7. WTypes'
    BY <1>1, <1>4, <1>5, <1>6 DEF WTypes, clntVars
  <1>8. BothConnected' /\ UpIfConnected'
    BY <1>1, <1>4, <1>5, <1>6 DEF BothConnected, UpIfConnected
  <1>9. ProperSides' /\ ProperTurns'
    BY <1>1 DEF ProperSides, ProperTurns
  <1>10. WiredSoFar'
    <2> SUFFICES ASSUME sides' # {}, NEW a \in Servers, NEW b \in Servers PROVE AsTold(a, b)'
      BY DEF WiredSoFar
    <2>1. sides = {Servers} /\ sides' = sides
      BY <1>1
    <2>2. OnOneSide(a, b) /\ OnOneSide(a, b)'
      BY <2>1 DEF OnOneSide
    <2>3. AsTold(a, b)
      BY <1>1, <2>1 DEF WiredSoFar, HasTurn
    <2> QED
      BY <1>4, <1>5, <1>6, <2>2, <2>3 DEF AsTold, BothConnected
  <1> QED
    BY <1>6, <1>7, <1>8, <1>9, <1>10

\* DisconnectAll cuts a server off; so does the first step of ShutdownServer.
LEMMA CutOffKeeps ==
    ASSUME IInv, WInv, NEW i \in Servers, turns = {},
           connected' = disconnect(Wiring, i, Servers).connected,
           enabled' = disconnect(Wiring, i, Servers).enabled,
           UNCHANGED <<ends, clntVars, turns, gen, done, ending, sides>>,
           ops' \in Nat,
           \A k \in Servers \ {i} : phase'[k] = phase[k]
    PROVE  WInv'
  <1> USE DEF WInv, GrpInv
  <1> DEFINE off == disconnect(Wiring, i, Servers)
             now == [connected EXCEPT ![i] = FALSE]
  <1>2. Wiring.connected = connected /\ Wiring.enabled = enabled
    BY DEF Wiring
  <1>3. /\ off.connected = [Wiring.connected EXCEPT ![i] = FALSE]
        /\ \A a, b \in Servers :
              Link(a, b) \in off.enabled <=>
                 /\ Link(a, b) \in Wiring.enabled
                 /\ ~(a = i /\ b \in Servers)
                 /\ ~(b = i /\ a \in Servers)
        /\ off.enabled \subseteq Wiring.enabled
    BY DisconnectLinks
  <1> HIDE DEF off
  <1>4. /\ now \in [Servers -> BOOLEAN] /\ ~now[i]
        /\ \A k \in Servers \ {i} : now[k] = connected[k]
        /\ off.connected = now
    BY <1>2, <1>3 DEF WTypes
  <1> HIDE DEF now
  <1>5. /\ connected' = now
        /\ \A a, b \in Servers : Link(a, b) \in enabled' <=> Link(a, b) \in enabled /\ a # i /\ b # i
        /\ enabled' \subseteq enabled
    BY <1>2, <1>3, <1>4 DEF off
  <1>6. /\ enabled' \subseteq ends' /\ ClntInv' /\ LinksKnown' /\ NoFutureEnds'
        /\ \A a, b \in Servers : Link(a, b)' = Link(a, b)
    BY <1>5, GroupStep
  <1>7. WTypes'
    BY <1>4, <1>5, <1>6 DEF WTypes, clntVars
  <1>8. BothConnected' /\ UpIfConnected'
    BY <1>4, <1>5, <1>6 DEF BothConnected, UpIfConnected
  <1>9. ProperSides' /\ ProperTurns'
    BY DEF ProperSides, ProperTurns
  <1>10. WiredSoFar'
    <2> SUFFICES ASSUME sides' # {}, NEW a \in Servers, NEW b \in Servers PROVE AsTold(a, b)'
      BY DEF WiredSoFar
    <2>1. OnOneSide(a, b)' <=> OnOneSide(a, b)
      BY DEF OnOneSide
    <2>2. AsTold(a, b)
      BY DEF WiredSoFar, HasTurn
    <2> QED
      BY <1>4, <1>5, <1>6, <2>1, <2>2 DEF AsTold
  <1> QED
    BY <1>6, <1>7, <1>8, <1>9, <1>10

\* A new incarnation's ends are new, and disabled until it is connected.
LEMMA startServerKeeps ==
    ASSUME IInv, WInv, NEW i \in Servers, startServer(i), UNCHANGED <<clntVars, testVars>>
    PROVE  WInv'
  <1> USE DEF WInv, GrpInv, ClntInv, testVars, clntVars
  <1> DEFINE Fresh(j) == [owner |-> i, to |-> j, gen |-> gen[i] + 1]
  <1>1. /\ phase[i] = "down" /\ ~connected[i] /\ turns = {}
        /\ UNCHANGED <<enabled, done, connected, turns>>
        /\ ends' = ends \cup {Fresh(j) : j \in Servers}
        /\ gen' = [gen EXCEPT ![i] = gen[i] + 1]
        /\ \A k \in Servers \ {i} : phase'[k] = phase[k]
    BY DEF startServer, To, UpIfConnected, ProperTurns, WTypes
  <1>2. /\ gen \in [Servers -> Nat \ {0}] /\ gen'[i] = gen[i] + 1
        /\ \A k \in Servers \ {i} : gen'[k] = gen[k]
    BY <1>1 DEF IInv, Types
  <1>3. \A j \in Servers : Fresh(j) \in End /\ Link(i, j)' = Fresh(j) /\ Fresh(j).owner = i /\ Fresh(j).gen = gen[i] + 1
    BY <1>2 DEF Link, End
  <1>4. \A j \in Servers : \A k \in Servers \ {i} : Link(k, j)' = Link(k, j)
    BY <1>2 DEF Link
  <1>5. \A j \in Servers : Fresh(j) \notin enabled
    BY <1>2, <1>3 DEF NoFutureEnds
  <1>6. WTypes'
    BY <1>1, <1>3 DEF WTypes
  <1>7. LinksKnown'
    BY <1>1, <1>3, <1>4 DEF LinksKnown
  <1>8. NoFutureEnds'
    BY <1>1, <1>2 DEF NoFutureEnds, WTypes, End
  <1>9. BothConnected' /\ UpIfConnected'
    BY <1>1, <1>3, <1>4, <1>5 DEF BothConnected, UpIfConnected
  <1>10. ClntInv'
    BY <1>1 DEF InTable, TableKnown, CutClientIsCut, EndsOf
  <1>11. ProperSides' /\ ProperTurns'
    BY <1>1 DEF ProperSides, ProperTurns
  <1>12. WiredSoFar'
    <2> SUFFICES ASSUME sides # {}, NEW a \in Servers, NEW b \in Servers PROVE AsTold(a, b)'
      BY DEF WiredSoFar
    <2>1. OnOneSide(a, b)' <=> OnOneSide(a, b)
      BY DEF OnOneSide
    <2>2. AsTold(a, b)
      BY <1>1 DEF WiredSoFar, HasTurn
    <2>3. CASE a = i
      BY <1>1, <1>3, <1>5, <2>3 DEF AsTold
    <2>4. CASE a # i
      BY <1>1, <1>4, <2>1, <2>2, <2>4 DEF AsTold
    <2> QED
      BY <2>3, <2>4
  <1> QED
    BY <1>6, <1>7, <1>8, <1>9, <1>10, <1>11, <1>12

LEMMA InitWInv == Init => WInv
  <1> SUFFICES ASSUME Init PROVE WInv
    OBVIOUS
  <1> USE DEF Init, StartServers, makeClnts
  <1>0. gen \in [Servers -> Nat \ {0}] /\ Servers # {}
    <2>1. 0 \in Servers
      BY NAssumption DEF Servers
    <2> QED
      BY <2>1
  <1>1. \A i, j \in Servers : /\ Link(i, j) \in End /\ Link(i, j) \in enabled
                              /\ Link(i, j).owner = i /\ Link(i, j).gen = 1
    BY <1>0, LinkType
  <1>2. \A e \in enabled : \E i, j \in Servers : e = Link(i, j)
    OBVIOUS
  <1>3. WTypes
    BY <1>1, <1>2 DEF WTypes
  <1>4. ClntInv
    <2>1. ASSUME NEW c \in Clients, NEW e \in enabled PROVE e.owner # c
      <3> HIDE DEF Init, StartServers, makeClnts
      <3>1. PICK i \in Servers, j \in Servers : e = Link(i, j)
        BY <1>2
      <3> QED
        BY <1>1, <3>1, ClientsAreNoServers
    <2>2. \A c \in Clients : EndsOf(c) = {}
      BY DEF EndsOf
    <2> QED
      BY <2>1, <2>2 DEF ClntInv, InTable, TableKnown, CutClientIsCut
  <1>5. LinksKnown /\ NoFutureEnds /\ BothConnected /\ UpIfConnected
    <2>1. NoFutureEnds
      <3> SUFFICES ASSUME NEW e \in enabled PROVE e.owner \in Servers => e.gen <= gen[e.owner]
        BY DEF NoFutureEnds
      <3>1. \A k \in Servers : gen[k] = 1
        OBVIOUS
      <3> HIDE DEF Init, StartServers, makeClnts
      <3>2. PICK i \in Servers, j \in Servers : e = Link(i, j)
        BY <1>2
      <3> QED
        BY <1>1, <3>1, <3>2
    <2> QED
      BY <1>1, <2>1 DEF LinksKnown, BothConnected, UpIfConnected
  <1>6. ProperSides /\ ProperTurns
    BY DEF ProperSides, ProperTurns
  <1>7. WiredSoFar
    BY <1>1 DEF WiredSoFar, AsTold, OnOneSide
  <1> QED
    BY <1>3, <1>4, <1>5, <1>6, <1>7 DEF WInv, GrpInv

\* The steps of ShutdownServer and StartServer but the first of each.
LEMMA LifecycleKeepsWiring ==
    ASSUME IInv, WInv, NEW i \in Servers, Lifecycle(i)
    PROVE  WInv'
  <1>1. UNCHANGED <<clntVars, testVars>>
    BY DEF Lifecycle
  <1>2. CASE startServer(i)
    BY <1>1, <1>2, startServerKeeps
  <1>3. CASE DeleteServer(i) \/ checkpointPersister(i) \/ kill(i) \/ AddServer(i)
    <2>1. /\ UNCHANGED <<ends, enabled, done, connected, turns, gen>>
          /\ \A k \in Servers : phase[k] = "up" => phase'[k] = "up"
      BY <1>3 DEF DeleteServer, checkpointPersister, kill, AddServer, To, netVars, IInv, Types
    <2>2. ops' \in Nat /\ done' \in BOOLEAN /\ ending' \in BOOLEAN /\ ending' = ending /\ UNCHANGED sides
      BY <1>1, <2>1 DEF testVars, WInv, WTypes
    <2> QED
      BY <1>1, <2>1, <2>2, WiringUnchanged
  <1> QED
    BY <1>2, <1>3 DEF Lifecycle, ShutdownStep

LEMMA NextKeepsWiring == IInv /\ WInv /\ [Next]_vars => WInv'
  <1> SUFFICES ASSUME IInv, WInv, [Next]_vars PROVE WInv'
    OBVIOUS
  <1>0. ops \in Nat /\ done \in BOOLEAN /\ ending \in BOOLEAN
    BY DEF WInv, WTypes
  <1>1. ASSUME NEW id \in Calls, NEW c \in Clients, NEW s \in Servers, ClerkCalls(c, s, id)
        PROVE  WInv'
    BY <1>1, ClerkCallsKeeps
  <1>2. ASSUME NEW id \in Calls, NEW i \in Servers, NEW j \in Servers,
               ServerCalls(i, j, id) \/ Network(id) \/ Handle(id)
        PROVE  WInv'
    <2>1. UNCHANGED <<ends, enabled, done, clntVars, connected, turns, gen, phase, ops, ending, sides>>
      BY <1>2 DEF ServerCalls, ServerCall, Network, processReq, Handle, Save, Answer, Broken,
                  Dispatched, netVars, grpVars, testVars
    <2> QED
      BY <1>0, <2>1, WiringUnchanged
  <1>3. ASSUME NEW c \in Clients, Interrupted(c) PROVE WInv'
    BY <1>3, InterruptedKeeps
  <1>4. ASSUME NEW l \in Servers, Partitioned(l) PROVE WInv'
    <2>1. PICK p \in SUBSET Servers : MakePartition(l) = <<p, Servers \ p>>
      BY DEF MakePartition
    <2>2. Partition(p, Servers \ p) /\ Rewired({p, Servers \ p})
      BY <1>4, <2>1 DEF Partitioned
    <2> QED
      BY <2>2, PartitionKeeps
  <1>5. ASSUME NEW p \in SUBSET Servers, Partitioner(p) PROVE WInv'
    BY <1>5, PartitionKeeps DEF Partitioner
  <1>6. ASSUME NEW i \in Servers, Reconnected(i) PROVE WInv'
    BY <1>6, ReconnectedKeeps
  <1>7. ASSUME NEW i \in Servers, Disconnected(i) PROVE WInv'
    BY <1>0, <1>7, CutOffKeeps DEF Disconnected, DisconnectAll, Rewire, Rewired, Interfere
  <1>8. ASSUME NEW i \in Servers, Shutdown(i) \/ CleanupGroup(i) PROVE WInv'
    <2>1. turns = {} /\ ops' \in Nat /\ Isolate(i) /\ UNCHANGED <<clntVars, ending, sides>>
      BY <1>0, <1>8 DEF Shutdown, CleanupGroup, Rewired, Interfere, testVars, WInv, GrpInv, ProperTurns
    <2>2. \A k \in Servers \ {i} : phase'[k] = phase[k]
      BY <2>1 DEF Isolate, To, IInv, Types
    <2> QED
      BY <2>1, <2>2, CutOffKeeps DEF Isolate
  <1>9. ASSUME NEW i \in Servers, Lifecycle(i) PROVE WInv'
    BY <1>9, LifecycleKeepsWiring
  <1>10. CASE Healed
    BY <1>10, HealedKeeps
  <1>11. ASSUME NEW t \in turns, LoopTurns(t) PROVE WInv'
    BY <1>11, LoopTurnsKeeps
  <1>12. CASE CleanupClnts
    BY <1>12, CleanupClntsKeeps
  <1>13. CASE CleanupNet \/ UNCHANGED vars
    <2>1. /\ UNCHANGED <<ends, enabled, clntVars, connected, turns, gen, phase, ops, ending, sides>>
          /\ done' \in BOOLEAN
      BY <1>0, <1>13 DEF CleanupNet, Cleanup, vars, netVars, grpVars, testVars
    <2> QED
      BY <1>0, <2>1, WiringUnchanged
  <1>14. 0 \in Servers
    BY NAssumption DEF Servers
  <1> QED
    BY <1>1, <1>2, <1>3, <1>4, <1>5, <1>6, <1>7, <1>8, <1>9, <1>10, <1>11, <1>12, <1>13, <1>14 DEF Next

\* The inductive invariant of the wiring, on top of that of the calls.
THEOREM WiringInvariant == Spec => [](IInv /\ WInv)
  <1>1. Init => IInv /\ WInv
    BY InitIInv, InitWInv
  <1>2. IInv /\ WInv /\ [Next]_vars => (IInv /\ WInv)'
    BY NextKeeps, NextKeepsWiring
  <1> QED
    BY <1>1, <1>2, PTL DEF Spec

\* The variables of the network, the clients and the group keep their types: an
\* end is enabled only while the network knows it (makeEnd, DeleteEnd, connect).
THEOREM TypeCorrect == Spec => []TypeOK
  <1>1. IInv /\ WInv => TypeOK
    BY DEF IInv, Types, WInv, WTypes, TypeOK
  <1> QED
    BY <1>1, WiringInvariant, PTL

\* Once the loops of Partition or ConnectAll are over, any number of servers reach
\* each other as the tester asked, whatever was cut, restarted or connected since
\* (connect, disconnect, ShutdownServer, StartServer).
THEOREM GroupIsWiredAsTold == Spec => []LinksAsTold
  <1>1. WInv => LinksAsTold
    BY DEF WInv, GrpInv, WiredSoFar, HasTurn, AsTold, OnOneSide, LinksAsTold
  <1> QED
    BY <1>1, WiringInvariant, PTL

\* A client that DisconnectAll has cut off has no enabled end, and its clerks make
\* none, until it is connected again (Clnt.makeEnd, ConnectTo, DisconnectAll).
THEOREM CutClientsStayCut == Spec => []CutClientIsCut
  <1>1. WInv => CutClientIsCut
    BY DEF WInv, ClntInv
  <1> QED
    BY <1>1, WiringInvariant, PTL
=============================================================================
