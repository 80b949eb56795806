----------------------------- MODULE ServerGrp -----------------------------
(***************************************************************************)
(* A group of server processes under the tester: tester1/group.go, srv.go, *)
(* daemonclnt.go, daemonsrv.go, persister.go.  The tester starts a daemon  *)
(* per server, hands it the saved persister, wires the servers to each     *)
(* other, partitions them, shuts them down and starts them again.          *)
(*                                                                         *)
(* A service is reduced to what durability is about: its handler saves the *)
(* call in the persister and then returns.                                 *)
(***************************************************************************)
EXTENDS Labrpc, FiniteSets

VARIABLES connected,    \* sg.connected
          turns,        \* turns the loops of Partition or ConnectAll still have to make
          gen,          \* gen[i]: how often server i was started; names its ends,
                        \* its labrpc.Server and its daemon process
          phase,        \* phase[i]: where StartServer or ShutdownServer of i is
          disk,         \* disk[i]: the calls in the persister of i's daemon
          saved,        \* saved[i]: the calls in srv.saved, which restarts use
          handler       \* handler[id]: the handler of call id in the daemon

grpVars == <<connected, turns, gen, phase, disk, saved, handler>>

Phase == {"up", "isolated", "deleted", "checkpointed", "down", "starting"}

\* The end in srvs[i].endNames[j].
Link(i, j) == [owner |-> i, to |-> j, gen |-> gen[i]]

\* After MakeConfig: StartServers has started and connected all servers.
StartServers ==
    /\ gen = [i \in Servers |-> 1]
    /\ ends = {Link(i, j) : i \in Servers, j \in Servers}
    /\ enabled = ends
    /\ servers = [i \in Servers |-> 1]
    /\ connected = [i \in Servers |-> TRUE]
    /\ turns = {}
    /\ phase = [i \in Servers |-> "up"]
    /\ disk = [i \in Servers |-> {}]
    /\ saved = [i \in Servers |-> {}]
    /\ handler = [id \in Calls |-> "none"]

-----------------------------------------------------------------------------
\* The wiring.  A table t is sg.connected with the set of enabled ends.
Wiring == [connected |-> connected, enabled |-> enabled]

\* Mutant: the ends of the others to i stay disabled.
connectOutgoing(t, i, to) ==
    LET now == [t.connected EXCEPT ![i] = TRUE] IN
    [connected |-> now, enabled |-> t.enabled \cup {Link(i, j) : j \in {k \in to : now[k]}}]

\* connect(i, to): both ends between i and each member of to that is connected.
connect(t, i, to) ==
    LET now   == [t.connected EXCEPT ![i] = TRUE]
        peers == {j \in to : now[j]}
    IN  [connected |-> now,
         enabled   |-> t.enabled \cup {Link(i, j) : j \in peers} \cup {Link(j, i) : j \in peers}]

\* disconnect(i, from): both ends between i and each member of from.
disconnect(t, i, from) ==
    [connected |-> [t.connected EXCEPT ![i] = FALSE],
     enabled   |-> t.enabled \ ({Link(i, j) : j \in from} \cup {Link(j, i) : j \in from})]

\* MakePartition(l): the first n/2+1 servers but l, and the rest with l.
MakePartition(l) ==
    LET p1 == {i \in Servers \ {l} : Cardinality({k \in Servers \ {l} : k < i}) < N \div 2 + 1}
    IN  <<p1, Servers \ p1>>

Rewire(t) ==
    /\ connected' = t.connected
    /\ enabled' = t.enabled
    /\ UNCHANGED <<ends, servers, reqs, done, gen, phase, disk, saved, handler>>

\* The turns of a loop that takes each server of to from those of from, and then
\* joins it to those of to.  While it runs, requests go on.
LoopOver(to, from) == [srv : to, to : {to}, from : {from}]

Loop(ts) ==
    /\ \A t \in ts : phase[t.srv] = "up"
    /\ turns' = ts
    /\ UNCHANGED <<netVars, connected, gen, phase, disk, saved, handler>>

\* Both loops of Partition; their turns commute and are taken in any order.
Partition(p1, p2) == Loop(LoopOver(p1, p2) \cup LoopOver(p2, p1))

\* The loop of ConnectAll, which has nothing to disconnect.
ConnectAll == Loop(LoopOver(Servers, {}))

Turn(t) ==
    /\ t \in turns
    /\ turns' = turns \ {t}
    /\ Rewire(connect(disconnect(Wiring, t.srv, t.from), t.srv, t.to))

ConnectOne(i) ==
    /\ phase[i] = "up"
    /\ Rewire(connect(Wiring, i, Servers))
    /\ UNCHANGED turns

DisconnectAll(i) ==
    /\ phase[i] = "up"
    /\ Rewire(disconnect(Wiring, i, Servers))
    /\ UNCHANGED turns

-----------------------------------------------------------------------------
\* ShutdownServer, in the order of its calls.
To(i, p) == phase' = [phase EXCEPT ![i] = p]

Isolate(i) ==
    /\ phase[i] = "up"
    /\ To(i, "isolated")
    /\ LET t == disconnect(Wiring, i, Servers)
       IN  connected' = t.connected /\ enabled' = t.enabled
    /\ UNCHANGED <<ends, servers, reqs, done, turns, gen, disk, saved, handler>>

DeleteServer(i) ==
    /\ phase[i] = "isolated"
    /\ To(i, "deleted")
    /\ servers' = [servers EXCEPT ![i] = 0]
    /\ UNCHANGED <<ends, enabled, reqs, done, connected, turns, gen, disk, saved, handler>>

\* The daemon copies its persister.  It goes on running, and the connection on
\* which it answers stays open: only its listener is closed.
checkpointPersister(i) ==
    /\ phase[i] = "deleted"
    /\ To(i, "checkpointed")
    /\ saved' = [saved EXCEPT ![i] = disk[i]]
    /\ UNCHANGED <<netVars, connected, turns, gen, disk, handler>>

kill(i) ==
    /\ phase[i] = "checkpointed"
    /\ To(i, "down")
    /\ UNCHANGED <<netVars, connected, turns, gen, disk, saved, handler>>

\* startServer, runDaemon, init, waitInit: fresh ends, all disabled, and a
\* daemon whose persister holds what was saved.
startServer(i) ==
    /\ phase[i] = "down"
    /\ To(i, "starting")
    /\ gen' = [gen EXCEPT ![i] = @ + 1]
    /\ ends' = ends \cup {[owner |-> i, to |-> j, gen |-> gen[i] + 1] : j \in Servers}
    /\ disk' = [disk EXCEPT ![i] = saved[i]]
    /\ UNCHANGED <<enabled, servers, reqs, done, connected, turns, saved, handler>>

AddServer(i) ==
    /\ phase[i] = "starting"
    /\ To(i, "up")
    /\ servers' = [servers EXCEPT ![i] = gen[i]]
    /\ UNCHANGED <<ends, enabled, reqs, done, connected, turns, gen, disk, saved, handler>>

ShutdownStep(i) == DeleteServer(i) \/ checkpointPersister(i) \/ kill(i)

-----------------------------------------------------------------------------
\* The daemon that call id was dispatched to still runs.
Alive(id) ==
    /\ gen[reqs[id].end.to] = reqs[id].srv
    /\ phase[reqs[id].end.to] # "down"

\* DaemonSrv.forward and TesterRPC.Forward: server i calls server j.  A daemon
\* that was told to checkpoint has closed its connection to the tester.
ServerCall(i, j, id) ==
    /\ phase[i] \in {"up", "isolated", "deleted"}
    /\ Call(id, Link(i, j))
    /\ UNCHANGED <<ends, enabled, servers, done, grpVars>>

\* The handler saves its update in the persister.
Save(id) ==
    /\ reqs[id].srv # 0
    /\ handler[id] = "none"
    /\ Alive(id)
    /\ handler' = [handler EXCEPT ![id] = "saved"]
    /\ disk' = [disk EXCEPT ![reqs[id].end.to] = @ \cup {id}]
    /\ UNCHANGED <<netVars, connected, turns, gen, phase, saved>>

\* dispatch returns to processReq, if that still waits.
Dispatched(id, ok) ==
    /\ handler' = [handler EXCEPT ![id] = "over"]
    /\ reqs' = IF reqs[id].st = "served"
               THEN [reqs EXCEPT ![id].st = "answered", ![id].ok = ok]
               ELSE reqs
    /\ UNCHANGED <<ends, enabled, servers, done, connected, turns, gen, phase, disk, saved>>

Answer(id) == handler[id] = "saved" /\ Alive(id) /\ Dispatched(id, TRUE)

\* DaemonClnt.forward fails: the process is gone, before or after the save.
Broken(id) ==
    /\ reqs[id].srv # 0
    /\ handler[id] # "over"
    /\ ~Alive(id)
    /\ Dispatched(id, FALSE)
=============================================================================
