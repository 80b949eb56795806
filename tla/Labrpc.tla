------------------------------- MODULE Labrpc -------------------------------
(***************************************************************************)
(* The simulated network of labrpc/labrpc.go: its tables of ends and       *)
(* servers, and a processReq goroutine per call.                           *)
(*                                                                         *)
(* A step is one critical section of rn.mu with what follows it up to the  *)
(* next one.  Handlers run at the servers: the module that extends this    *)
(* one says what they do and moves a call from "served" to "answered".     *)
(***************************************************************************)
EXTENDS Naturals

CONSTANTS N,            \* the servers are numbered from 0
          Clients,      \* the tester's Clnt objects
          Calls,        \* identities of calls, each used once
          Unreliable    \* TRUE: requests and replies are dropped

ASSUME NAssumption == N \in Nat \ {0}
ASSUME ClientsAssumption == Clients \cap Nat = {} /\ Unreliable \in BOOLEAN

Servers == 0 .. N - 1

VARIABLES ends,         \* the end names the network knows
          enabled,      \* those that are enabled
          servers,      \* servers[s]: the registered incarnation of s, 0 for nil
          reqs,         \* reqs[id]: how far Call and processReq are with call id
          done          \* Cleanup has been called

netVars == <<ends, enabled, servers, reqs, done>>

\* An end is named by a random string; it is connected once, right after it was
\* made, so its name can tell who uses it, where it leads and which of several
\* ends made for that purpose it is.
End == [owner : Clients \cup Servers, to : Servers, gen : Nat]

\* "sent": handed to the network; "served": the handler's goroutine runs and
\* processReq waits for it; "answered": the handler returned; "replying": the
\* reply is on its way (ok); "returned": Call or Forward returned ok.
Stage == {"none", "sent", "served", "answered", "replying", "returned"}
Req   == [st : Stage, end : End, srv : Nat, ok : BOOLEAN]

Pending(id) == reqs[id].st \notin {"none", "returned"}

\* Call and Forward up to the send on endCh.  The loop that takes requests and
\* the caller choose between endCh and done at random once both are ready.
Call(id, e) ==
    /\ reqs[id].st = "none"
    /\ \/ reqs' = [reqs EXCEPT ![id] = [st |-> "sent", end |-> e, srv |-> 0, ok |-> FALSE]]
       \/ /\ done
          /\ reqs' = [reqs EXCEPT ![id] = [st |-> "returned", end |-> e, srv |-> 0, ok |-> FALSE]]

\* readEndnameInfo: where a request on end e goes, 0 if nowhere.
Destination(e) == IF e \in enabled THEN servers[e.to] ELSE 0

\* Mutant: a server that was deleted or replaced is not noticed.
isServerDeadByEnd(id) == reqs[id].end \notin enabled

isServerDead(id) ==
    \/ reqs[id].end \notin enabled
    \/ servers[reqs[id].end.to] # reqs[id].srv

Fail(id) == reqs' = [reqs EXCEPT ![id].st = "returned", ![id].ok = FALSE]

\* processReq finds no server behind the end and lets the call fail, or drops
\* the request.
Undelivered(id) ==
    /\ reqs[id].st = "sent"
    /\ Destination(reqs[id].end) = 0 \/ Unreliable
    /\ Fail(id)

\* processReq starts the handler.
Deliver(id) ==
    /\ reqs[id].st = "sent"
    /\ Destination(reqs[id].end) # 0
    /\ reqs' = [reqs EXCEPT ![id].st = "served", ![id].srv = Destination(reqs[id].end)]

\* The poll every 100 ms finds the server gone; the handler is left behind.
GiveUp(id) ==
    /\ reqs[id].st = "served"
    /\ isServerDead(id)
    /\ Fail(id)

\* Mutant: the handler's reply is passed on without another look at the server.
JudgeUnchecked(id) ==
    /\ reqs[id].st = "answered"
    /\ \/ /\ reqs[id].ok
          /\ reqs' = [reqs EXCEPT ![id].st = "replying"]
       \/ /\ ~reqs[id].ok \/ Unreliable
          /\ Fail(id)

\* The handler has returned: the last check of the server, the chance to drop
\* the reply, the choice to send it, perhaps much later.
Judge(id) ==
    /\ reqs[id].st = "answered"
    /\ \/ /\ ~isServerDead(id)
          /\ reqs[id].ok
          /\ reqs' = [reqs EXCEPT ![id].st = "replying"]
       \/ /\ isServerDead(id) \/ ~reqs[id].ok \/ Unreliable
          /\ Fail(id)

\* The reply reaches the caller.
Reply(id) ==
    /\ reqs[id].st = "replying"
    /\ reqs' = [reqs EXCEPT ![id].st = "returned"]

processReq(id) ==
    /\ Undelivered(id) \/ Deliver(id) \/ GiveUp(id) \/ Judge(id) \/ Reply(id)
    /\ UNCHANGED <<ends, enabled, servers, done>>

Cleanup == done' = TRUE
=============================================================================
