------------------------------- MODULE Clnts -------------------------------
(***************************************************************************)
(* The clients of the tester, tester1/clnts.go: a Clnt makes an end to a   *)
(* server when a clerk first calls it, and the tester cuts and restores    *)
(* what a client may reach.  Every method holds clnt.mu throughout.        *)
(***************************************************************************)
EXTENDS Labrpc

VARIABLES made,         \* made[c]: the servers clnt.ends has an end for
          srvs,         \* clnt.srvs: the servers allowed; nil is all of them
          removed       \* clients that DeleteClient or cleanup has removed

clntVars == <<made, srvs, removed>>

ClntEnd(c, s) == [owner |-> c, to |-> s, gen |-> 0]
EndsOf(c)     == {ClntEnd(c, s) : s \in made[c]}

makeClnts ==
    /\ made = [c \in Clients |-> {}]
    /\ srvs = [c \in Clients |-> Servers]
    /\ removed = {}

\* Mutant: a new end is enabled whatever is allowed.
makeEndEnabled(c, s) ==
    IF s \in made[c]
    THEN UNCHANGED <<made, ends, enabled>>
    ELSE /\ made' = [made EXCEPT ![c] = @ \cup {s}]
         /\ ends' = ends \cup {ClntEnd(c, s)}
         /\ enabled' = enabled \cup {ClntEnd(c, s)}

\* makeEnd: the end of an earlier call, or a new one, enabled if s is allowed.
makeEnd(c, s) ==
    IF s \in made[c]
    THEN UNCHANGED <<made, ends, enabled>>
    ELSE /\ made' = [made EXCEPT ![c] = @ \cup {s}]
         /\ ends' = ends \cup {ClntEnd(c, s)}
         /\ enabled' = IF s \in srvs[c] THEN enabled \cup {ClntEnd(c, s)} ELSE enabled

\* Clnt.Call.
ClntCall(c, s, id) ==
    /\ makeEnd(c, s)
    /\ Call(id, ClntEnd(c, s))
    /\ UNCHANGED <<servers, done, srvs, removed>>

ConnectClnt(c) ==
    /\ enabled' = enabled \cup EndsOf(c)
    /\ srvs' = [srvs EXCEPT ![c] = Servers]

\* ConnectTo enables; it does not disable the ends that are no longer allowed.
ConnectTo(c, to) ==
    /\ enabled' = enabled \cup {e \in EndsOf(c) : e.to \in to}
    /\ srvs' = [srvs EXCEPT ![c] = to]

\* Disconnect disables an end that exists; what is allowed stays.
Disconnect(c, s) ==
    /\ s \in made[c]
    /\ enabled' = enabled \ {ClntEnd(c, s)}
    /\ UNCHANGED srvs

DisconnectClnt(c) ==
    /\ enabled' = enabled \ EndsOf(c)
    /\ srvs' = [srvs EXCEPT ![c] = {}]

\* The tester changes what client c reaches.
SetClnt(c) ==
    /\ c \notin removed
    /\ \/ ConnectClnt(c)
       \/ \E to \in (SUBSET Servers) \ {{}} : ConnectTo(c, to)
       \/ \E s \in Servers : Disconnect(c, s)
       \/ DisconnectClnt(c)
    /\ UNCHANGED <<ends, servers, reqs, done, made, removed>>

\* Mutant: a deleted end stays enabled.
DeleteEndsOnly(es) == ends' = ends \ es /\ UNCHANGED enabled

\* Network.DeleteEnd of each.
DeleteEnds(es) == ends' = ends \ es /\ enabled' = enabled \ es

\* DeleteClient: the ends are deleted, the clerk may go on calling.
RemoveClnt(c) ==
    /\ c \notin removed
    /\ removed' = removed \cup {c}
    /\ DeleteEnds(EndsOf(c))
    /\ UNCHANGED <<servers, reqs, done, made, srvs>>
=============================================================================
