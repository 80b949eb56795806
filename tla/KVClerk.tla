------------------------------ MODULE KVClerk ------------------------------
(***************************************************************************)
(* The Clerk of kvsrv1/client.go calling the server over labrpc.           *)
(*                                                                         *)
(* A Clerk method is a loop around ck.clnt.Call: it calls until a call     *)
(* returns true.  One call is one processReq goroutine of labrpc.go, which *)
(* may drop the request, run the handler and drop the reply, or stop       *)
(* waiting for the handler because the client's end was disabled, and then *)
(* the handler runs at some later time with nobody waiting for its reply.  *)
(*                                                                         *)
(* The callers of the Clerk (KVStore, Lock) extend this module and conjoin *)
(* their own variables to its actions.                                     *)
(***************************************************************************)
EXTENDS KVServer

CONSTANTS Clients,       \* the processes, each with a Clerk of its own
          Unreliable,    \* TRUE: the network drops requests and replies
          EndsDisabled   \* TRUE: the tester disables ends while calls are out

ASSUME KeysAssumption == Keys # {}
ASSUME NetworkAssumption == Unreliable \in BOOLEAN /\ EndsDisabled \in BOOLEAN

VARIABLES call,          \* call[c]: the Clerk method client c is in
          late           \* Put requests whose caller stopped waiting for them

clerkVars == <<KeyValueItems, call, late>>

ZeroReply == [err |-> NoErr, value |-> Empty, version |-> 0]

\* st: "idle" outside the Clerk, "sent" from the call to the handler's end,
\* "replied" once the handler returned, "failed" when Call returned false.
CallRecord ==
    [st : {"idle", "sent", "replied", "failed"}, op : {"Get", "Put"},
     key : Keys, value : Values, version : Nat, retried : BOOLEAN,
     reply : [err : Err, value : Values, version : Nat]]

Request == [clnt : Clients, key : Keys, value : Values, version : Nat]

\* The arguments of a Clerk method, with an RPC sent for them.
NewCall(op, k, v, ver) ==
    [st |-> "sent", op |-> op, key |-> k, value |-> v, version |-> ver,
     retried |-> FALSE, reply |-> ZeroReply]

\* Outside the Clerk; the arguments mean nothing there.
NoCall == [NewCall("Get", CHOOSE k \in Keys : TRUE, Empty, 0) EXCEPT !.st = "idle"]

ClerkInit ==
    /\ MakeKVServer
    /\ call = [c \in Clients |-> NoCall]
    /\ late = {}

-----------------------------------------------------------------------------
\* Clerk.Get up to its first Call.
BeginGet(c, k) ==
    /\ call[c].st = "idle"
    /\ call' = [call EXCEPT ![c] = NewCall("Get", k, Empty, 0)]
    /\ UNCHANGED <<KeyValueItems, late>>

\* Clerk.Put up to its first Call.
BeginPut(c, k, v, ver) ==
    /\ call[c].st = "idle"
    /\ call' = [call EXCEPT ![c] = NewCall("Put", k, v, ver)]
    /\ UNCHANGED <<KeyValueItems, late>>

\* processReq drops the request, or finds the end disabled to begin with.
DropRequest(c) ==
    /\ Unreliable \/ EndsDisabled
    /\ call[c].st = "sent"
    /\ call' = [call EXCEPT ![c].st = "failed"]
    /\ UNCHANGED <<KeyValueItems, late>>

\* The handler runs while processReq waits for it.
Execute(c) ==
    /\ call[c].st = "sent"
    /\ UNCHANGED late
    /\ \/ /\ call[c].op = "Get"
          /\ call' = [call EXCEPT ![c].st = "replied",
                                  ![c].reply = GetReply(call[c].key)]
          /\ UNCHANGED KeyValueItems
       \/ /\ call[c].op = "Put"
          /\ call' = [call EXCEPT ![c].st = "replied",
                                  ![c].reply = PutReply(call[c].key, call[c].version)]
          /\ handlePut(call[c].key, call[c].value, call[c].version)

\* processReq drops the reply, or finds the end disabled after the handler.
LoseReply(c) ==
    /\ Unreliable \/ EndsDisabled
    /\ call[c].st = "replied"
    /\ call' = [call EXCEPT ![c].st = "failed", ![c].reply = ZeroReply]
    /\ UNCHANGED <<KeyValueItems, late>>

\* isServerDead answers true while the handler still has to run: the call
\* fails and the handler's goroutine stays behind.  A Get left behind has no
\* effect, and two equal Puts left behind have the effect of one: the second
\* execution of a version never succeeds.
Abandon(c) ==
    /\ EndsDisabled
    /\ call[c].st = "sent"
    /\ call[c].op = "Put"
    /\ call' = [call EXCEPT ![c].st = "failed"]
    /\ late' = late \cup {[clnt |-> c, key |-> call[c].key,
                           value |-> call[c].value, version |-> call[c].version]}
    /\ UNCHANGED KeyValueItems

\* The handler of an abandoned call runs after all.
ExecuteLate(r) ==
    /\ r \in late
    /\ late' = late \ {r}
    /\ handlePut(r.key, r.value, r.version)
    /\ UNCHANGED call

\* The next turn of the Clerk's loop, after the sleep.  Only Put records
\* that it is a retry.
Retry(c) ==
    /\ call[c].st = "failed"
    /\ call' = [call EXCEPT ![c].st = "sent",
                            ![c].retried = (call[c].op = "Put")]
    /\ UNCHANGED <<KeyValueItems, late>>

\* Mutant: a resent Put trusts ErrVersion.
ClerkErrNoMaybe(c) == call[c].reply.err

\* What the Clerk method returns once Call returned true.
ClerkErr(c) ==
    IF call[c].retried /\ call[c].reply.err = ErrVersion
    THEN ErrMaybe
    ELSE call[c].reply.err

\* The Clerk method returns to its caller, which makes the Clerk call next
\* without letting another step in (NoCall: none).
ReturnThen(c, next) ==
    /\ call[c].st = "replied"
    /\ call' = [call EXCEPT ![c] = next]
    /\ UNCHANGED <<KeyValueItems, late>>

Return(c) == ReturnThen(c, NoCall)

\* The steps of the network and the server, none of which the caller sees.
NetworkStep(c) == DropRequest(c) \/ LoseReply(c) \/ Abandon(c) \/ Retry(c)

ClerkTypeOK ==
    /\ ServerTypeOK
    /\ call \in [Clients -> CallRecord]
    /\ late \subseteq Request
=============================================================================
