------------------------------ MODULE KVStore ------------------------------
(***************************************************************************)
(* Concurrent Clerk operations on the key/value server.                    *)
(*                                                                         *)
(* Each member of Clients stands for one operation: it is invoked with     *)
(* any arguments, goes through the Clerk and returns, once.  A client that *)
(* issues several operations is several members that run one after the     *)
(* other, which is one of the interleavings.                               *)
(***************************************************************************)
EXTENDS KVClerk

CONSTANT PutVersions     \* the versions a caller may pass to Put

ASSUME PutVersionsAssumption == PutVersions \subseteq Nat

VARIABLES input,         \* input[c]: the arguments of operation c, once invoked
          applied,       \* history: how often c's Put changed the map
          output,        \* history: the reply of c's decisive handler execution
          result         \* what the Clerk method returned to the application

opVars == <<input, applied, output, result>>
vars   == <<KeyValueItems, call, late, input, applied, output, result>>

NoInput == [op |-> "none", key |-> CHOOSE k \in Keys : TRUE, value |-> Empty,
            version |-> 0, reached |-> TRUE]

\* reached: the key had reached the version when the operation was invoked, as
\* it has if the caller got the version from a Get or is making a new key.
Input == [op : {"none", "Get", "Put"}, key : Keys, value : Values, version : Nat,
          reached : BOOLEAN]
Reply == [err : Err, value : Values, version : Nat]

Init ==
    /\ ClerkInit
    /\ input = [c \in Clients |-> NoInput]
    /\ applied = [c \in Clients |-> 0]
    /\ output = [c \in Clients |-> ZeroReply]
    /\ result = [c \in Clients |-> ZeroReply]

-----------------------------------------------------------------------------
\* c's handler succeeded as a Put: the history of what it did.
RecordPut(c, k, ver) ==
    /\ applied' = [applied EXCEPT ![c] = IF PutErr(k, ver) = OK THEN @ + 1 ELSE @]
    /\ output' = [output EXCEPT ![c] =
                     IF applied[c] = 0 THEN [@ EXCEPT !.err = PutErr(k, ver)] ELSE @]

InvokeGet(c, k) ==
    /\ input[c].op = "none"
    /\ BeginGet(c, k)
    /\ input' = [input EXCEPT ![c] = [op |-> "Get", key |-> k, value |-> Empty,
                                      version |-> 0, reached |-> TRUE]]
    /\ UNCHANGED <<applied, output, result>>

InvokePut(c, k, v, ver) ==
    /\ input[c].op = "none"
    /\ BeginPut(c, k, v, ver)
    /\ input' = [input EXCEPT ![c] = [op |-> "Put", key |-> k, value |-> v,
                                      version |-> ver,
                                      reached |-> ver \leq CurVersion(k)]]
    /\ UNCHANGED <<applied, output, result>>

Handle(c) ==
    /\ Execute(c)
    /\ \/ /\ call[c].op = "Get"
          /\ output' = [output EXCEPT ![c] = GetReply(call[c].key)]
          /\ UNCHANGED applied
       \/ /\ call[c].op = "Put"
          /\ RecordPut(c, call[c].key, call[c].version)
    /\ UNCHANGED <<input, result>>

HandleLate(r) ==
    /\ ExecuteLate(r)
    /\ RecordPut(r.clnt, r.key, r.version)
    /\ UNCHANGED <<input, result>>

Network(c) == NetworkStep(c) /\ UNCHANGED opVars

Finish(c) ==
    /\ Return(c)
    /\ result' = [result EXCEPT ![c] = [call[c].reply EXCEPT !.err = ClerkErr(c)]]
    /\ UNCHANGED <<input, applied, output>>

Next ==
    \/ \E c \in Clients :
          \/ \E k \in Keys : InvokeGet(c, k)
          \/ \E k \in Keys, v \in Values, ver \in PutVersions : InvokePut(c, k, v, ver)
          \/ Handle(c)
          \/ Network(c)
          \/ Finish(c)
    \/ \E r \in late : HandleLate(r)

Spec == Init /\ [][Next]_vars

-----------------------------------------------------------------------------
Done(c) == result[c].err # NoErr

TypeOK ==
    /\ ClerkTypeOK
    /\ input \in [Clients -> Input]
    /\ applied \in [Clients -> Nat]
    /\ output \in [Clients -> Reply]
    /\ result \in [Clients -> Reply]

\* An operation that succeeded as a Put on key k with version ver.
Won(c, k, ver) ==
    /\ input[c].op = "Put" /\ input[c].key = k /\ input[c].version = ver
    /\ applied[c] > 0

\* Exactly-once history: no Put changes the map twice, however often the Clerk
\* resends it and whenever an abandoned handler gets to run, and every version
\* a key has gone through was produced by exactly one Put (handlePut).
OneWinnerPerVersion ==
    /\ \A c \in Clients : applied[c] \leq 1
    /\ \A k \in Keys, ver \in PutVersions :
          /\ (\E c \in Clients : Won(c, k, ver)) <=> ver < CurVersion(k)
          /\ \A c, d \in Clients : Won(c, k, ver) /\ Won(d, k, ver) => c = d

\* A definite answer of Clerk.Put is true for ever: OK means the Put changed
\* the map, ErrVersion that it did not and, with its request possibly still in
\* some processReq, never will.
DefiniteAnswers ==
    \A c \in Clients :
        input[c].op = "Put" =>
            /\ result[c].err = OK => applied[c] = 1
            /\ result[c].err = ErrVersion =>
                  applied[c] = 0 /\ \A r \in late : r.clnt # c

\* ErrMaybe from Clerk.Put hides one of two things: the Put happened, or the
\* key moved past its version through another client's Put.  With one client
\* it means the Put happened, which is what TestUnreliableNet relies on.
MaybeMeansDoneOrBeaten ==
    \A c \in Clients :
        result[c].err = ErrMaybe /\ input[c].reached =>
            \/ applied[c] = 1
            \/ \E d \in Clients \ {c} : Won(d, input[c].key, input[c].version)

\* After Clerk.Put has returned, the map changes on its behalf only if an
\* abandoned handler was left behind by a Put that was given a version the key
\* had not reached, and then the answer was ErrNoKey or ErrMaybe.
EffectAfterReturn ==
    [][\A c \in Clients :
          Done(c) /\ applied'[c] # applied[c] =>
              ~input[c].reached /\ result[c].err \in {ErrNoKey, ErrMaybe}]_vars
=============================================================================
