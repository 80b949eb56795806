------------------------------- MODULE KVTest -------------------------------
(***************************************************************************)
(* The clients of the key/value tests, kvtest1/kvtest.go, each a loop of   *)
(* Clerk operations until the tester signals done, and the checks the      *)
(* tester makes of what they leave on the server.                          *)
(*                                                                         *)
(* A value is JSON: a list of entries, of which EntryV is a single one.    *)
(***************************************************************************)
EXTENDS KVClerk, FiniteSets, Sequences

CONSTANTS MaxPuts,       \* bound: iterations of OneClientPut
          MaxAppends     \* bound: iterations of OneClientAppend

ASSUME KVTestAssumption == MaxPuts \in Nat /\ MaxAppends \in Nat
ASSUME TestClientsAssumption == IsFiniteSet(Clients) /\ Clients # {}

VARIABLES workload,      \* which test runs
          at,            \* at[c]: where client c is in its loop
          verm,          \* verm[c]: its variable ver, or verm[k]
          list,          \* list[c]: es of OneClientAppend
          err,           \* err[c]: what its last Put returned
          ok,            \* ok[c]: the iterations counted in Nok
          maybe,         \* maybe[c]: those counted in Nmaybe
          verdict,       \* "running", then what the checks found
          decided,       \* history: the reply of the decisive handler execution
          answered       \* history: what the Clerk method returned

clntVars == <<workload, at, verm, list, err, ok, maybe, verdict>>
testVars == <<clerkVars, clntVars, decided, answered>>

\* OneClientPut and OneClientAppend.
Workloads == {"put", "append"}

\* The key the clients compete for; randomkeys is off.
Shared == CHOOSE k \in Keys : TRUE

\* A test of appends first puts an empty list.
TestInit ==
    /\ workload \in Workloads
    /\ KeyValueItems = [k \in IF workload = "append" THEN {Shared} ELSE {} |->
                           [value |-> <<>>, version |-> 1]]
    /\ call = [c \in Clients |-> NoCall]
    /\ late = {}
    /\ at = [c \in Clients |-> "top"]
    /\ verm = [c \in Clients |-> 0]
    /\ list = [c \in Clients |-> <<>>]
    /\ err = [c \in Clients |-> NoErr]
    /\ ok = [c \in Clients |-> {}]
    /\ maybe = [c \in Clients |-> {}]
    /\ verdict = "running"
    /\ decided = [c \in Clients |-> ZeroReply]
    /\ answered = [c \in Clients |-> ZeroReply]

\* The number of the iteration c is in.
Round(c) == Cardinality(ok[c] \cup maybe[c])

\* What c puts.
Entries(c) == Append(IF workload = "append" THEN list[c] ELSE <<>>,
                     [id |-> c, n |-> IF workload = "put" THEN verm[c] ELSE Round(c)])

-----------------------------------------------------------------------------
\* SpawnClientsAndWait's signal is seen at the head of a client's loop.  A test
\* lasts long enough for an iteration.
Stop(c) ==
    /\ at[c] = "top"
    /\ Round(c) > 0
    /\ at' = [at EXCEPT ![c] = "over"]
    /\ UNCHANGED <<clerkVars, workload, verm, list, err, ok, maybe, verdict, decided, answered>>

\* The next iteration; appends begin with GetJson.
Iterate(c) ==
    /\ at[c] = "top"
    /\ Round(c) < IF workload = "put" THEN MaxPuts ELSE MaxAppends
    /\ at' = [at EXCEPT ![c] = IF workload = "append" THEN "get" ELSE "put"]
    /\ UNCHANGED <<clerkVars, workload, verm, list, err, ok, maybe, verdict, decided, answered>>

\* PutJson, GetJson: the Clerk is called.
CallClerk(c) ==
    /\ \/ at[c] = "put" /\ BeginPut(c, Shared, Entries(c), verm[c])
       \/ at[c] = "get" /\ BeginGet(c, Shared)
    /\ answered' = [answered EXCEPT ![c] = ZeroReply]
    /\ UNCHANGED <<clntVars, decided>>

\* What the Clerk method returns.
Answer(c) == [call[c].reply EXCEPT !.err = ClerkErr(c)]

Returned(c) ==
    /\ Return(c)
    /\ answered' = [answered EXCEPT ![c] = Answer(c)]
    /\ decided' = [decided EXCEPT ![c] = ZeroReply]
    /\ UNCHANGED workload

Fatal == verdict' = "fatal"

\* Count the iteration as done or perhaps done.
Counted(c, e) ==
    /\ ok' = [ok EXCEPT ![c] = IF e = OK THEN @ \cup {Round(c)} ELSE @]
    /\ maybe' = [maybe EXCEPT ![c] = IF e = ErrMaybe THEN @ \cup {Round(c)} ELSE @]

\* OnePut after its Put: the error is looked at, and the key read.
OnePutPut(c, e) ==
    /\ err' = [err EXCEPT ![c] = e]
    /\ at' = [at EXCEPT ![c] = "get"]
    /\ IF e \in {OK, ErrVersion, ErrMaybe} THEN UNCHANGED verdict ELSE Fatal
    /\ UNCHANGED <<verm, list, ok, maybe>>

\* OnePut after its Get: e.Id and e.V are compared if this was its own Put.
OnePutGot(c, r) ==
    /\ verm' = [verm EXCEPT ![c] = r.version]
    /\ IF \/ r.err # OK
          \/ /\ err[c] = OK /\ r.version = verm[c] + 1
             /\ r.value[1].id # c /\ r.value[1].n # verm[c]
       THEN Fatal ELSE UNCHANGED verdict
    /\ Counted(c, err[c])
    /\ at' = [at EXCEPT ![c] = IF err[c] = ErrVersion THEN "put" ELSE "top"]
    /\ err' = [err EXCEPT ![c] = NoErr]
    /\ UNCHANGED list

\* OneClientAppend after its Get and after its Put.
AppendGot(c, r) ==
    /\ verm' = [verm EXCEPT ![c] = r.version]
    /\ list' = [list EXCEPT ![c] = r.value]
    /\ IF r.err # OK THEN Fatal ELSE UNCHANGED verdict
    /\ at' = [at EXCEPT ![c] = "put"]
    /\ UNCHANGED <<err, ok, maybe>>

AppendPut(c, e) ==
    /\ Counted(c, e)
    /\ at' = [at EXCEPT ![c] = IF e \in {OK, ErrMaybe} THEN "top" ELSE "get"]
    /\ list' = [list EXCEPT ![c] = <<>>]
    /\ verm' = [verm EXCEPT ![c] = 0]
    /\ UNCHANGED <<err, verdict>>

PutReturned(c) ==
    /\ at[c] = "put"
    /\ Returned(c)
    /\ \/ workload = "put" /\ OnePutPut(c, Answer(c).err)
       \/ workload = "append" /\ AppendPut(c, Answer(c).err)

GetReturned(c) ==
    /\ at[c] = "get"
    /\ Returned(c)
    /\ \/ workload = "put" /\ OnePutGot(c, Answer(c))
       \/ workload = "append" /\ AppendGot(c, Answer(c))

-----------------------------------------------------------------------------
\* The handler: its reply counts unless an earlier execution changed the map.
Decides(c, e) == decided' = [decided EXCEPT ![c] = IF @.err = OK THEN @ ELSE [@ EXCEPT !.err = e]]

TestHandle(c) ==
    /\ Execute(c)
    /\ \/ call[c].op = "Get" /\ decided' = [decided EXCEPT ![c] = GetReply(call[c].key)]
       \/ call[c].op = "Put" /\ Decides(c, PutErr(call[c].key, call[c].version))
    /\ UNCHANGED <<clntVars, answered>>

\* A handler left behind by the call its client is still in, or by an older one.
TestHandleLate(r) ==
    /\ ExecuteLate(r)
    /\ IF /\ call[r.clnt].st # "idle" /\ call[r.clnt].op = "Put"
          /\ call[r.clnt].key = r.key /\ call[r.clnt].version = r.version
       THEN Decides(r.clnt, PutErr(r.key, r.version))
       ELSE UNCHANGED decided
    /\ UNCHANGED <<clntVars, answered>>

TestNetwork(c) == NetworkStep(c) /\ UNCHANGED <<clntVars, decided, answered>>

-----------------------------------------------------------------------------
\* The checks at the end of a test, of what a Get then returns.
Total(f) == Cardinality(UNION {{c} \X f[c] : c \in Clients})

CheckPutConcurrent(r) ==
    /\ r.err = OK
    /\ IF Unreliable \/ EndsDisabled
       THEN r.version <= Total(ok) + Total(maybe)
       ELSE r.version = Total(ok)

\* Where c's entries are in a list, and their numbers.
Own(es, c) == {i \in DOMAIN es : es[i].id = c}
Ns(es, c)  == {es[i].n : i \in Own(es, c)}

\* The numbers that c's entries leave out.
Skipped(es, c) == (UNION {0 .. n - 1 : n \in Ns(es, c)}) \ Ns(es, c)

\* For each client the numbers increase; what is skipped, and what there is, are
\* bounded by what its Puts returned.
CheckAppends(r) ==
    /\ r.err = OK
    /\ Len(r.value) + 1 = r.version
    /\ \A c \in Clients :
          /\ \A i, j \in Own(r.value, c) : i < j => r.value[i].n < r.value[j].n
          /\ Cardinality(Skipped(r.value, c)) <= Cardinality(maybe[c])
          /\ \A n \in Ns(r.value, c) : n < Cardinality(ok[c]) + Cardinality(maybe[c])

Check ==
    /\ verdict = "running"
    /\ \A c \in Clients : at[c] = "over"
    /\ verdict' = IF \/ workload = "put" /\ CheckPutConcurrent(GetReply(Shared))
                     \/ workload = "append" /\ CheckAppends(GetReply(Shared))
                  THEN "passed" ELSE "fatal"
    /\ UNCHANGED <<clerkVars, workload, at, verm, list, err, ok, maybe, decided, answered>>

TestNext ==
    \/ \E c \in Clients :
          \/ Stop(c)
          \/ Iterate(c)
          \/ CallClerk(c)
          \/ PutReturned(c)
          \/ GetReturned(c)
          \/ TestHandle(c)
          \/ TestNetwork(c)
    \/ \E r \in late : TestHandleLate(r)
    \/ Check

TestSpec == TestInit /\ [][TestNext]_testVars

-----------------------------------------------------------------------------
\* The tests accept this server and this Clerk: no Fatalf of OnePut, GetJson,
\* CheckPutConcurrent or CheckAppends is reached, with requests and replies lost
\* and handlers that run after their caller has moved on.
NeverFails == verdict # "fatal"

\* More than CheckAppends can tell, and at all times: an append answered OK is in
\* the list, once and for all; one in the list was answered OK or ErrMaybe, or its
\* iteration is not over (OneClientAppend).
AppendsAreExact ==
    workload = "append" =>
        LET es == CurValue(Shared) IN
        \A c \in Clients :
            /\ ok[c] \subseteq Ns(es, c)
            /\ Ns(es, c) \subseteq ok[c] \cup maybe[c] \cup {Round(c)}
            /\ \A i, j \in Own(es, c) : es[i].n = es[j].n => i = j

KvState == [k \in Keys |-> [value |-> CurValue(k), version |-> CurVersion(k)]]

KvModel == INSTANCE KVModel WITH
    state <- KvState, output <- decided, result <- answered,
    input <- [c \in Clients |->
                [op |-> IF call[c].st = "idle" THEN "none" ELSE call[c].op,
                 key |-> call[c].key, value |-> call[c].value, version |-> call[c].version]]

\* The operations of the tests, one after the other at each client, form a history
\* that KvModel accepts: what porcupine checks of the log (CheckPorcupine).
LinearizableAsKvModel == KvModel!Spec
=============================================================================
