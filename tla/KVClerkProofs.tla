--------------------------- MODULE KVClerkProofs ---------------------------
(***************************************************************************)
(* Facts about the server and the Clerk that the proofs of their callers   *)
(* rest on: what handlePut does to a key as its clients see it, and that   *)
(* every step of a call keeps the types.                                   *)
(***************************************************************************)
EXTENDS KVClerk, TLAPS

\* handlePut stores 1 for a new key and more afterwards: only an absent key has
\* version 0 as its clients see it.
ItemsPositive == \A k \in DOMAIN KeyValueItems : KeyValueItems[k].version > 0

\* ServerTypeOK, ClerkTypeOK and their records for values of some set X: the tests
\* of kvtest1 store lists that they make as they go.
ReplyOf(X) == [err : Err, value : X, version : Nat]

CallOf(X) ==
    [st : {"idle", "sent", "replied", "failed"}, op : {"Get", "Put"},
     key : Keys, value : X, version : Nat, retried : BOOLEAN, reply : ReplyOf(X)]

RequestOf(X) == [clnt : Clients, key : Keys, value : X, version : Nat]

ServerTyped(X) ==
    /\ DOMAIN KeyValueItems \subseteq Keys
    /\ KeyValueItems \in [DOMAIN KeyValueItems -> [value : X, version : Nat]]

ClerkTyped(X) ==
    /\ ServerTyped(X)
    /\ call \in [Clients -> CallOf(X)]
    /\ late \subseteq RequestOf(X)

-----------------------------------------------------------------------------
\* The types of the modules are those for Values.
LEMMA TypedValues ==
    /\ (ServerTypeOK <=> ServerTyped(Values)) /\ (ServerTypeOK' <=> ServerTyped(Values)')
    /\ (ClerkTypeOK <=> ClerkTyped(Values)) /\ (ClerkTypeOK' <=> ClerkTyped(Values)')
    /\ CallRecord = CallOf(Values) /\ Request = RequestOf(Values)
  BY DEF ServerTypeOK, ClerkTypeOK, CallRecord, Request, KeyValueItem, ReplyOf, CallOf, RequestOf,
         ServerTyped, ClerkTyped

\* A call a Clerk method starts with is well typed, and so is no call.
LEMMA CallTypesOf ==
    ASSUME NEW X, Empty \in X
    PROVE  /\ NoCall \in CallOf(X) /\ NoCall.st = "idle"
           /\ \A op \in {"Get", "Put"}, k \in Keys, v \in X, ver \in Nat :
                 NewCall(op, k, v, ver) \in CallOf(X)
  <1>1. (CHOOSE k \in Keys : TRUE) \in Keys
    BY KeysAssumption
  <1>2. \A op \in {"Get", "Put"}, k \in Keys, v \in X, ver \in Nat :
          NewCall(op, k, v, ver) \in CallOf(X)
    BY DEF NewCall, CallOf, ReplyOf, ZeroReply, Err, NoErr, OK, ErrNoKey, ErrVersion, ErrMaybe
  <1> QED
    BY <1>1, <1>2
    DEF NoCall, NewCall, CallOf, ReplyOf, ZeroReply, Err, NoErr, OK, ErrNoKey, ErrVersion,
        ErrMaybe

\* The reply of the Get handler is well typed.
LEMMA GetReplyTypeOf ==
    ASSUME NEW X, Empty \in X,
           ServerTyped(X), NEW k \in Keys
    PROVE  /\ GetReply(k) \in ReplyOf(X)
           /\ CurVersion(k) \in Nat
           /\ CurValue(k) \in X
           /\ GetReply(k).version = CurVersion(k)
           /\ GetReply(k).value = CurValue(k)
           /\ CurValue(k) # Empty => GetReply(k).err = OK
  BY DEF ServerTyped, ReplyOf, GetReply, CurVersion, CurValue, Present, Err, NoErr,
      OK, ErrNoKey, ErrVersion, ErrMaybe

\* What handlePut does, in terms of the versions clients see: it succeeds on
\* exactly the current version, and then moves to the next one.
LEMMA PutEffectOf ==
    ASSUME NEW X, Empty \in X,
           ServerTyped(X), ItemsPositive,
           NEW k \in Keys, NEW v \in X, NEW ver \in Nat,
           handlePut(k, v, ver)
    PROVE  /\ ServerTyped(X)' /\ ItemsPositive'
           /\ PutErr(k, ver) \in {OK, ErrNoKey, ErrVersion}
           /\ PutErr(k, ver) = OK <=> ver = CurVersion(k)
           /\ ver < CurVersion(k) => PutErr(k, ver) = ErrVersion
           /\ ver = CurVersion(k) => CurVersion(k)' = ver + 1 /\ CurValue(k)' = v
           /\ ver # CurVersion(k) => UNCHANGED KeyValueItems
           /\ \A x \in Keys \ {k} : /\ CurVersion(x)' = CurVersion(x)
                                    /\ CurValue(x)' = CurValue(x)
  <1> USE DEF OK, ErrNoKey, ErrVersion
  <1>1. /\ PutErr(k, ver) \in {OK, ErrNoKey, ErrVersion}
        /\ PutErr(k, ver) = OK <=> ver = CurVersion(k)
        /\ ver < CurVersion(k) => PutErr(k, ver) = ErrVersion
    BY DEF PutErr, CurVersion, GetReply, Present, ServerTyped, ItemsPositive
  <1>2. CASE ver # CurVersion(k)
    <2>1. UNCHANGED KeyValueItems
      BY <1>1, <1>2 DEF handlePut
    <2> QED
      BY <1>1, <1>2, <2>1
      DEF ServerTyped, ItemsPositive, CurVersion, CurValue, GetReply, Present
  <1>3. CASE ver = CurVersion(k)
    <2>1. NewItem(k, v) = [value |-> v, version |-> ver + 1]
      BY <1>3 DEF NewItem, CurVersion, GetReply, Present
    <2>2. KeyValueItems' = [x \in DOMAIN KeyValueItems \cup {k} |->
                              IF x = k THEN [value |-> v, version |-> ver + 1]
                              ELSE KeyValueItems[x]]
      BY <1>1, <1>3, <2>1 DEF handlePut
    <2>3. ServerTyped(X)' /\ ItemsPositive'
      BY <2>2 DEF ServerTyped, ItemsPositive
    <2>4. CurVersion(k)' = ver + 1 /\ CurValue(k)' = v
      BY <2>2 DEF CurVersion, CurValue, GetReply, Present
    <2>5. \A x \in Keys \ {k} : /\ CurVersion(x)' = CurVersion(x)
                                /\ CurValue(x)' = CurValue(x)
      BY <2>2 DEF CurVersion, CurValue, GetReply, Present
    <2> QED BY <1>1, <1>3, <2>3, <2>4, <2>5
  <1> QED BY <1>2, <1>3

-----------------------------------------------------------------------------
\* Replacing the progress and the reply of a call keeps its type.
LEMMA CallUpdateOf ==
    ASSUME NEW X, Empty \in X,
           NEW r \in CallOf(X),
           NEW s \in {"idle", "sent", "replied", "failed"},
           NEW rep \in ReplyOf(X),
           NEW b \in BOOLEAN
    PROVE  /\ [r EXCEPT !.st = s] \in CallOf(X)
           /\ [r EXCEPT !.st = s, !.reply = rep] \in CallOf(X)
           /\ [r EXCEPT !.st = s, !.retried = b] \in CallOf(X)
  BY DEF CallOf

\* A step that leaves the map alone keeps what is known of it.
LEMMA SameItemsOf ==
    ASSUME NEW X, Empty \in X,
           ServerTyped(X), ItemsPositive, UNCHANGED KeyValueItems
    PROVE  /\ ServerTyped(X)' /\ ItemsPositive'
           /\ \A k \in Keys : CurVersion(k)' = CurVersion(k) /\ CurValue(k)' = CurValue(k)
  BY DEF ServerTyped, ItemsPositive, CurVersion, CurValue, GetReply, Present

\* The start of Clerk.Get and Clerk.Put.
LEMMA BeginTypesOf ==
    ASSUME NEW X, Empty \in X,
           ClerkTyped(X), ItemsPositive, NEW c \in Clients, NEW k \in Keys,
           \/ BeginGet(c, k)
           \/ \E v \in X, ver \in Nat : BeginPut(c, k, v, ver)
    PROVE  ClerkTyped(X)' /\ ItemsPositive'
  <1>1. PICK next \in CallOf(X) : call' = [call EXCEPT ![c] = next]
    BY CallTypesOf DEF BeginGet, BeginPut
  <1>2. UNCHANGED <<KeyValueItems, late>>
    BY DEF BeginGet, BeginPut
  <1> QED BY <1>1, <1>2, SameItemsOf DEF ClerkTyped

\* The return of a Clerk method.
LEMMA ReturnTypesOf ==
    ASSUME NEW X, Empty \in X,
           ClerkTyped(X), ItemsPositive, NEW c \in Clients, NEW next \in CallOf(X),
           ReturnThen(c, next)
    PROVE  ClerkTyped(X)' /\ ItemsPositive'
  BY SameItemsOf DEF ClerkTyped, ReturnThen

\* The network's steps.
LEMMA NetworkTypesOf ==
    ASSUME NEW X, Empty \in X,
           ClerkTyped(X), ItemsPositive, NEW c \in Clients, NetworkStep(c)
    PROVE  ClerkTyped(X)' /\ ItemsPositive'
  <1>1. UNCHANGED KeyValueItems
    BY DEF NetworkStep, DropRequest, LoseReply, Abandon, Retry
  <1>2. call[c] \in CallOf(X)
    BY DEF ClerkTyped
  <1>3. ZeroReply \in ReplyOf(X)
    BY DEF ZeroReply, ReplyOf, Err
  <1>4. PICK next \in CallOf(X) : call' = [call EXCEPT ![c] = next]
    <2>1. CASE DropRequest(c) \/ Abandon(c)
      <3>1. call' = [call EXCEPT ![c] = [call[c] EXCEPT !.st = "failed"]]
        BY <2>1 DEF DropRequest, Abandon, ClerkTyped
      <3> QED BY <1>2, <1>3, <3>1, CallUpdateOf
    <2>2. CASE LoseReply(c)
      <3>1. call' = [call EXCEPT ![c] = [call[c] EXCEPT !.st = "failed", !.reply = ZeroReply]]
        BY <2>2 DEF LoseReply, ClerkTyped
      <3> QED BY <1>2, <1>3, <3>1, CallUpdateOf
    <2>3. CASE Retry(c)
      <3>1. call' = [call EXCEPT ![c] = [call[c] EXCEPT !.st = "sent",
                                                        !.retried = (call[c].op = "Put")]]
        BY <2>3 DEF Retry, ClerkTyped
      <3>2. (call[c].op = "Put") \in BOOLEAN
        OBVIOUS
      <3> QED BY <1>2, <1>3, <3>1, <3>2, CallUpdateOf
    <2> QED BY <2>1, <2>2, <2>3 DEF NetworkStep
  <1>5. late' \subseteq RequestOf(X)
    BY <1>2
    DEF NetworkStep, DropRequest, LoseReply, Abandon, Retry, CallOf, RequestOf, ClerkTyped
  <1> QED BY <1>1, <1>4, <1>5, SameItemsOf DEF ClerkTyped

\* The handler's step.
LEMMA ExecuteTypesOf ==
    ASSUME NEW X, Empty \in X,
           ClerkTyped(X), ItemsPositive, NEW c \in Clients, Execute(c)
    PROVE  ClerkTyped(X)' /\ ItemsPositive'
  <1>1. /\ call[c] \in CallOf(X)
        /\ call[c].key \in Keys /\ call[c].value \in X /\ call[c].version \in Nat
    BY DEF ClerkTyped, CallOf
  <1>2. ASSUME NEW rep \in ReplyOf(X),
               call' = [call EXCEPT ![c].st = "replied", ![c].reply = rep]
        PROVE  call' \in [Clients -> CallOf(X)]
    <2>1. call' = [call EXCEPT ![c] = [call[c] EXCEPT !.st = "replied", !.reply = rep]]
      BY <1>2 DEF ClerkTyped
    <2>2. [call[c] EXCEPT !.st = "replied", !.reply = rep] \in CallOf(X)
      BY <1>1, CallUpdateOf
    <2> QED BY <2>1, <2>2 DEF ClerkTyped
  <1>3. CASE call[c].op = "Get"
    <2>1. GetReply(call[c].key) \in ReplyOf(X)
      BY <1>1, GetReplyTypeOf DEF ClerkTyped
    <2> QED BY <1>2, <1>3, <2>1, SameItemsOf DEF Execute, ClerkTyped
  <1>4. CASE call[c].op = "Put"
    <2>1. handlePut(call[c].key, call[c].value, call[c].version)
      BY <1>4 DEF Execute
    <2>2. /\ ServerTyped(X)' /\ ItemsPositive'
          /\ PutErr(call[c].key, call[c].version) \in {OK, ErrNoKey, ErrVersion}
      BY <1>1, <2>1, PutEffectOf DEF ClerkTyped
    <2>3. PutReply(call[c].key, call[c].version) \in ReplyOf(X)
      BY <2>2 DEF PutReply, ReplyOf, Err
    <2> QED BY <1>2, <1>4, <2>2, <2>3 DEF Execute, ClerkTyped
  <1> QED BY <1>3, <1>4 DEF Execute

\* The step of a handler nobody waits for.
LEMMA ExecuteLateTypesOf ==
    ASSUME NEW X, Empty \in X,
           ClerkTyped(X), ItemsPositive, NEW r \in late, ExecuteLate(r)
    PROVE  ClerkTyped(X)' /\ ItemsPositive'
  <1>1. r.key \in Keys /\ r.value \in X /\ r.version \in Nat
    BY DEF ClerkTyped, RequestOf
  <1>2. handlePut(r.key, r.value, r.version) /\ late' \subseteq late /\ UNCHANGED call
    BY DEF ExecuteLate
  <1>3. ServerTyped(X)' /\ ItemsPositive'
    BY <1>1, <1>2, PutEffectOf DEF ClerkTyped
  <1> QED BY <1>2, <1>3 DEF ClerkTyped

-----------------------------------------------------------------------------
\* The same for Values, as the specifications have it.
LEMMA CallTypes ==
    /\ NoCall \in CallRecord /\ NoCall.st = "idle"
    /\ \A op \in {"Get", "Put"}, k \in Keys, v \in Values, ver \in Nat :
          NewCall(op, k, v, ver) \in CallRecord
  BY TypedValues, CallTypesOf, EmptyAssumption

LEMMA GetReplyType ==
    ASSUME ServerTypeOK, NEW k \in Keys
    PROVE  /\ GetReply(k) \in [err : Err, value : Values, version : Nat]
           /\ CurVersion(k) \in Nat
           /\ CurValue(k) \in Values
           /\ GetReply(k).version = CurVersion(k)
           /\ GetReply(k).value = CurValue(k)
           /\ CurValue(k) # Empty => GetReply(k).err = OK
  BY TypedValues, GetReplyTypeOf, EmptyAssumption DEF ReplyOf

LEMMA PutEffect ==
    ASSUME ServerTypeOK, ItemsPositive,
           NEW k \in Keys, NEW v \in Values, NEW ver \in Nat,
           handlePut(k, v, ver)
    PROVE  /\ ServerTypeOK' /\ ItemsPositive'
           /\ PutErr(k, ver) \in {OK, ErrNoKey, ErrVersion}
           /\ PutErr(k, ver) = OK <=> ver = CurVersion(k)
           /\ ver < CurVersion(k) => PutErr(k, ver) = ErrVersion
           /\ ver = CurVersion(k) => CurVersion(k)' = ver + 1 /\ CurValue(k)' = v
           /\ ver # CurVersion(k) => UNCHANGED KeyValueItems
           /\ \A x \in Keys \ {k} : /\ CurVersion(x)' = CurVersion(x)
                                    /\ CurValue(x)' = CurValue(x)
  BY TypedValues, PutEffectOf, EmptyAssumption

LEMMA SameItems ==
    ASSUME ServerTypeOK, ItemsPositive, UNCHANGED KeyValueItems
    PROVE  /\ ServerTypeOK' /\ ItemsPositive'
           /\ \A k \in Keys : CurVersion(k)' = CurVersion(k) /\ CurValue(k)' = CurValue(k)
  BY TypedValues, SameItemsOf, EmptyAssumption

LEMMA BeginTypes ==
    ASSUME ClerkTypeOK, ItemsPositive, NEW c \in Clients, NEW k \in Keys,
           \/ BeginGet(c, k)
           \/ \E v \in Values, ver \in Nat : BeginPut(c, k, v, ver)
    PROVE  ClerkTypeOK' /\ ItemsPositive'
  BY TypedValues, BeginTypesOf, EmptyAssumption

LEMMA ReturnTypes ==
    ASSUME ClerkTypeOK, ItemsPositive, NEW c \in Clients, NEW next \in CallRecord,
           ReturnThen(c, next)
    PROVE  ClerkTypeOK' /\ ItemsPositive'
  BY TypedValues, ReturnTypesOf, EmptyAssumption

LEMMA NetworkTypes ==
    ASSUME ClerkTypeOK, ItemsPositive, NEW c \in Clients, NetworkStep(c)
    PROVE  ClerkTypeOK' /\ ItemsPositive'
  BY TypedValues, NetworkTypesOf, EmptyAssumption

LEMMA ExecuteTypes ==
    ASSUME ClerkTypeOK, ItemsPositive, NEW c \in Clients, Execute(c)
    PROVE  ClerkTypeOK' /\ ItemsPositive'
  BY TypedValues, ExecuteTypesOf, EmptyAssumption

LEMMA ExecuteLateTypes ==
    ASSUME ClerkTypeOK, ItemsPositive, NEW r \in late, ExecuteLate(r)
    PROVE  ClerkTypeOK' /\ ItemsPositive'
  BY TypedValues, ExecuteLateTypesOf, EmptyAssumption
=============================================================================
