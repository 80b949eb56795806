----------------------------- MODULE LockProofs -----------------------------
(***************************************************************************)
(* Mutual exclusion of the lock, for any number of objects and names and   *)
(* any network.  MutualExclusion is not inductive: that the key holds its  *)
(* owner's Id is kept only because no request still under way carries the  *)
(* key's current version and another intention, and that in turn needs to  *)
(* be known of every place a request can be in.                            *)
(***************************************************************************)
EXTENDS Lock, KVClerkProofs

Ver(c) == CurVersion(LockName[c])
Val(c) == CurValue(LockName[c])

\* Which Clerk method an object is in follows from its place in the loops.
PcCall(c) ==
    /\ call[c].st = "idle" <=> pc[c] \in {"out", "acqSleep"}
    /\ call[c].st # "idle" => call[c].key = LockName[c]
    /\ pc[c] \in {"acqGet", "relGet"} => call[c].op = "Get"
    /\ pc[c] = "acqPut" => call[c].op = "Put" /\ call[c].value = c
    /\ pc[c] = "relPut" => call[c].op = "Put" /\ call[c].value = Empty

\* A Get reply may be old, but its version tells: the value is current if the
\* version is.  The object's own Id, once read or once gone, stays so.
GetInv(c) ==
    call[c].st = "replied" /\ pc[c] \in {"acqGet", "relGet"} =>
        /\ call[c].reply.version \leq Ver(c)
        /\ call[c].reply.version = Ver(c) => call[c].reply.value = Val(c)
        /\ pc[c] = "acqGet" /\ call[c].reply.value = c => Val(c) = c
        /\ pc[c] = "relGet" /\ Val(c) = c =>
              /\ call[c].reply.err = OK /\ call[c].reply.value = c
              /\ call[c].reply.version = Ver(c)

\* A Put can succeed only from a free lock (Acquire) or from the object's own
\* (Release), and once answered it can no longer succeed.
PutInv(c) ==
    pc[c] \in {"acqPut", "relPut"} =>
        /\ call[c].version \leq Ver(c)
        /\ call[c].version = Ver(c) =>
              Val(c) = IF pc[c] = "acqPut" THEN Empty ELSE c
        /\ call[c].st = "replied" =>
              /\ call[c].version < Ver(c)
              /\ call[c].reply.err \in {OK, ErrVersion}
              /\ pc[c] = "acqPut" /\ call[c].reply.err = OK => Val(c) = c

\* An abandoned Put that can still succeed is one its object is still trying.
LateInv(r) ==
    /\ r.key = LockName[r.clnt]
    /\ r.version \leq Ver(r.clnt)
    /\ r.version = Ver(r.clnt) =>
          /\ pc[r.clnt] \in {"acqPut", "relPut"}
          /\ call[r.clnt].st \in {"sent", "failed"}
          /\ call[r.clnt].version = r.version
          /\ call[r.clnt].value = r.value

\* Ownership is what the server says, and the server names an object only if
\* that object owns the lock, is acquiring it or has still to release it.
OwnerInv(c) ==
    /\ c \in holding => Val(c) = c /\ pc[c] \notin ReleasePcs
    /\ Val(c) = c => \/ c \in holding
                     \/ pc[c] \in AcquirePcs \cup {"relGet"}
                     \/ pc[c] = "relPut" /\ call[c].version = Ver(c)

ObjectInv(c) == PcCall(c) /\ GetInv(c) /\ PutInv(c) /\ OwnerInv(c)

IInv ==
    /\ TypeOK
    /\ ItemsPositive
    /\ \A c \in Clients : ObjectInv(c)
    /\ \A r \in late : LateInv(r)

-----------------------------------------------------------------------------
\* Every step keeps the type invariant: the Clerk's part by the lemmas about the
\* Clerk, the lock's own by its assignments.
LEMMA TypeStep == TypeOK /\ ItemsPositive /\ [Next]_vars => TypeOK' /\ ItemsPositive'
  <1> SUFFICES ASSUME TypeOK, ItemsPositive, [Next]_vars
               PROVE  TypeOK' /\ ItemsPositive'
    OBVIOUS
  <1> USE DEF TypeOK
  <1>1. ASSUME NEW c \in Clients
        PROVE  /\ GetOf(c) \in CallRecord
               /\ \A v \in Values : PutOf(c, v) \in CallRecord
    <2>1. LockName[c] \in Keys /\ call[c].reply.version \in Nat
      BY LockNameAssumption DEF CallRecord, ClerkTypeOK
    <2> QED BY <2>1, CallTypes, EmptyAssumption DEF GetOf, PutOf
  <1>2. ASSUME NEW c \in Clients, AcquireCalled(c) \/ ReleaseCalled(c) \/ AcquireAgain(c)
        PROVE  TypeOK' /\ ItemsPositive'
    <2>1. LockName[c] \in Keys /\ BeginGet(c, LockName[c])
      BY <1>2, LockNameAssumption DEF AcquireCalled, ReleaseCalled, AcquireAgain
    <2>2. ClerkTypeOK' /\ ItemsPositive'
      BY <2>1, BeginTypes
    <2> QED
      BY <1>2, <2>2, MaxCallsAssumption
      DEF AcquireCalled, ReleaseCalled, AcquireAgain, Goto, AcquirePcs, ReleasePcs
  <1>3. ASSUME NEW c \in Clients,
               AcquireGot(c) \/ AcquirePutDone(c) \/ ReleaseGot(c) \/ ReleasePutDone(c)
        PROVE  TypeOK' /\ ItemsPositive'
    <2>1. PICK next \in CallRecord : ReturnThen(c, next)
      BY <1>1, <1>3, CallTypes, IdAssumption, EmptyAssumption
      DEF AcquireGot, AcquirePutDone, ReleaseGot, ReleasePutDone, Return
    <2>2. ClerkTypeOK' /\ ItemsPositive'
      BY <2>1, ReturnTypes
    <2> QED
      BY <1>3, <2>2
      DEF AcquireGot, AcquirePutDone, ReleaseGot, ReleasePutDone, Goto, AcquirePcs,
          ReleasePcs
  <1>4. ASSUME NEW c \in Clients, Network(c) \/ Handle(c)
        PROVE  TypeOK' /\ ItemsPositive'
    <2>1. ClerkTypeOK' /\ ItemsPositive'
      BY <1>4, NetworkTypes, ExecuteTypes DEF Network, Handle
    <2> QED BY <1>4, <2>1 DEF Network, Handle
  <1>5. ASSUME NEW r \in late, HandleLate(r)
        PROVE  TypeOK' /\ ItemsPositive'
    <2>1. ClerkTypeOK' /\ ItemsPositive'
      BY <1>5, ExecuteLateTypes DEF HandleLate
    <2> QED BY <1>5, <2>1 DEF HandleLate
  <1>6. CASE UNCHANGED vars
    BY <1>6 DEF vars, ClerkTypeOK, ServerTypeOK, ItemsPositive
  <1> QED
    BY <1>2, <1>3, <1>4, <1>5, <1>6 DEF Next, Proceed

-----------------------------------------------------------------------------
\* What the type invariant gives of one object.
LEMMA ObjectTypes ==
    ASSUME TypeOK, NEW c \in Clients
    PROVE  /\ LockName[c] \in Keys
           /\ Ver(c) \in Nat /\ Val(c) \in Values
           /\ c \in Values /\ c # Empty
           /\ call[c].version \in Nat /\ call[c].reply.version \in Nat
           /\ pc[c] \in {"out", "acqGet", "acqSleep", "acqPut", "relGet", "relPut"}
           /\ call[c].st \in {"idle", "sent", "replied", "failed"}
           /\ call[c] \in CallRecord
  <1>1. LockName[c] \in Keys /\ c \in Values /\ c # Empty
    BY LockNameAssumption, IdAssumption
  <1>2. Ver(c) \in Nat /\ Val(c) \in Values
    BY <1>1, GetReplyType DEF Ver, Val, TypeOK, ClerkTypeOK
  <1> QED BY <1>1, <1>2 DEF TypeOK, ClerkTypeOK, CallRecord, AcquirePcs, ReleasePcs

\* A step of object c that does not touch the map leaves the others as they are.
LEMMA Frame ==
    ASSUME IInv, NEW c \in Clients, UNCHANGED KeyValueItems,
           \A d \in Clients \ {c} : /\ call'[d] = call[d] /\ pc'[d] = pc[d]
                                    /\ d \in holding' <=> d \in holding
    PROVE  /\ Ver(c)' = Ver(c) /\ Val(c)' = Val(c)
           /\ \A d \in Clients \ {c} : ObjectInv(d)'
           /\ \A r \in late : r.clnt # c => LateInv(r)'
  <1>1. \A d \in Clients : Ver(d)' = Ver(d) /\ Val(d)' = Val(d)
    BY ObjectTypes, SameItems DEF IInv, TypeOK, ClerkTypeOK, Ver, Val
  <1>2. \A d \in Clients \ {c} : ObjectInv(d)'
    BY <1>1 DEF IInv, ObjectInv, PcCall, GetInv, PutInv, OwnerInv
  <1>3. \A r \in late : r.clnt # c => LateInv(r)'
    <2> SUFFICES ASSUME NEW r \in late, r.clnt # c PROVE LateInv(r)'
      OBVIOUS
    <2>1. r.clnt \in Clients
      BY DEF IInv, TypeOK, ClerkTypeOK, Request
    <2> QED BY <1>1, <2>1 DEF IInv, LateInv
  <1> QED BY <1>1, <1>2, <1>3

\* The steps that start a Get.
LEMMA BeginStep ==
    ASSUME IInv, NEW c \in Clients,
           AcquireCalled(c) \/ ReleaseCalled(c) \/ AcquireAgain(c)
    PROVE  (\A d \in Clients : ObjectInv(d)') /\ (\A r \in late' : LateInv(r)')
  <1>1. /\ UNCHANGED <<KeyValueItems, late>>
        /\ call' = [call EXCEPT ![c] = NewCall("Get", LockName[c], Empty, 0)]
        /\ pc[c] \in {"out", "acqSleep"}
        /\ \/ pc' = [pc EXCEPT ![c] = "acqGet"] /\ UNCHANGED holding
           \/ pc' = [pc EXCEPT ![c] = "relGet"] /\ holding' = holding \ {c}
    BY DEF AcquireCalled, ReleaseCalled, AcquireAgain, BeginGet, Goto
  <1>2. /\ call'[c].st = "sent" /\ call'[c].op = "Get" /\ call'[c].key = LockName[c]
        /\ \A d \in Clients \ {c} : call'[d] = call[d] /\ pc'[d] = pc[d]
        /\ pc'[c] \in {"acqGet", "relGet"}
    BY <1>1 DEF IInv, TypeOK, ClerkTypeOK, NewCall
  <1>3. /\ Ver(c)' = Ver(c) /\ Val(c)' = Val(c)
        /\ \A d \in Clients \ {c} : ObjectInv(d)'
        /\ \A r \in late : r.clnt # c => LateInv(r)'
    BY <1>1, <1>2, Frame
  <1>4. ObjectInv(c)'
    BY <1>1, <1>2, <1>3
    DEF IInv, TypeOK, ObjectInv, PcCall, GetInv, PutInv, OwnerInv, AcquirePcs, ReleasePcs
  <1>5. \A r \in late : r.clnt = c => LateInv(r)'
    BY <1>1, <1>3 DEF IInv, LateInv
  <1> QED BY <1>1, <1>3, <1>4, <1>5

\* The steps after a Get: the value read decides, and it is still the key's if
\* its version is.
LEMMA GotStep ==
    ASSUME IInv, NEW c \in Clients, AcquireGot(c) \/ ReleaseGot(c)
    PROVE  (\A d \in Clients : ObjectInv(d)') /\ (\A r \in late' : LateInv(r)')
  <1>t. /\ Ver(c) \in Nat /\ c # Empty /\ call[c].reply.version \in Nat
        /\ NoCall.st = "idle"
    BY ObjectTypes, CallTypes DEF IInv
  <1>o. ObjectInv(c)
    BY DEF IInv
  <1>1. /\ UNCHANGED <<KeyValueItems, late>>
        /\ \A d \in Clients \ {c} : /\ call'[d] = call[d] /\ pc'[d] = pc[d]
                                    /\ d \in holding' <=> d \in holding
        /\ call[c].st = "replied"
    BY DEF AcquireGot, ReleaseGot, Return, ReturnThen, Goto, IInv, TypeOK, ClerkTypeOK
  <1>2. /\ Ver(c)' = Ver(c) /\ Val(c)' = Val(c)
        /\ \A d \in Clients \ {c} : ObjectInv(d)'
        /\ \A r \in late : r.clnt # c => LateInv(r)'
    BY <1>1, Frame
  <1>3. \A r \in late : r.clnt = c => r.key = LockName[c] /\ r.version < Ver(c)
    <2> SUFFICES ASSUME NEW r \in late, r.clnt = c
                 PROVE  r.key = LockName[c] /\ r.version < Ver(c)
      OBVIOUS
    <2>1. r.version \in Nat /\ LateInv(r)
      BY DEF IInv, TypeOK, ClerkTypeOK, Request
    <2> QED BY <1>1, <1>t, <2>1 DEF LateInv
  <1>4. \A r \in late : r.clnt = c => LateInv(r)'
    BY <1>t, <1>2, <1>3 DEF LateInv, IInv, TypeOK, ClerkTypeOK, Request
  <1>5. CASE AcquireGot(c)
    <2>1. CASE call[c].reply.value = c
      <3>1. /\ call'[c].st = "idle" /\ pc'[c] = "out" /\ c \in holding'
        BY <1>5, <1>t, <2>1
        DEF AcquireGot, Return, ReturnThen, Goto, IInv, TypeOK, ClerkTypeOK
      <3>2. Val(c) = c
        BY <1>1, <1>5, <1>o, <2>1 DEF AcquireGot, ObjectInv, GetInv
      <3>3. ObjectInv(c)'
        BY <1>2, <3>1, <3>2
        DEF ObjectInv, PcCall, GetInv, PutInv, OwnerInv, ReleasePcs
      <3> QED BY <1>1, <1>2, <1>4, <3>3
    <2>2. CASE call[c].reply.value \notin {c, Empty}
      <3>1. call'[c].st = "idle" /\ pc'[c] = "acqSleep" /\ holding' = holding
        BY <1>5, <1>t, <2>2
        DEF AcquireGot, Return, ReturnThen, Goto, IInv, TypeOK, ClerkTypeOK
      <3>2. ObjectInv(c)'
        BY <1>2, <1>o, <3>1
        DEF ObjectInv, PcCall, GetInv, PutInv, OwnerInv, ReleasePcs, AcquirePcs
      <3> QED BY <1>1, <1>2, <1>4, <3>2
    <2>3. CASE call[c].reply.value = Empty
      <3>1. /\ call'[c] = PutOf(c, c) /\ pc'[c] = "acqPut" /\ holding' = holding
        BY <1>5, <1>t, <2>3 DEF AcquireGot, ReturnThen, Goto, IInv, TypeOK, ClerkTypeOK
      <3>2. /\ call'[c].st = "sent" /\ call'[c].op = "Put" /\ call'[c].key = LockName[c]
            /\ call'[c].value = c /\ call'[c].version = call[c].reply.version
        BY <3>1 DEF PutOf, NewCall
      <3>3. /\ call[c].reply.version \leq Ver(c)
            /\ call[c].reply.version = Ver(c) => Val(c) = Empty
        BY <1>1, <1>5, <1>o, <2>3 DEF AcquireGot, ObjectInv, GetInv
      <3>4. ObjectInv(c)'
        BY <1>2, <1>o, <3>1, <3>2, <3>3
        DEF ObjectInv, PcCall, GetInv, PutInv, OwnerInv, ReleasePcs, AcquirePcs
      <3> QED BY <1>1, <1>2, <1>4, <3>4
    <2> QED BY <1>5, <2>1, <2>2, <2>3
  <1>6. CASE ReleaseGot(c)
    <2>1. CASE call[c].reply.err # OK \/ call[c].reply.value # c
      <3>1. call'[c].st = "idle" /\ pc'[c] = "out" /\ holding' = holding
        BY <1>6, <1>t, <2>1
        DEF ReleaseGot, Return, ReturnThen, Goto, IInv, TypeOK, ClerkTypeOK
      <3>2. Val(c) # c /\ c \notin holding
        BY <1>1, <1>6, <1>o, <2>1 DEF ReleaseGot, ObjectInv, GetInv, OwnerInv, ReleasePcs
      <3>3. ObjectInv(c)'
        BY <1>2, <3>1, <3>2 DEF ObjectInv, PcCall, GetInv, PutInv, OwnerInv, ReleasePcs
      <3> QED BY <1>1, <1>2, <1>4, <3>3
    <2>2. CASE call[c].reply.err = OK /\ call[c].reply.value = c
      <3>1. /\ call'[c] = PutOf(c, Empty) /\ pc'[c] = "relPut" /\ holding' = holding
        BY <1>6, <1>t, <2>2 DEF ReleaseGot, ReturnThen, Goto, IInv, TypeOK, ClerkTypeOK
      <3>2. /\ call'[c].st = "sent" /\ call'[c].op = "Put" /\ call'[c].key = LockName[c]
            /\ call'[c].value = Empty /\ call'[c].version = call[c].reply.version
        BY <3>1 DEF PutOf, NewCall
      <3>3. /\ call[c].reply.version \leq Ver(c)
            /\ call[c].reply.version = Ver(c) => Val(c) = c
            /\ c \notin holding
        BY <1>1, <1>6, <1>o, <2>2 DEF ReleaseGot, ObjectInv, GetInv, OwnerInv, ReleasePcs
      <3>4. PcCall(c)' /\ GetInv(c)' /\ PutInv(c)'
        BY <1>2, <3>1, <3>2, <3>3 DEF PcCall, GetInv, PutInv
      <3>5. Val(c) = c => call[c].reply.version = Ver(c)
        BY <1>1, <1>6, <1>o DEF ReleaseGot, ObjectInv, GetInv
      <3>6. OwnerInv(c)'
        BY <1>2, <3>1, <3>2, <3>3, <3>5 DEF OwnerInv
      <3> QED BY <1>1, <1>2, <1>4, <3>4, <3>6 DEF ObjectInv
    <2> QED BY <1>6, <2>1, <2>2
  <1> QED BY <1>5, <1>6

\* The steps after a Put: whatever was answered, the version is used up.
LEMMA PutDoneStep ==
    ASSUME IInv, NEW c \in Clients, AcquirePutDone(c) \/ ReleasePutDone(c)
    PROVE  (\A d \in Clients : ObjectInv(d)') /\ (\A r \in late' : LateInv(r)')
  <1>t. /\ Ver(c) \in Nat /\ call[c].version \in Nat
        /\ NoCall.st = "idle"
        /\ GetOf(c).st = "sent" /\ GetOf(c).op = "Get" /\ GetOf(c).key = LockName[c]
    BY ObjectTypes, CallTypes DEF IInv, GetOf, NewCall
  <1>o. ObjectInv(c)
    BY DEF IInv
  <1>1. /\ UNCHANGED <<KeyValueItems, late>>
        /\ \A d \in Clients \ {c} : /\ call'[d] = call[d] /\ pc'[d] = pc[d]
                                    /\ d \in holding' <=> d \in holding
        /\ call[c].st = "replied" /\ pc[c] \in {"acqPut", "relPut"}
    BY DEF AcquirePutDone, ReleasePutDone, Return, ReturnThen, Goto, IInv, TypeOK, ClerkTypeOK
  <1>2. /\ Ver(c)' = Ver(c) /\ Val(c)' = Val(c)
        /\ \A d \in Clients \ {c} : ObjectInv(d)'
        /\ \A r \in late : r.clnt # c => LateInv(r)'
    BY <1>1, Frame
  <1>3. /\ call[c].version < Ver(c)
        /\ call[c].reply.err \in {OK, ErrVersion}
        /\ pc[c] = "acqPut" /\ call[c].reply.err = OK => Val(c) = c
    BY <1>1, <1>o DEF ObjectInv, PutInv
  <1>4. \A r \in late : r.clnt = c => LateInv(r)'
    <2> SUFFICES ASSUME NEW r \in late, r.clnt = c PROVE LateInv(r)'
      OBVIOUS
    <2>1. r.version \in Nat /\ LateInv(r)
      BY DEF IInv, TypeOK, ClerkTypeOK, Request
    <2>2. r.version < Ver(c)
      BY <1>1, <1>t, <2>1 DEF LateInv
    <2> QED BY <1>2, <1>t, <2>1, <2>2 DEF LateInv
  <1>5. \/ /\ call'[c].st = "idle" /\ pc'[c] = "out"
           /\ pc[c] = "acqPut" => c \in holding' /\ Val(c) = c
           /\ pc[c] = "relPut" => holding' = holding
        \/ /\ call'[c] = GetOf(c)
           /\ pc'[c] = IF pc[c] = "acqPut" THEN "acqGet" ELSE "relGet"
           /\ holding' = holding
    <2>1. CASE AcquirePutDone(c)
      BY <1>t, <1>3, <2>1
      DEF AcquirePutDone, Return, ReturnThen, Goto, ClerkErr, OK, ErrMaybe, IInv, TypeOK,
          ClerkTypeOK
    <2>2. CASE ReleasePutDone(c)
      BY <1>t, <2>2 DEF ReleasePutDone, Return, ReturnThen, Goto, IInv, TypeOK, ClerkTypeOK
    <2> QED BY <2>1, <2>2
  <1>6. ObjectInv(c)'
    BY <1>t, <1>o, <1>1, <1>2, <1>3, <1>5
    DEF ObjectInv, PcCall, GetInv, PutInv, OwnerInv, AcquirePcs, ReleasePcs
  <1> QED BY <1>1, <1>2, <1>4, <1>6

\* The network's steps: an abandoned request is one its object goes on trying.
LEMMA NetworkInv ==
    ASSUME IInv, NEW c \in Clients, Network(c)
    PROVE  (\A d \in Clients : ObjectInv(d)') /\ (\A r \in late' : LateInv(r)')
  <1>o. ObjectInv(c)
    BY DEF IInv
  <1>1. /\ UNCHANGED <<KeyValueItems, pc, holding>>
        /\ \A d \in Clients \ {c} : call'[d] = call[d]
    BY DEF Network, NetworkStep, DropRequest, LoseReply, Abandon, Retry, IInv, TypeOK,
           ClerkTypeOK
  <1>2. /\ Ver(c)' = Ver(c) /\ Val(c)' = Val(c)
        /\ \A d \in Clients \ {c} : ObjectInv(d)'
        /\ \A r \in late : r.clnt # c => LateInv(r)'
    BY <1>1, Frame
  <1>3. /\ call[c].st # "idle"
        /\ call'[c].st \in {"sent", "failed"}
        /\ call'[c].op = call[c].op /\ call'[c].key = call[c].key
        /\ call'[c].value = call[c].value /\ call'[c].version = call[c].version
    <2>1. call[c] \in CallRecord
      BY ObjectTypes DEF IInv
    <2> QED
      BY <2>1
      DEF Network, NetworkStep, DropRequest, LoseReply, Abandon, Retry, IInv, TypeOK,
          ClerkTypeOK, CallRecord
  <1>4. ObjectInv(c)'
    BY <1>o, <1>1, <1>2, <1>3 DEF ObjectInv, PcCall, GetInv, PutInv, OwnerInv
  <1>5. \A r \in late : r.clnt = c => LateInv(r)'
    BY <1>1, <1>2, <1>3 DEF IInv, LateInv
  <1>6. ASSUME NEW r \in late', r \notin late PROVE LateInv(r)'
    <2>1. /\ call[c].op = "Put" /\ call[c].st = "sent"
          /\ r = [clnt |-> c, key |-> call[c].key, value |-> call[c].value,
                  version |-> call[c].version]
      BY <1>6 DEF Network, NetworkStep, DropRequest, LoseReply, Abandon, Retry
    <2>2. pc[c] \in {"acqPut", "relPut"}
      <3>1. pc[c] \in {"out", "acqGet", "acqSleep", "acqPut", "relGet", "relPut"}
        BY ObjectTypes DEF IInv
      <3> QED BY <1>o, <2>1, <3>1 DEF ObjectInv, PcCall
    <2>3. call[c].key = LockName[c] /\ call[c].version \leq Ver(c)
      BY <1>o, <2>1, <2>2 DEF ObjectInv, PcCall, PutInv
    <2> QED BY <1>1, <1>2, <1>3, <2>1, <2>2, <2>3 DEF LateInv
  <1> QED BY <1>2, <1>4, <1>5, <1>6

-----------------------------------------------------------------------------
\* A Put of object c reaches the server.  If it succeeds the lock was free or
\* c's, so it was nobody else's before and is nobody else's after it.
LEMMA PutFrame ==
    ASSUME IInv, NEW c \in Clients, NEW v \in Values, NEW ver \in Nat,
           handlePut(LockName[c], v, ver),
           ver \leq Ver(c),
           ver = Ver(c) => /\ pc[c] \in {"acqPut", "relPut"}
                           /\ call[c].st # "idle"
                           /\ call[c].version = ver /\ call[c].value = v,
           UNCHANGED <<pc, holding>>,
           \A d \in Clients \ {c} : call'[d] = call[d]
    PROVE  /\ \/ ver # Ver(c) /\ Ver(c)' = Ver(c) /\ Val(c)' = Val(c)
              \/ /\ ver = Ver(c) /\ Ver(c)' = ver + 1 /\ Val(c)' = v
                 /\ \/ pc[c] = "acqPut" /\ v = c /\ Val(c) = Empty
                    \/ pc[c] = "relPut" /\ v = Empty /\ Val(c) = c
           /\ \A d \in Clients \ {c} : ObjectInv(d)'
           /\ \A r \in late : r.clnt # c => LateInv(r)'
  <1>t. \A d \in Clients : /\ Ver(d) \in Nat /\ LockName[d] \in Keys /\ d # Empty
                           /\ call[d].version \in Nat /\ call[d].reply.version \in Nat
    BY ObjectTypes DEF IInv
  <1>1. /\ ver = Ver(c) => Ver(c)' = ver + 1 /\ Val(c)' = v
        /\ ver # Ver(c) => UNCHANGED KeyValueItems
        /\ \A x \in Keys \ {LockName[c]} : CurVersion(x)' = CurVersion(x)
                                           /\ CurValue(x)' = CurValue(x)
    BY <1>t, PutEffect DEF IInv, TypeOK, ClerkTypeOK, Ver, Val
  <1>2. CASE ver # Ver(c)
    <2>1. /\ Ver(c)' = Ver(c) /\ Val(c)' = Val(c)
          /\ \A d \in Clients \ {c} : ObjectInv(d)'
          /\ \A r \in late : r.clnt # c => LateInv(r)'
      BY <1>1, <1>2, Frame
    <2> QED BY <1>2, <2>1
  <1>3. CASE ver = Ver(c)
    <2>1. \/ pc[c] = "acqPut" /\ v = c /\ Val(c) = Empty
          \/ pc[c] = "relPut" /\ v = Empty /\ Val(c) = c
      BY <1>3 DEF IInv, ObjectInv, PcCall, PutInv
    <2>2. ASSUME NEW d \in Clients \ {c}
          PROVE  \/ Ver(d)' = Ver(d) /\ Val(d)' = Val(d)
                 \/ Ver(d)' = Ver(d) + 1 /\ Val(d) # d /\ Val(d)' # d
      <3>1. CASE LockName[d] = LockName[c]
        BY <1>1, <1>3, <1>t, <2>1, <3>1 DEF Ver, Val
      <3>2. CASE LockName[d] # LockName[c]
        BY <1>1, <1>t, <3>2 DEF Ver, Val
      <3> QED BY <3>1, <3>2
    <2>3. ASSUME NEW d \in Clients \ {c} PROVE ObjectInv(d)'
      <3>1. ObjectInv(d)
        BY DEF IInv
      <3>2. CASE Ver(d)' = Ver(d) /\ Val(d)' = Val(d)
        BY <3>1, <3>2 DEF ObjectInv, PcCall, GetInv, PutInv, OwnerInv
      <3>3. CASE Ver(d)' = Ver(d) + 1 /\ Val(d) # d /\ Val(d)' # d
        <4>1. PcCall(d)'
          BY <3>1 DEF ObjectInv, PcCall
        <4>2. GetInv(d)'
          BY <1>t, <3>1, <3>3 DEF ObjectInv, GetInv
        <4>3. PutInv(d)'
          BY <1>t, <3>1, <3>3 DEF ObjectInv, PutInv
        <4>4. OwnerInv(d)'
          BY <3>1, <3>3 DEF ObjectInv, OwnerInv
        <4> QED BY <4>1, <4>2, <4>3, <4>4 DEF ObjectInv
      <3> QED BY <2>2, <3>2, <3>3
    <2>4. ASSUME NEW r \in late, r.clnt # c PROVE LateInv(r)'
      <3>1. r.clnt \in Clients \ {c} /\ r.version \in Nat /\ LateInv(r)
        BY <2>4 DEF IInv, TypeOK, ClerkTypeOK, Request
      <3>2. \/ Ver(r.clnt)' = Ver(r.clnt)
            \/ Ver(r.clnt)' = Ver(r.clnt) + 1
        BY <2>2, <3>1
      <3> QED BY <1>t, <3>1, <3>2 DEF LateInv
    <2> QED BY <1>1, <1>3, <2>1, <2>3, <2>4
  <1> QED BY <1>2, <1>3

\* The handler's step for the call object c is waiting for.
LEMMA HandleInv ==
    ASSUME IInv, NEW c \in Clients, Handle(c)
    PROVE  (\A d \in Clients : ObjectInv(d)') /\ (\A r \in late' : LateInv(r)')
  <1>o. ObjectInv(c)
    BY DEF IInv
  <1>t. /\ Ver(c) \in Nat /\ LockName[c] \in Keys /\ c # Empty
        /\ call[c] \in CallRecord /\ call[c].version \in Nat
        /\ pc[c] \in {"out", "acqGet", "acqSleep", "acqPut", "relGet", "relPut"}
    BY ObjectTypes DEF IInv
  <1>1. /\ UNCHANGED <<late, pc, holding>> /\ call[c].st = "sent"
        /\ \A d \in Clients \ {c} : call'[d] = call[d]
        /\ call'[c].st = "replied"
        /\ call'[c].op = call[c].op /\ call'[c].key = call[c].key
        /\ call'[c].value = call[c].value /\ call'[c].version = call[c].version
    BY <1>t DEF Handle, Execute, IInv, TypeOK, ClerkTypeOK, CallRecord
  <1>2. call[c].key = LockName[c]
    BY <1>o, <1>1 DEF ObjectInv, PcCall
  <1>3. CASE call[c].op = "Get"
    <2>1. UNCHANGED KeyValueItems /\ call'[c].reply = GetReply(LockName[c])
      BY <1>3, <1>t, <1>2 DEF Handle, Execute, IInv, TypeOK, ClerkTypeOK, CallRecord
    <2>2. /\ Ver(c)' = Ver(c) /\ Val(c)' = Val(c)
          /\ \A d \in Clients \ {c} : ObjectInv(d)'
          /\ \A r \in late : r.clnt # c => LateInv(r)'
      BY <1>1, <2>1, Frame
    <2>3. /\ call'[c].reply.version = Ver(c) /\ call'[c].reply.value = Val(c)
          /\ Val(c) # Empty => call'[c].reply.err = OK
      BY <1>t, <2>1, GetReplyType DEF Ver, Val, IInv, TypeOK, ClerkTypeOK
    <2>4. pc[c] \in {"acqGet", "relGet"}
      BY <1>o, <1>t, <1>1, <1>3 DEF ObjectInv, PcCall
    <2>5. ObjectInv(c)'
      BY <1>o, <1>t, <1>1, <2>2, <2>3, <2>4 DEF ObjectInv, PcCall, GetInv, PutInv, OwnerInv
    <2>6. \A r \in late : r.clnt = c => LateInv(r)'
      BY <1>t, <1>1, <2>2, <2>4 DEF IInv, LateInv
    <2> QED BY <1>1, <2>2, <2>5, <2>6
  <1>4. CASE call[c].op = "Put"
    <2>1. /\ handlePut(LockName[c], call[c].value, call[c].version)
          /\ call'[c].reply.err = PutErr(LockName[c], call[c].version)
      BY <1>4, <1>t, <1>2
      DEF Handle, Execute, IInv, TypeOK, ClerkTypeOK, CallRecord, PutReply
    <2>2. call[c].value \in Values
      BY <1>t DEF CallRecord
    <2>3. pc[c] \in {"acqPut", "relPut"} /\ call[c].version \leq Ver(c)
      BY <1>o, <1>t, <1>1, <1>4 DEF ObjectInv, PcCall, PutInv
    <2>4. /\ \/ call[c].version # Ver(c) /\ Ver(c)' = Ver(c) /\ Val(c)' = Val(c)
             \/ /\ call[c].version = Ver(c) /\ Ver(c)' = call[c].version + 1
                /\ Val(c)' = call[c].value
                /\ \/ pc[c] = "acqPut" /\ call[c].value = c /\ Val(c) = Empty
                   \/ pc[c] = "relPut" /\ call[c].value = Empty /\ Val(c) = c
          /\ \A d \in Clients \ {c} : ObjectInv(d)'
          /\ \A r \in late : r.clnt # c => LateInv(r)'
      BY <1>t, <1>1, <2>1, <2>2, <2>3, PutFrame
    <2>5. /\ call'[c].reply.err = OK <=> call[c].version = Ver(c)
          /\ call[c].version < Ver(c) => call'[c].reply.err = ErrVersion
      BY <1>t, <2>1, <2>2, PutEffect DEF Ver, IInv, TypeOK, ClerkTypeOK
    <2>6. call'[c].version < Ver(c)' /\ call'[c].reply.err \in {OK, ErrVersion}
      BY <1>t, <1>1, <2>3, <2>4, <2>5
    <2>7. PcCall(c)' /\ GetInv(c)'
      BY <1>o, <1>1, <2>3 DEF ObjectInv, PcCall, GetInv
    <2>8. PutInv(c)'
      BY <1>t, <1>1, <2>3, <2>4, <2>5, <2>6 DEF PutInv
    <2>9. OwnerInv(c)'
      BY <1>o, <1>t, <1>1, <2>3, <2>4 DEF ObjectInv, OwnerInv, AcquirePcs, ReleasePcs
    <2>10. ASSUME NEW r \in late, r.clnt = c PROVE LateInv(r)'
      <3>1. r.version \in Nat /\ LateInv(r)
        BY DEF IInv, TypeOK, ClerkTypeOK, Request
      <3>2. r.version < Ver(c)'
        BY <1>t, <2>3, <2>4, <2>10, <3>1 DEF LateInv
      <3> QED BY <2>4, <2>10, <3>1, <3>2, <1>t DEF LateInv
    <2> QED BY <1>1, <2>4, <2>7, <2>8, <2>9, <2>10 DEF ObjectInv
  <1> QED BY <1>3, <1>4 DEF Handle, Execute

\* The step of an abandoned Put: if it still succeeds, its object is still in
\* the Clerk with the same request, and will be answered ErrVersion.
LEMMA HandleLateInv ==
    ASSUME IInv, NEW q \in late, HandleLate(q)
    PROVE  (\A d \in Clients : ObjectInv(d)') /\ (\A r \in late' : LateInv(r)')
  <1> DEFINE c == q.clnt
  <1>q. /\ c \in Clients /\ q.value \in Values /\ q.version \in Nat
        /\ LateInv(q)
    BY DEF IInv, TypeOK, ClerkTypeOK, Request
  <1>o. ObjectInv(c)
    BY <1>q DEF IInv
  <1>t. /\ Ver(c) \in Nat /\ c # Empty /\ call[c].version \in Nat
    BY <1>q, ObjectTypes DEF IInv
  <1>1. /\ late' \subseteq late /\ UNCHANGED <<call, pc, holding>>
        /\ handlePut(LockName[c], q.value, q.version)
    BY <1>q DEF HandleLate, ExecuteLate, LateInv
  <1>2. /\ q.version \leq Ver(c)
        /\ q.version = Ver(c) => /\ pc[c] \in {"acqPut", "relPut"}
                                 /\ call[c].st \in {"sent", "failed"}
                                 /\ call[c].version = q.version /\ call[c].value = q.value
    BY <1>q DEF LateInv
  <1>3. /\ \/ q.version # Ver(c) /\ Ver(c)' = Ver(c) /\ Val(c)' = Val(c)
           \/ /\ q.version = Ver(c) /\ Ver(c)' = q.version + 1 /\ Val(c)' = q.value
              /\ \/ pc[c] = "acqPut" /\ q.value = c /\ Val(c) = Empty
                 \/ pc[c] = "relPut" /\ q.value = Empty /\ Val(c) = c
        /\ \A d \in Clients \ {c} : ObjectInv(d)'
        /\ \A r \in late : r.clnt # c => LateInv(r)'
    <2> HIDE DEF c
    <2>1. call[c].st \in {"sent", "failed"} => call[c].st # "idle"
      OBVIOUS
    <2> QED BY <1>q, <1>1, <1>2, <2>1, PutFrame
  <1>4. ObjectInv(c)'
    <2> HIDE DEF c
    <2>1. CASE q.version # Ver(c)
      BY <1>o, <1>1, <1>3, <2>1 DEF ObjectInv, PcCall, GetInv, PutInv, OwnerInv
    <2>2. CASE q.version = Ver(c)
      <3>1. PcCall(c)' /\ GetInv(c)'
        BY <1>o, <1>1, <1>2, <2>2 DEF ObjectInv, PcCall, GetInv
      <3>2. PutInv(c)'
        BY <1>t, <1>1, <1>2, <1>3, <2>2 DEF PutInv
      <3>3. OwnerInv(c)'
        BY <1>o, <1>t, <1>1, <1>2, <1>3, <2>2
        DEF ObjectInv, OwnerInv, AcquirePcs, ReleasePcs
      <3> QED BY <3>1, <3>2, <3>3 DEF ObjectInv
    <2> QED BY <2>1, <2>2
  <1>5. ASSUME NEW r \in late, r.clnt = c PROVE LateInv(r)'
    <2>1. r.version \in Nat /\ LateInv(r)
      BY DEF IInv, TypeOK, ClerkTypeOK, Request
    <2>2. Ver(c)' = Ver(c) \/ r.version < Ver(c)'
      BY <1>t, <1>3, <1>5, <2>1 DEF LateInv
    <2>3. Ver(c)' \in Nat
      BY <1>t, <1>q, <1>3
    <2> QED BY <1>1, <1>5, <2>1, <2>2, <2>3, <1>t DEF LateInv
  <1> QED BY <1>1, <1>3, <1>4, <1>5

-----------------------------------------------------------------------------
\* No lock object has been called yet, and no key exists.
LEMMA InitIInv == Init => IInv
  <1> SUFFICES ASSUME Init PROVE IInv
    OBVIOUS
  <1>1. DOMAIN KeyValueItems = {} /\ call = [c \in Clients |-> NoCall] /\ late = {}
    BY DEF Init, ClerkInit, MakeKVServer
  <1>2. TypeOK /\ ItemsPositive
    BY <1>1, CallTypes, MaxCallsAssumption
    DEF Init, ClerkInit, MakeKVServer, TypeOK, ClerkTypeOK, ServerTypeOK, ItemsPositive,
        AcquirePcs, ReleasePcs
  <1>3. ASSUME NEW c \in Clients PROVE ObjectInv(c)
    <2>1. call[c].st = "idle" /\ pc[c] = "out" /\ c \notin holding /\ c # Empty
      BY <1>1, CallTypes, IdAssumption DEF Init
    <2>2. Val(c) = Empty
      BY <1>1 DEF Val, CurValue, GetReply, Present
    <2> QED
      BY <2>1, <2>2 DEF ObjectInv, PcCall, GetInv, PutInv, OwnerInv
  <1> QED BY <1>1, <1>2, <1>3 DEF IInv

\* Every step of an object, of the network and of an abandoned handler keeps the
\* invariant.
LEMMA NextIInv == IInv /\ [Next]_vars => IInv'
  <1> SUFFICES ASSUME IInv, [Next]_vars PROVE IInv'
    OBVIOUS
  <1>1. TypeOK' /\ ItemsPositive'
    BY TypeStep DEF IInv
  <1>2. CASE UNCHANGED vars
    <2>1. \A c \in Clients : ObjectInv(c)'
      BY <1>2
      DEF vars, IInv, ObjectInv, PcCall, GetInv, PutInv, OwnerInv, Ver, Val, CurVersion,
          CurValue, GetReply, Present
    <2>2. \A r \in late' : LateInv(r)'
      BY <1>2 DEF vars, IInv, LateInv, Ver, CurVersion, GetReply, Present
    <2> QED BY <1>1, <2>1, <2>2 DEF IInv
  <1>3. CASE Next
    <2>1. (\A d \in Clients : ObjectInv(d)') /\ (\A r \in late' : LateInv(r)')
      BY <1>3, BeginStep, GotStep, PutDoneStep, NetworkInv, HandleInv, HandleLateInv
      DEF Next, Proceed
    <2> QED BY <1>1, <2>1 DEF IInv
  <1> QED BY <1>2, <1>3

\* The type invariant holds in every reachable state, for any set of lock
\* objects, names and values.
THEOREM TypeCorrect == Spec => []TypeOK
  <1>1. IInv => TypeOK
    BY DEF IInv
  <1> QED BY <1>1, InitIInv, NextIInv, PTL DEF Spec

\* Ownership is what the server says (Acquire, handlePut): the key of a lock an
\* application owns holds that application's Id, whatever requests of others are
\* resent, abandoned or executed late.
THEOREM OwnerOnServerAlways == Spec => []OwnerOnServer
  <1>1. IInv => OwnerOnServer
    BY DEF IInv, TypeOK, ObjectInv, OwnerInv, OwnerOnServer, Val
  <1> QED BY <1>1, InitIInv, NextIInv, PTL DEF Spec

\* Mutual exclusion of Acquire and Release, for any number of clients, any
\* number of lock names, any network and any number of calls.
THEOREM MutualExclusionAlways == Spec => []MutualExclusion
  <1>1. IInv => MutualExclusion
    BY DEF IInv, TypeOK, ObjectInv, OwnerInv, MutualExclusion, Val
  <1> QED BY <1>1, InitIInv, NextIInv, PTL DEF Spec

\* An application that has released a lock, or never acquired it, is not its
\* owner on the server either: ErrMaybe from the Put of Release does mean it
\* happened, and no abandoned Put of Acquire takes the lock later.
THEOREM NoGhostOwnerAlways == Spec => []NoGhostOwner
  <1>1. IInv => NoGhostOwner
    BY DEF IInv, ObjectInv, OwnerInv, NoGhostOwner, Val, AcquirePcs
  <1> QED BY <1>1, InitIInv, NextIInv, PTL DEF Spec
=============================================================================
