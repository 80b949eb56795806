------------------------------ MODULE KVProofs ------------------------------
(***************************************************************************)
(* The key/value service as its callers see it, in two parts: any Clerk    *)
(* operations (KVStore), and the clients of the tests (KVTest).  The       *)
(* assumption of KVTest that there are finitely many clients, and at least *)
(* one, is used in the second part only.                                   *)
(*                                                                         *)
(* Part one: what Clerk.Put's answers mean, for any number of concurrent   *)
(* operations, keys, values and versions, over a network that loses and    *)
(* abandons calls.                                                         *)
(*                                                                         *)
(* The invariant has three parts.  Provenance ties every request, waiting  *)
(* or left behind, to the operation it was made for.  History says that    *)
(* the versions below a key's current one are exactly those some Put has   *)
(* produced, one Put each; a Put succeeds on the current version only, so  *)
(* it cannot succeed twice.  Answers says what is known of an operation    *)
(* from the reply of its last handler.                                     *)
(***************************************************************************)
EXTENDS KVStore, KVTest, KVClerkProofs, FiniteSetTheorems

\* c's request in a processReq nobody waits for.
LeftBehind(c) == \E r \in late : r.clnt = c

Provenance(c) ==
    /\ input[c].op = "none" =>
          /\ call[c].st = "idle" /\ applied[c] = 0 /\ result[c].err = NoErr
          /\ ~LeftBehind(c)
    /\ call[c].st # "idle" =>
          /\ call[c].op = input[c].op /\ call[c].key = input[c].key
          /\ call[c].value = input[c].value /\ call[c].version = input[c].version
          /\ result[c].err = NoErr
          /\ call[c].retried => call[c].op = "Put"
    /\ \A r \in late : r.clnt = c =>
          /\ input[c].op = "Put" /\ r.key = input[c].key
          /\ r.value = input[c].value /\ r.version = input[c].version

\* Passed: the key of c's Put has gone beyond the version it was given.
Passed(c) == input[c].version < CurVersion(input[c].key)

History ==
    /\ \A c \in Clients :
          /\ applied[c] \leq 1
          /\ applied[c] = 1 => input[c].op = "Put" /\ Passed(c)
    /\ \A c, d \in Clients :
          applied[c] = 1 /\ applied[d] = 1 /\ input[c].key = input[d].key
            /\ input[c].version = input[d].version => c = d
    /\ \A k \in Keys : \A ver \in 0..(CurVersion(k) - 1) :
          \E c \in Clients : Won(c, k, ver)

\* Until the first retry nothing of c has been tried but the call at hand.
Answers(c) ==
    /\ input[c].reached => input[c].version \leq CurVersion(input[c].key)
    /\ call[c].st # "idle" /\ ~call[c].retried /\ call[c].st # "failed" => ~LeftBehind(c)
    /\ call[c].st = "sent" /\ ~call[c].retried => applied[c] = 0
    /\ call[c].st = "replied" =>
          /\ call[c].reply.err \in {OK, ErrNoKey, ErrVersion}
          /\ call[c].reply.err = ErrVersion =>
                /\ call[c].op = "Put"
                /\ ~call[c].retried => applied[c] = 0
                /\ input[c].reached => Passed(c)
          /\ call[c].op = "Put" =>
                /\ call[c].reply.err = OK => applied[c] = 1
                /\ call[c].reply.err = ErrNoKey => ~input[c].reached
    /\ result[c].err = ErrMaybe /\ input[c].reached => Passed(c)
    /\ input[c].op = "Put" =>
          /\ result[c].err = OK => applied[c] = 1
          /\ result[c].err = ErrNoKey => ~input[c].reached
          /\ result[c].err = ErrVersion => applied[c] = 0 /\ ~LeftBehind(c)

\* The inductive invariant.
IInv ==
    /\ TypeOK
    /\ ItemsPositive
    /\ History
    /\ \A c \in Clients : Provenance(c) /\ Answers(c)

-----------------------------------------------------------------------------
\* The four error values are different.
LEMMA ErrValues ==
    /\ {OK, ErrNoKey, ErrVersion} \subseteq Err /\ ErrMaybe \in Err /\ NoErr \in Err
    /\ OK # ErrNoKey /\ OK # ErrVersion /\ OK # ErrMaybe /\ OK # NoErr
    /\ ErrNoKey # ErrVersion /\ ErrNoKey # ErrMaybe /\ ErrNoKey # NoErr
    /\ ErrVersion # ErrMaybe /\ ErrVersion # NoErr /\ ErrMaybe # NoErr
  BY DEF Err, NoErr, OK, ErrNoKey, ErrVersion, ErrMaybe

\* handlePut answers ErrNoKey only to a version the key has not reached.
LEMMA PutErrNoKey ==
    ASSUME NEW k \in Keys, NEW ver \in Nat, PutErr(k, ver) = ErrNoKey
    PROVE  CurVersion(k) < ver
  BY DEF PutErr, CurVersion, GetReply, Present, OK, ErrNoKey, ErrVersion

\* What the types give for one operation.
LEMMA ClientTypes ==
    ASSUME TypeOK, NEW c \in Clients
    PROVE  /\ call[c] \in CallRecord /\ input[c] \in Input
           /\ input[c].key \in Keys /\ input[c].value \in Values
           /\ input[c].version \in Nat /\ input[c].reached \in BOOLEAN
           /\ call[c].key \in Keys /\ call[c].value \in Values
           /\ call[c].version \in Nat /\ call[c].retried \in BOOLEAN
           /\ call[c].reply \in Reply
           /\ applied[c] \in Nat /\ CurVersion(input[c].key) \in Nat
  BY GetReplyType DEF TypeOK, ClerkTypeOK, CallRecord, Input, Reply

\* An operation that a step does not touch keeps what is known of it: versions
\* only grow, and no request is left behind in its name.
LEMMA Untouched ==
    ASSUME TypeOK, NEW c \in Clients, Provenance(c), Answers(c),
           input'[c] = input[c], call'[c] = call[c],
           applied'[c] = applied[c], result'[c] = result[c],
           \A r \in late' : r.clnt = c => r \in late,
           \A k \in Keys : CurVersion(k)' \in Nat /\ CurVersion(k) \leq CurVersion(k)'
    PROVE  Provenance(c)' /\ Answers(c)'
  <1>1. LeftBehind(c)' => LeftBehind(c)
    BY DEF LeftBehind
  <1>2. Provenance(c)'
    BY <1>1 DEF Provenance
  <1>3. /\ CurVersion(input[c].key)' \in Nat
        /\ CurVersion(input[c].key) \leq CurVersion(input[c].key)'
        /\ CurVersion(input[c].key) \in Nat /\ input[c].version \in Nat
    BY ClientTypes
  <1>4. Passed(c) => Passed(c)'
    BY <1>3 DEF Passed
  <1>5. /\ input'[c].reached => input'[c].version \leq CurVersion(input[c].key)'
        /\ input'[c] = input[c]
    BY <1>3 DEF Answers
  <1> QED BY <1>1, <1>2, <1>4, <1>5 DEF Answers

\* A step that leaves the map and the history of the operations alone keeps
\* History.
LEMMA SameHistory ==
    ASSUME TypeOK, ItemsPositive, History,
           UNCHANGED <<KeyValueItems, applied>>,
           \A c \in Clients : applied[c] = 1 => input'[c] = input[c]
    PROVE  History'
  <1>1. \A k \in Keys : CurVersion(k)' = CurVersion(k)
    BY SameItems DEF TypeOK, ClerkTypeOK
  <1>2. \A c \in Clients : applied[c] \in Nat /\ applied[c] \leq 1 /\ input[c].key \in Keys
    BY ClientTypes DEF History
  <1>3. \A c \in Clients : /\ applied'[c] \leq 1
                           /\ applied'[c] = 1 => input'[c].op = "Put" /\ Passed(c)'
    BY <1>1, <1>2 DEF History, Passed
  <1>4. \A c, d \in Clients :
          applied'[c] = 1 /\ applied'[d] = 1 /\ input'[c].key = input'[d].key
            /\ input'[c].version = input'[d].version => c = d
    BY DEF History
  <1>5. ASSUME NEW k \in Keys, NEW ver \in 0..(CurVersion(k)' - 1)
        PROVE  \E c \in Clients : Won(c, k, ver)'
    <2>1. PICK c \in Clients : Won(c, k, ver)
      BY <1>1, <1>5 DEF History
    <2>2. applied[c] = 1
      BY <1>2, <2>1 DEF Won
    <2> QED BY <2>1, <2>2 DEF Won
  <1> QED BY <1>3, <1>4, <1>5 DEF History

\* The execution of c's Put, waited for or not.  It succeeds on the current
\* version, which no Put has succeeded on yet.
LEMMA PutStep ==
    ASSUME TypeOK, ItemsPositive, History,
           NEW c \in Clients, NEW k \in Keys, NEW v \in Values, NEW ver \in Nat,
           input[c].op = "Put", input[c].key = k, input[c].version = ver,
           handlePut(k, v, ver), RecordPut(c, k, ver), UNCHANGED input
    PROVE  /\ History'
           /\ applied' \in [Clients -> Nat] /\ output' \in [Clients -> Reply]
           /\ \A x \in Keys : CurVersion(x)' \in Nat /\ CurVersion(x) \leq CurVersion(x)'
           /\ \A d \in Clients \ {c} : applied'[d] = applied[d]
           /\ PutErr(k, ver) = OK => applied'[c] = 1 /\ applied[c] = 0
           /\ PutErr(k, ver) # OK => applied'[c] = applied[c]
           /\ PutErr(k, ver) = ErrNoKey => CurVersion(k) < ver
           /\ PutErr(k, ver) = ErrVersion => ver # CurVersion(k)
  <1>1. ServerTypeOK
    BY DEF TypeOK, ClerkTypeOK
  <1>2. \A x \in Keys : CurVersion(x) \in Nat
    BY <1>1, GetReplyType
  <1>3. /\ PutErr(k, ver) \in {OK, ErrNoKey, ErrVersion}
        /\ PutErr(k, ver) = OK <=> ver = CurVersion(k)
        /\ ver = CurVersion(k) => CurVersion(k)' = ver + 1
        /\ ver # CurVersion(k) => UNCHANGED KeyValueItems
        /\ \A x \in Keys \ {k} : CurVersion(x)' = CurVersion(x)
    BY <1>1, PutEffect
  <1>4. /\ applied \in [Clients -> Nat] /\ output \in [Clients -> Reply]
        /\ \A d \in Clients : applied[d] \in Nat /\ applied[d] \leq 1
    BY DEF TypeOK, History
  <1>5. /\ applied' = [applied EXCEPT ![c] = IF PutErr(k, ver) = OK THEN applied[c] + 1
                                             ELSE applied[c]]
        /\ applied' \in [Clients -> Nat]
    BY <1>4 DEF RecordPut
  <1>6. output' \in [Clients -> Reply]
    <2>1. PutErr(k, ver) \in Err
      BY <1>3, ErrValues
    <2>2. output[c] \in Reply /\ [output[c] EXCEPT !.err = PutErr(k, ver)] \in Reply
      BY <1>4, <2>1 DEF Reply
    <2> QED BY <1>4, <2>2 DEF RecordPut
  <1>7. \A x \in Keys : CurVersion(x)' \in Nat /\ CurVersion(x) \leq CurVersion(x)'
    <2>1. UNCHANGED KeyValueItems => CurVersion(k)' = CurVersion(k)
      BY DEF CurVersion, GetReply, Present
    <2> QED BY <1>2, <1>3, <2>1
  <1>8. /\ PutErr(k, ver) = ErrNoKey => CurVersion(k) < ver
        /\ PutErr(k, ver) = ErrVersion => ver # CurVersion(k)
    BY <1>3, PutErrNoKey, ErrValues
  <1>9. CASE ver # CurVersion(k)
    <2>1. UNCHANGED <<KeyValueItems, applied>>
      BY <1>3, <1>4, <1>5, <1>9
    <2> QED BY <1>3, <1>5, <1>6, <1>7, <1>8, <1>9, <2>1, SameHistory
  <1>10. CASE ver = CurVersion(k)
    <2>1. applied[c] = 0
      BY <1>2, <1>4, <1>10 DEF History, Passed
    <2>2. /\ applied'[c] = 1
          /\ \A d \in Clients \ {c} : applied'[d] = applied[d]
          /\ CurVersion(k)' = ver + 1
      BY <1>3, <1>4, <1>5, <1>10, <2>1
    <2>3. \A d \in Clients : input[d].key \in Keys /\ input[d].version \in Nat
      BY ClientTypes
    <2>4. \A d \in Clients : applied'[d] = 1 => input'[d].op = "Put" /\ Passed(d)'
      <3>1. ASSUME NEW d \in Clients \ {c}, applied[d] = 1
            PROVE  input'[d].op = "Put" /\ Passed(d)'
        <4>1. CurVersion(input[d].key) \leq CurVersion(input[d].key)'
          BY <1>7, <2>3
        <4>2. input[d].op = "Put" /\ Passed(d)
          BY <3>1 DEF History
        <4> QED BY <1>2, <1>7, <2>3, <4>1, <4>2 DEF Passed
      <3>2. input'[c].op = "Put" /\ Passed(c)'
        BY <2>2 DEF Passed
      <3> QED BY <2>2, <3>1, <3>2
    <2>5. \A d \in Clients : applied'[d] \leq 1
      BY <1>4, <2>2
    <2>6. ASSUME NEW d \in Clients \ {c}, applied[d] = 1,
                 input[d].key = k, input[d].version = ver
          PROVE  FALSE
      BY <1>2, <1>10, <2>6 DEF History, Passed
    <2>7. \A d, e \in Clients :
            applied'[d] = 1 /\ applied'[e] = 1 /\ input'[d].key = input'[e].key
              /\ input'[d].version = input'[e].version => d = e
      BY <2>2, <2>6 DEF History
    <2>8. ASSUME NEW x \in Keys, NEW w \in 0..(CurVersion(x)' - 1)
          PROVE  \E d \in Clients : Won(d, x, w)'
      <3>1. CASE w \in 0..(CurVersion(x) - 1)
        <4>1. PICK d \in Clients : Won(d, x, w)
          BY <3>1 DEF History
        <4>2. applied'[d] > 0
          BY <1>4, <2>2, <4>1 DEF Won
        <4> QED BY <4>1, <4>2 DEF Won
      <3>2. CASE w \notin 0..(CurVersion(x) - 1)
        <4>1. x = k /\ w = ver
          BY <1>2, <1>3, <1>10, <2>2, <2>8, <3>2
        <4> QED BY <2>2, <4>1 DEF Won
      <3> QED BY <3>1, <3>2
    <2>9. History'
      BY <2>4, <2>5, <2>7, <2>8 DEF History
    <2> QED BY <1>3, <1>5, <1>6, <1>7, <1>8, <2>1, <2>2, <2>9
  <1> QED BY <1>9, <1>10

-----------------------------------------------------------------------------
\* The start of an operation, with the arguments of its Clerk method.
LEMMA InvokeStep ==
    ASSUME IInv, NEW c \in Clients, NEW op \in {"Get", "Put"}, NEW k \in Keys,
           NEW v \in Values, NEW ver \in Nat, NEW b \in BOOLEAN,
           input[c].op = "none",
           b => ver \leq CurVersion(k),
           call' = [call EXCEPT ![c] = NewCall(op, k, v, ver)],
           input' = [input EXCEPT ![c] = [op |-> op, key |-> k, value |-> v,
                                          version |-> ver, reached |-> b]],
           UNCHANGED <<KeyValueItems, late, applied, output, result>>
    PROVE  IInv'
  <1>1. TypeOK /\ ItemsPositive /\ History /\ Provenance(c) /\ Answers(c)
    BY DEF IInv
  <1>2. /\ ServerTypeOK' /\ ItemsPositive'
        /\ \A x \in Keys : CurVersion(x)' = CurVersion(x) /\ CurVersion(x) \in Nat
    BY <1>1, SameItems, GetReplyType DEF TypeOK, ClerkTypeOK
  <1>3. TypeOK'
    BY <1>1, <1>2, CallTypes DEF TypeOK, ClerkTypeOK, Input
  <1>4. applied[c] = 0 /\ result[c].err = NoErr /\ ~LeftBehind(c)
    BY <1>1 DEF Provenance
  <1>5. History'
    BY <1>1, <1>4, SameHistory DEF TypeOK
  <1>6. \A d \in Clients \ {c} : Provenance(d)' /\ Answers(d)'
    BY <1>1, <1>2, Untouched DEF TypeOK, ClerkTypeOK, IInv
  <1>7. /\ call'[c] = NewCall(op, k, v, ver)
        /\ input'[c] = [op |-> op, key |-> k, value |-> v, version |-> ver, reached |-> b]
        /\ ~LeftBehind(c)'
    BY <1>1, <1>4 DEF TypeOK, ClerkTypeOK, LeftBehind
  <1>8. Provenance(c)'
    BY <1>4, <1>7 DEF Provenance, NewCall, LeftBehind
  <1>9. Answers(c)'
    <2>1. /\ call'[c].st = "sent" /\ applied'[c] = 0 /\ result'[c].err = NoErr
          /\ input'[c].reached => input'[c].version \leq CurVersion(k)'
      BY <1>2, <1>4, <1>7 DEF NewCall
    <2>2. CurVersion(input[c].key)' = CurVersion(k)'
      BY <1>7 DEF CurVersion, GetReply, Present
    <2> QED BY <1>7, <2>1, <2>2, ErrValues DEF Answers
  <1> QED BY <1>2, <1>3, <1>5, <1>6, <1>8, <1>9 DEF IInv

\* The steps of the network.
LEMMA NetworkInv ==
    ASSUME IInv, NEW c \in Clients, Network(c)
    PROVE  IInv'
  <1>1. /\ TypeOK /\ ItemsPositive /\ History /\ Provenance(c) /\ Answers(c)
        /\ UNCHANGED <<KeyValueItems, input, applied, output, result>>
        /\ NetworkStep(c)
    BY DEF IInv, Network, opVars, NetworkStep, DropRequest, LoseReply, Abandon, Retry
  <1>2. /\ ServerTypeOK' /\ ItemsPositive'
        /\ \A x \in Keys : CurVersion(x)' = CurVersion(x) /\ CurVersion(x) \in Nat
    BY <1>1, SameItems, GetReplyType DEF TypeOK, ClerkTypeOK
  <1>3. TypeOK'
    BY <1>1, NetworkTypes DEF TypeOK
  <1>4. History'
    BY <1>1, SameHistory
  <1>5. /\ call \in [Clients -> CallRecord]
        /\ \A d \in Clients \ {c} : call'[d] = call[d]
        /\ \A r \in late' : r \in late \/ r.clnt = c
    BY <1>1 DEF TypeOK, ClerkTypeOK, NetworkStep, DropRequest, LoseReply, Abandon, Retry
  <1>6. \A d \in Clients \ {c} : Provenance(d)' /\ Answers(d)'
    BY <1>1, <1>2, <1>5, Untouched DEF IInv
  <1>7. /\ call'[c].op = call[c].op /\ call'[c].key = call[c].key
        /\ call'[c].value = call[c].value /\ call'[c].version = call[c].version
        /\ call[c].st \in {"sent", "replied", "failed"}
        /\ call'[c].st \in {"sent", "failed"}
        /\ call'[c].retried \in {call[c].retried, call[c].op = "Put"}
        /\ call'[c].st = "sent" =>
              UNCHANGED late /\ call'[c].retried = (call[c].op = "Put")
    BY <1>1, <1>5
    DEF CallRecord, NetworkStep, DropRequest, LoseReply, Abandon, Retry
  <1>8. \A r \in late' : r \in late \/
            /\ r.clnt = c /\ call[c].op = "Put" /\ r.key = call[c].key
            /\ r.value = call[c].value /\ r.version = call[c].version
    BY <1>1 DEF NetworkStep, DropRequest, LoseReply, Abandon, Retry
  <1>9. Provenance(c)'
    BY <1>1, <1>7, <1>8 DEF Provenance
  <1>10. call'[c].st = "sent" /\ ~call'[c].retried => applied[c] = 0 /\ ~LeftBehind(c)'
    <2>1. SUFFICES ASSUME call[c].op # "Put", UNCHANGED late
                   PROVE  applied[c] = 0 /\ ~LeftBehind(c)
      BY <1>7 DEF LeftBehind
    <2>2. input[c].op # "Put"
      BY <1>1, <1>7, <2>1 DEF Provenance
    <2>3. applied[c] \in Nat /\ applied[c] \leq 1 /\ applied[c] # 1
      BY <1>1, <2>2, ClientTypes DEF History
    <2> QED BY <1>1, <2>2, <2>3 DEF Provenance, LeftBehind
  <1>11. result[c].err = NoErr /\ call[c].st # "idle"
    BY <1>1, <1>7 DEF Provenance
  <1>12. Answers(c)'
    <2>1. input[c].key \in Keys
      BY <1>1, ClientTypes
    <2>2. input'[c].reached => input'[c].version \leq CurVersion(input[c].key)'
      BY <1>1, <1>2, <2>1 DEF Answers
    <2> QED BY <1>1, <1>7, <1>10, <1>11, <2>2, ErrValues DEF Answers
  <1> QED BY <1>2, <1>3, <1>4, <1>6, <1>9, <1>12 DEF IInv

\* The return of a Clerk method.
LEMMA FinishInv ==
    ASSUME IInv, NEW c \in Clients, Finish(c)
    PROVE  IInv'
  <1>1. /\ TypeOK /\ ItemsPositive /\ History /\ Provenance(c) /\ Answers(c)
        /\ UNCHANGED <<KeyValueItems, late, input, applied, output>>
        /\ call[c].st = "replied" /\ call' = [call EXCEPT ![c] = NoCall]
        /\ result' = [result EXCEPT ![c] = [call[c].reply EXCEPT !.err = ClerkErr(c)]]
    BY DEF IInv, Finish, Return, ReturnThen
  <1>2. /\ ServerTypeOK' /\ ItemsPositive'
        /\ \A x \in Keys : CurVersion(x)' = CurVersion(x) /\ CurVersion(x) \in Nat
    BY <1>1, SameItems, GetReplyType DEF TypeOK, ClerkTypeOK
  <1>3. /\ call[c].reply \in Reply
        /\ call[c].reply.err \in {OK, ErrNoKey, ErrVersion}
    BY <1>1, ClientTypes DEF Answers
  <1>4. ClerkErr(c) \in Err
    BY <1>3, ErrValues DEF ClerkErr
  <1>5. [call[c].reply EXCEPT !.err = ClerkErr(c)] \in Reply
    BY <1>3, <1>4 DEF Reply
  <1>6. TypeOK'
    BY <1>1, <1>2, <1>5, CallTypes DEF TypeOK, ClerkTypeOK
  <1>7. History'
    BY <1>1, SameHistory
  <1>8. \A d \in Clients \ {c} : Provenance(d)' /\ Answers(d)'
    BY <1>1, <1>2, Untouched DEF IInv, TypeOK, ClerkTypeOK
  <1>9. call'[c].st = "idle" /\ result'[c].err = ClerkErr(c) /\ input[c].op # "none"
    BY <1>1, <1>3, CallTypes DEF TypeOK, ClerkTypeOK, Reply, Provenance
  <1>10. Provenance(c)'
    BY <1>1, <1>9 DEF Provenance
  <1>11. Answers(c)'
    <2>1. /\ LeftBehind(c)' <=> LeftBehind(c)
          /\ Passed(c)' <=> Passed(c)
          /\ input'[c].reached => input'[c].version \leq CurVersion(input[c].key)'
      BY <1>1, <1>2, ClientTypes DEF LeftBehind, Passed, Answers
    <2>2. /\ ClerkErr(c) = ErrMaybe => call[c].reply.err = ErrVersion
          /\ ClerkErr(c) = ErrVersion => call[c].reply.err = ErrVersion /\ ~call[c].retried
          /\ ClerkErr(c) = OK => call[c].reply.err = OK
          /\ ClerkErr(c) = ErrNoKey => call[c].reply.err = ErrNoKey
      BY <1>3, ErrValues DEF ClerkErr
    <2>3. call[c].op = input[c].op
      BY <1>1 DEF Provenance
    <2> QED BY <1>1, <1>9, <2>1, <2>2, <2>3 DEF Answers
  <1> QED BY <1>2, <1>6, <1>7, <1>8, <1>10, <1>11 DEF IInv

\* A handler that runs while its caller waits.
LEMMA HandleInv ==
    ASSUME IInv, NEW c \in Clients, Handle(c)
    PROVE  IInv'
  <1>1. /\ TypeOK /\ ItemsPositive /\ History /\ Provenance(c) /\ Answers(c)
        /\ Execute(c) /\ call[c].st = "sent"
        /\ UNCHANGED <<late, input, result>>
        /\ \A d \in Clients \ {c} : Provenance(d) /\ Answers(d)
    BY DEF IInv, Handle, Execute
  <1>2. ClerkTypeOK' /\ ItemsPositive'
    BY <1>1, ExecuteTypes DEF TypeOK
  <1>3. /\ call[c].op = input[c].op /\ call[c].key = input[c].key
        /\ call[c].value = input[c].value /\ call[c].version = input[c].version
        /\ result[c].err = NoErr
        /\ call[c].retried => call[c].op = "Put"
    BY <1>1 DEF Provenance
  <1>4. /\ call \in [Clients -> CallRecord] /\ call[c] \in CallRecord
        /\ call[c].key \in Keys /\ call[c].value \in Values /\ call[c].version \in Nat
    BY <1>1, ClientTypes DEF TypeOK, ClerkTypeOK
  <1>5. /\ call'[c].st = "replied" /\ call'[c].op = call[c].op
        /\ call'[c].key = call[c].key /\ call'[c].value = call[c].value
        /\ call'[c].version = call[c].version /\ call'[c].retried = call[c].retried
        /\ \A d \in Clients \ {c} : call'[d] = call[d]
    BY <1>1, <1>4 DEF Execute, CallRecord
  <1>6. Provenance(c)'
    BY <1>1, <1>3, <1>5 DEF Provenance
  <1>7. LeftBehind(c)' <=> LeftBehind(c)
    BY <1>1 DEF LeftBehind
  <1>8. CASE call[c].op = "Get"
    <2>1. /\ UNCHANGED <<KeyValueItems, applied>>
          /\ output' = [output EXCEPT ![c] = GetReply(call[c].key)]
          /\ call'[c].reply = GetReply(call[c].key)
      BY <1>1, <1>4, <1>8 DEF Handle, Execute, CallRecord
    <2>2. \A x \in Keys : CurVersion(x)' = CurVersion(x) /\ CurVersion(x) \in Nat
      BY <1>1, <2>1, SameItems, GetReplyType DEF TypeOK, ClerkTypeOK
    <2>3. History'
      BY <1>1, <2>1, SameHistory
    <2>4. GetReply(call[c].key) \in Reply /\ GetReply(call[c].key).err \in {OK, ErrNoKey}
      BY <1>1, <1>4, GetReplyType DEF TypeOK, ClerkTypeOK, Reply, GetReply
    <2>5. TypeOK'
      BY <1>1, <1>2, <2>1, <2>4 DEF TypeOK
    <2>6. \A d \in Clients \ {c} : Provenance(d)' /\ Answers(d)'
      BY <1>1, <1>5, <2>1, <2>2, Untouched DEF IInv
    <2>7. Answers(c)'
      <3>1. input'[c].reached => input'[c].version \leq CurVersion(input[c].key)'
        BY <1>1, <1>3, <1>4, <2>2 DEF Answers
      <3> QED
        BY <1>1, <1>3, <1>5, <1>7, <1>8, <2>1, <2>4, <3>1, ErrValues DEF Answers
    <2> QED BY <1>2, <1>6, <2>3, <2>5, <2>6, <2>7 DEF IInv
  <1>9. CASE call[c].op = "Put"
    <2>0. PICK k \in Keys, v \in Values, ver \in Nat :
              k = call[c].key /\ v = call[c].value /\ ver = call[c].version
      BY <1>4
    <2>1. handlePut(k, v, ver) /\ RecordPut(c, k, ver)
          /\ call'[c].reply.err = PutErr(k, ver)
      BY <1>1, <1>4, <1>9, <2>0 DEF Handle, Execute, CallRecord, PutReply
    <2>2. /\ History'
          /\ applied' \in [Clients -> Nat] /\ output' \in [Clients -> Reply]
          /\ \A x \in Keys : CurVersion(x)' \in Nat /\ CurVersion(x) \leq CurVersion(x)'
          /\ \A d \in Clients \ {c} : applied'[d] = applied[d]
          /\ PutErr(k, ver) = OK => applied'[c] = 1 /\ applied[c] = 0
          /\ PutErr(k, ver) # OK => applied'[c] = applied[c]
          /\ PutErr(k, ver) = ErrNoKey => CurVersion(k) < ver
          /\ PutErr(k, ver) = ErrVersion => ver # CurVersion(k)
      <3>1. input[c].op = "Put" /\ input[c].key = k /\ input[c].version = ver
        BY <1>3, <1>9, <2>0
      <3>2. TypeOK /\ ItemsPositive /\ History /\ UNCHANGED input
        BY <1>1
      <3> QED BY <2>1, <3>1, <3>2, PutStep
    <2>3. TypeOK'
      BY <1>1, <1>2, <2>2 DEF TypeOK
    <2>4. \A d \in Clients \ {c} : Provenance(d)' /\ Answers(d)'
      BY <1>1, <1>5, <2>2, Untouched
    <2>5. CurVersion(k) \in Nat /\ CurVersion(k)' \in Nat /\ CurVersion(k) \leq CurVersion(k)'
      BY <1>1, <2>2, GetReplyType DEF TypeOK, ClerkTypeOK
    <2>6. PutErr(k, ver) \in {OK, ErrNoKey, ErrVersion}
      BY <1>1, <2>1, PutEffect DEF TypeOK, ClerkTypeOK
    <2>7. /\ input[c].reached => ver \leq CurVersion(k)
          /\ input'[c].reached => input'[c].version \leq CurVersion(k)'
          /\ input'[c].key = k
      BY <1>1, <1>3, <2>0, <2>5 DEF Answers
    <2>8. PutErr(k, ver) = ErrVersion /\ input[c].reached => Passed(c)'
      BY <1>1, <1>3, <2>0, <2>2, <2>5, <2>7 DEF Passed
    <2>9. PutErr(k, ver) = ErrNoKey => ~input[c].reached
      BY <2>2, <2>5, <2>7
    <2>10. Answers(c)'
      BY <1>1, <1>3, <1>5, <1>7, <1>9, <2>1, <2>2, <2>6, <2>7, <2>8, <2>9, ErrValues
      DEF Answers
    <2> QED BY <1>2, <1>6, <2>2, <2>3, <2>4, <2>10 DEF IInv
  <1> QED BY <1>1, <1>8, <1>9 DEF Execute

\* A handler that nobody waits for any more.
LEMMA HandleLateInv ==
    ASSUME IInv, NEW r \in late, HandleLate(r)
    PROVE  IInv'
  <1> DEFINE c == r.clnt
  <1>1. /\ TypeOK /\ ItemsPositive /\ History
        /\ ExecuteLate(r) /\ RecordPut(c, r.key, r.version)
        /\ handlePut(r.key, r.value, r.version) /\ late' = late \ {r}
        /\ UNCHANGED <<call, input, result>>
        /\ \A d \in Clients : Provenance(d) /\ Answers(d)
    BY DEF IInv, HandleLate, ExecuteLate
  <1>2. c \in Clients /\ r.key \in Keys /\ r.value \in Values /\ r.version \in Nat
    BY <1>1 DEF TypeOK, ClerkTypeOK, Request
  <1>3. input[c].op = "Put" /\ input[c].key = r.key /\ input[c].version = r.version
    BY <1>1, <1>2 DEF Provenance
  <1>4. ClerkTypeOK' /\ ItemsPositive'
    BY <1>1, ExecuteLateTypes DEF TypeOK
  <1>5. /\ History'
        /\ applied' \in [Clients -> Nat] /\ output' \in [Clients -> Reply]
        /\ \A x \in Keys : CurVersion(x)' \in Nat /\ CurVersion(x) \leq CurVersion(x)'
        /\ \A d \in Clients \ {c} : applied'[d] = applied[d]
        /\ PutErr(r.key, r.version) = OK => applied'[c] = 1 /\ applied[c] = 0
        /\ PutErr(r.key, r.version) # OK => applied'[c] = applied[c]
    BY <1>1, <1>2, <1>3, PutStep
  <1>6. TypeOK'
    BY <1>1, <1>4, <1>5 DEF TypeOK
  <1>7. \A d \in Clients \ {c} : Provenance(d)' /\ Answers(d)'
    BY <1>1, <1>5, Untouched
  <1>8. Provenance(c)'
    BY <1>1, <1>2, <1>3 DEF Provenance
  <1>9. Answers(c)'
    <2>1. LeftBehind(c)' => LeftBehind(c)
      BY <1>1 DEF LeftBehind
    <2>2. LeftBehind(c) /\ Answers(c)
      BY <1>1, <1>2 DEF LeftBehind
    <2>3. /\ CurVersion(input[c].key)' \in Nat /\ CurVersion(input[c].key) \in Nat
          /\ CurVersion(input[c].key) \leq CurVersion(input[c].key)'
          /\ input[c].version \in Nat
      BY <1>1, <1>2, <1>5, ClientTypes
    <2>4. /\ Passed(c) => Passed(c)'
          /\ input'[c].reached => input'[c].version \leq CurVersion(input[c].key)'
      BY <1>1, <2>2, <2>3 DEF Passed, Answers
    <2>5. applied[c] = 1 => applied'[c] = 1
      BY <1>5
    <2> QED BY <1>1, <1>2, <2>1, <2>2, <2>4, <2>5 DEF Answers
  <1> QED BY <1>4, <1>5, <1>6, <1>7, <1>8, <1>9 DEF IInv

-----------------------------------------------------------------------------
\* In the initial state no operation has been invoked.
LEMMA InitInv == Init => IInv
  <1> SUFFICES ASSUME Init PROVE IInv
    OBVIOUS
  <1>1. /\ DOMAIN KeyValueItems = {} /\ KeyValueItems \in [{} -> KeyValueItem]
        /\ late = {}
        /\ \A c \in Clients : /\ call[c] = NoCall /\ input[c] = NoInput
                              /\ applied[c] = 0 /\ result[c] = ZeroReply
    BY DEF Init, ClerkInit, MakeKVServer
  <1>2. ServerTypeOK /\ ItemsPositive /\ \A k \in Keys : CurVersion(k) = 0
    BY <1>1 DEF ServerTypeOK, ItemsPositive, CurVersion, GetReply, Present
  <1>3. ZeroReply \in Reply /\ NoInput \in Input
    <2>1. (CHOOSE k \in Keys : TRUE) \in Keys
      BY KeysAssumption
    <2> QED BY <2>1, EmptyAssumption, ErrValues DEF ZeroReply, NoInput, Reply, Input
  <1>4. TypeOK
    BY <1>1, <1>2, <1>3, CallTypes DEF TypeOK, ClerkTypeOK, Init, ClerkInit
  <1>5. History
    BY <1>1, <1>2 DEF History
  <1>6. ASSUME NEW c \in Clients
        PROVE  Provenance(c) /\ Answers(c)
    <2>1. /\ input[c].op = "none" /\ input[c].version = 0 /\ input[c].key \in Keys
          /\ call[c].st = "idle" /\ result[c].err = NoErr /\ applied[c] = 0
      <3>1. NoInput.op = "none" /\ NoInput.version = 0 /\ NoInput.key \in Keys
        BY <1>3 DEF NoInput, Input
      <3>2. NoCall.st = "idle" /\ ZeroReply.err = NoErr
        BY CallTypes DEF ZeroReply
      <3> QED BY <1>1, <3>1, <3>2
    <2>2. ~LeftBehind(c) /\ CurVersion(input[c].key) = 0
      BY <1>1, <1>2, <2>1 DEF LeftBehind
    <2>3. Provenance(c)
      BY <1>1, <2>1, <2>2 DEF Provenance
    <2>4. Answers(c)
      BY <2>1, <2>2, ErrValues DEF Answers
    <2> QED BY <2>3, <2>4
  <1> QED BY <1>2, <1>4, <1>5, <1>6 DEF IInv

\* A stuttering step.
LEMMA StutterInv ==
    ASSUME IInv, UNCHANGED vars
    PROVE  IInv'
  <1>1. /\ TypeOK /\ ItemsPositive /\ History
        /\ UNCHANGED <<KeyValueItems, call, late, input, applied, output, result>>
        /\ \A d \in Clients : Provenance(d) /\ Answers(d)
    BY DEF IInv, vars
  <1>2. /\ ServerTypeOK' /\ ItemsPositive'
        /\ \A x \in Keys : CurVersion(x)' = CurVersion(x) /\ CurVersion(x) \in Nat
    BY <1>1, SameItems, GetReplyType DEF TypeOK, ClerkTypeOK
  <1>3. TypeOK'
    BY <1>1, <1>2 DEF TypeOK, ClerkTypeOK
  <1>4. History'
    BY <1>1, SameHistory
  <1>5. \A d \in Clients : Provenance(d)' /\ Answers(d)'
    BY <1>1, <1>2, Untouched
  <1> QED BY <1>2, <1>3, <1>4, <1>5 DEF IInv

\* Every step keeps the invariant: one case per action.
LEMMA NextInv ==
    ASSUME IInv, [Next]_vars
    PROVE  IInv'
  <1>1. ASSUME NEW c \in Clients, NEW k \in Keys, InvokeGet(c, k)
        PROVE  IInv'
    <2>1. 0 \leq CurVersion(k)
      BY GetReplyType DEF IInv, TypeOK, ClerkTypeOK
    <2> QED
      BY <1>1, <2>1, InvokeStep, EmptyAssumption DEF InvokeGet, BeginGet
  <1>2. ASSUME NEW c \in Clients, NEW k \in Keys, NEW v \in Values, NEW ver \in PutVersions,
               InvokePut(c, k, v, ver)
        PROVE  IInv'
    <2>1. ver \in Nat
      BY PutVersionsAssumption
    <2>2. (ver \leq CurVersion(k)) \in BOOLEAN
      OBVIOUS
    <2> QED
      BY <1>2, <2>1, <2>2, InvokeStep DEF InvokePut, BeginPut
  <1>3. CASE UNCHANGED vars
    BY <1>3, StutterInv
  <1> QED
    BY <1>1, <1>2, <1>3, HandleInv, HandleLateInv, NetworkInv, FinishInv DEF Next

\* The invariant says what the properties say.
LEMMA InvImplies ==
    ASSUME IInv
    PROVE  OneWinnerPerVersion /\ DefiniteAnswers /\ MaybeMeansDoneOrBeaten
  <1>1. /\ TypeOK /\ History
        /\ \A c \in Clients : Provenance(c) /\ Answers(c)
    BY DEF IInv
  <1>2. \A c \in Clients : /\ applied[c] \in Nat /\ applied[c] \leq 1
                           /\ input[c].key \in Keys /\ input[c].version \in Nat
                           /\ CurVersion(input[c].key) \in Nat
    BY <1>1, ClientTypes DEF History
  <1>3. \A c \in Clients : applied[c] > 0 <=> applied[c] = 1
    BY <1>2
  <1>4. OneWinnerPerVersion
    <2>1. ASSUME NEW k \in Keys, NEW ver \in PutVersions
          PROVE  /\ (\E c \in Clients : Won(c, k, ver)) <=> ver < CurVersion(k)
                 /\ \A c, d \in Clients : Won(c, k, ver) /\ Won(d, k, ver) => c = d
      <3>1. ver \in Nat /\ CurVersion(k) \in Nat
        BY <1>1, PutVersionsAssumption, GetReplyType DEF TypeOK, ClerkTypeOK
      <3>2. ASSUME ver < CurVersion(k) PROVE \E c \in Clients : Won(c, k, ver)
        <4>1. ver \in 0..(CurVersion(k) - 1)
          BY <3>1, <3>2
        <4> QED BY <1>1, <4>1 DEF History
      <3>3. ASSUME NEW c \in Clients, Won(c, k, ver) PROVE ver < CurVersion(k)
        BY <1>1, <1>3, <3>3 DEF Won, History, Passed
      <3>4. ASSUME NEW c \in Clients, NEW d \in Clients, Won(c, k, ver), Won(d, k, ver)
            PROVE  c = d
        BY <1>1, <1>3, <3>4 DEF Won, History
      <3> QED BY <3>2, <3>3, <3>4
    <2> QED BY <1>2, <2>1 DEF OneWinnerPerVersion
  <1>5. DefiniteAnswers
    BY <1>1 DEF DefiniteAnswers, Answers, LeftBehind
  <1>6. ASSUME NEW c \in Clients, result[c].err = ErrMaybe, input[c].reached
        PROVE  \/ applied[c] = 1
               \/ \E d \in Clients \ {c} : Won(d, input[c].key, input[c].version)
    <2>1. Passed(c)
      BY <1>1, <1>6 DEF Answers
    <2>2. input[c].version \in 0..(CurVersion(input[c].key) - 1)
      BY <1>2, <2>1 DEF Passed
    <2>3. PICK d \in Clients : Won(d, input[c].key, input[c].version)
      BY <1>1, <1>2, <2>2 DEF History
    <2> QED BY <1>3, <2>3 DEF Won
  <1>7. MaybeMeansDoneOrBeaten
    BY <1>6 DEF MaybeMeansDoneOrBeaten
  <1> QED BY <1>4, <1>5, <1>7

\* A step changes the map for a Put that has returned only in the way
\* EffectAfterReturn allows.
LEMMA StepEffect ==
    ASSUME IInv, [Next]_vars, NEW c \in Clients, Done(c), applied'[c] # applied[c]
    PROVE  ~input[c].reached /\ result[c].err \in {ErrNoKey, ErrMaybe}
  <1>1. /\ TypeOK /\ ItemsPositive /\ History /\ Provenance(c) /\ Answers(c)
        /\ \A d \in Clients : Provenance(d)
    BY DEF IInv
  <1>2. ASSUME NEW d \in Clients, Handle(d) PROVE FALSE
    <2>1. d # c
      BY <1>1, <1>2 DEF Done, Provenance, Handle, Execute
    <2> QED BY <1>1, <1>2, <2>1 DEF Handle, RecordPut, TypeOK
  <1>3. PICK r \in late : HandleLate(r)
    BY <1>2 DEF Next, InvokeGet, InvokePut, Network, opVars, Finish, vars
  <1>4. /\ handlePut(r.key, r.value, r.version) /\ RecordPut(r.clnt, r.key, r.version)
        /\ r.key \in Keys /\ r.value \in Values /\ r.version \in Nat /\ r.clnt \in Clients
    BY <1>1, <1>3 DEF HandleLate, ExecuteLate, TypeOK, ClerkTypeOK, Request
  <1>5. r.clnt = c /\ PutErr(r.key, r.version) = OK
    BY <1>1, <1>4 DEF RecordPut, TypeOK
  <1>6. /\ input[c].op = "Put" /\ r.key = input[c].key /\ r.version = input[c].version
        /\ LeftBehind(c)
    BY <1>1, <1>5 DEF Provenance, LeftBehind
  <1>7. input[c].version = CurVersion(input[c].key) /\ CurVersion(input[c].key) \in Nat
    BY <1>1, <1>4, <1>5, <1>6, PutEffect, GetReplyType DEF TypeOK, ClerkTypeOK
  <1>8. ~Passed(c) /\ applied[c] # 1
    BY <1>1, <1>7 DEF Passed, History
  <1>9. result[c].err \in Err
    BY <1>1 DEF TypeOK, Reply
  <1> QED
    BY <1>1, <1>6, <1>8, <1>9, ErrValues DEF Answers, Done, Err

-----------------------------------------------------------------------------
\* The invariant holds in every reachable state.
THEOREM Invariance == Spec => []IInv
  BY InitInv, NextInv, PTL DEF Spec

\* KVServer, Clerk and network keep their types.
THEOREM TypeCorrect == Spec => []TypeOK
  <1>1. IInv => TypeOK
    BY DEF IInv
  <1> QED BY <1>1, Invariance, PTL

\* handlePut: no Put changes the map twice, and each version of a key was
\* produced by exactly one Put.
THEOREM ExactlyOnce == Spec => []OneWinnerPerVersion
  BY InvImplies, Invariance, PTL

\* Clerk.Put: OK means done, ErrVersion means not done and never to be done.
THEOREM DefiniteAnswersHold == Spec => []DefiniteAnswers
  BY InvImplies, Invariance, PTL

\* Clerk.Put: ErrMaybe for a version the key had reached means that this Put or
\* another one took that version.
THEOREM MaybeExplained == Spec => []MaybeMeansDoneOrBeaten
  BY InvImplies, Invariance, PTL

\* Clerk.Put: a Put that has returned has an effect later only if it was given
\* a version the key had not reached.
THEOREM NoEffectAfterReturn == Spec => EffectAfterReturn
  <1>1. IInv /\ [Next]_vars =>
          [\A c \in Clients :
              Done(c) /\ applied'[c] # applied[c] =>
                  ~input[c].reached /\ result[c].err \in {ErrNoKey, ErrMaybe}]_vars
    BY StepEffect
  <1> QED BY <1>1, Invariance, PTL DEF Spec, EffectAfterReturn

-----------------------------------------------------------------------------
(***************************************************************************)
(* Part two: the clients of the tests (KVTest), for any number of clients  *)
(* and iterations.                                                         *)
(*                                                                         *)
(* A Put succeeds on the current version only, and a Put of the tests      *)
(* carries a version its client has read: it never meets ErrNoKey, and     *)
(* once it has been answered its version is a past one, so what is left    *)
(* behind of it has no effect.  What a client has done in an iteration is  *)
(* therefore known from its present call (InHand) until it is counted, and *)
(* the version, or the list, is told by what the clients had (Had).        *)
(***************************************************************************)
Entry == [id : Clients, n : Nat]
Json  == Values \cup Seq(Entry)

Version == CurVersion(Shared)
Stored  == CurValue(Shared)

TestTypes ==
    /\ ClerkTyped(Json) /\ ItemsPositive
    /\ workload \in Workloads
    /\ at \in [Clients -> {"top", "get", "put", "over"}]
    /\ verm \in [Clients -> Nat]
    /\ list \in [Clients -> Json]
    /\ err \in [Clients -> Err]
    /\ ok \in [Clients -> SUBSET Nat]
    /\ maybe \in [Clients -> SUBSET Nat]
    /\ decided \in [Clients -> ReplyOf(Json)]

Busy(c)    == call[c].st # "idle"
Putting(c) == Busy(c) /\ call[c].op = "Put"

\* What a value tells of the version it has.
Fits(val, k) ==
    /\ val \in Seq(Entry)
    /\ workload = "append" => Len(val) + 1 = k
    /\ workload = "put" => Len(val) = 1 /\ val[1].n + 1 = k

\* The key had value val when it had version k.
Snapshot(val, k) ==
    /\ k <= Version
    /\ k = Version => val = Stored
    /\ k > 0 => Fits(val, k)

\* The iterations of c are numbered, and each counted once.
Rounds(c) ==
    /\ IsFiniteSet(ok[c]) /\ IsFiniteSet(maybe[c])
    /\ Round(c) \in Nat
    /\ ok[c] \cup maybe[c] = 0 .. Round(c) - 1
    /\ ok[c] \cap maybe[c] = {}

\* Where c is in its loop tells which call it is in.
Place(c) ==
    /\ Busy(c) => /\ call[c].key = Shared
                  /\ at[c] \in {"get", "put"}
                  /\ call[c].op = IF at[c] = "get" THEN "Get" ELSE "Put"
    /\ Putting(c) => call[c].version = verm[c] /\ call[c].value = Entries(c)
    /\ IF workload = "put" /\ at[c] = "get"
       THEN err[c] \in {OK, ErrVersion, ErrMaybe}
       ELSE err[c] = NoErr
    /\ at[c] = "over" => Round(c) > 0

\* What c knows of the key.
Knows(c) ==
    /\ verm[c] <= Version
    /\ workload = "append" \/ at[c] = "get" \/ Round(c) > 0 => Version > 0
    /\ workload = "append" /\ at[c] = "put" => verm[c] > 0 /\ Snapshot(list[c], verm[c])

\* What the reply at hand tells c.
Replied(c) ==
    call[c].st = "replied" =>
        /\ call[c].op = "Get" =>
              /\ decided[c] = call[c].reply
              /\ call[c].reply.err = OK
              /\ call[c].reply.version > 0
              /\ Snapshot(call[c].reply.value, call[c].reply.version)
        /\ call[c].op = "Put" =>
              /\ call[c].version < Version
              /\ call[c].reply.err \in {OK, ErrVersion}
              /\ call[c].reply = [ZeroReply EXCEPT !.err = call[c].reply.err]
              /\ decided[c].err # NoErr
              /\ call[c].reply.err = OK => decided[c].err = OK
              /\ ~call[c].retried /\ call[c].reply.err = ErrVersion => decided[c].err = ErrVersion

\* Whether c's Put has changed the map.
Decision(c) ==
    /\ ~Busy(c) => decided[c] = ZeroReply
    /\ Putting(c) => /\ decided[c].err \in {NoErr, OK, ErrVersion}
                     /\ decided[c] = [ZeroReply EXCEPT !.err = decided[c].err]
                     /\ decided[c].err = OK => call[c].version < Version
                     /\ call[c].st = "sent" /\ ~call[c].retried => decided[c].err # OK

\* c's iteration has had its effect, or may have, and is not counted yet.
InHand(c) ==
    \/ Putting(c) /\ decided[c].err = OK
    \/ workload = "put" /\ at[c] = "get" /\ err[c] \in {OK, ErrMaybe}

Had(c) == ok[c] \cup maybe[c] \cup (IF InHand(c) THEN {Round(c)} ELSE {})
HadMap == [c \in Clients |-> Had(c)]

\* c's entries in the list are in order, and are those it is known to have made.
Appended(c) ==
    workload = "append" =>
        /\ Ns(Stored, c) \subseteq Had(c)
        /\ ok[c] \subseteq Ns(Stored, c)
        /\ InHand(c) => Round(c) \in Ns(Stored, c)
        /\ \A i, j \in Own(Stored, c) : i < j => Stored[i].n < Stored[j].n

ClientOK(c) ==
    Rounds(c) /\ Place(c) /\ Knows(c) /\ Replied(c) /\ Decision(c) /\ Appended(c)

\* A request left behind that could still succeed is of its client's present call.
LeftOver ==
    \A r \in late :
        /\ r.key = Shared /\ r.version <= Version
        /\ r.version = Version =>
              /\ Putting(r.clnt)
              /\ call[r.clnt].value = r.value /\ call[r.clnt].version = r.version
              /\ call[r.clnt].retried \/ call[r.clnt].st = "failed"

Reliable == ~Unreliable /\ ~EndsDisabled

\* Nothing is lost on a reliable network.
NoLoss ==
    Reliable =>
        /\ late = {}
        /\ \A c \in Clients : /\ ~call[c].retried /\ call[c].st # "failed"
                              /\ maybe[c] = {} /\ err[c] # ErrMaybe

Pairs(f) == UNION {{c} \X f[c] : c \in Clients}

\* The version counts the iterations that had an effect.
PutCount ==
    workload = "put" =>
        /\ IsFiniteSet(Pairs(HadMap))
        /\ Version <= Total(HadMap)
        /\ Reliable => Version = Total(HadMap)

TestInv ==
    /\ TestTypes
    /\ Snapshot(Stored, Version)
    /\ \A c \in Clients : ClientOK(c)
    /\ LeftOver
    /\ NoLoss
    /\ PutCount
    /\ NeverFails

-----------------------------------------------------------------------------
LEMMA SharedKey == Shared \in Keys
  BY KeysAssumption DEF Shared

LEMMA JsonFacts == Empty \in Json /\ Seq(Entry) \subseteq Json /\ <<>> \in Seq(Entry)
  BY EmptyAssumption DEF Json

\* What the types give for one client.
LEMMA TestClientTypes ==
    ASSUME TestTypes, NEW c \in Clients
    PROVE  /\ call[c] \in CallOf(Json)
           /\ call[c].st \in {"idle", "sent", "replied", "failed"} /\ call[c].op \in {"Get", "Put"}
           /\ call[c].version \in Nat /\ call[c].retried \in BOOLEAN
           /\ call[c].reply \in ReplyOf(Json) /\ call[c].reply.version \in Nat
           /\ call[c].reply.err \in Err
           /\ at[c] \in {"top", "get", "put", "over"}
           /\ verm[c] \in Nat /\ list[c] \in Json /\ err[c] \in Err
           /\ ok[c] \subseteq Nat /\ maybe[c] \subseteq Nat
           /\ decided[c] \in ReplyOf(Json)
  BY DEF TestTypes, ClerkTyped, CallOf, ReplyOf

\* The version of the shared key, and the Get handler's reply.
LEMMA SharedFacts ==
    ASSUME TestTypes
    PROVE  /\ Version \in Nat /\ Stored \in Json
           /\ GetReply(Shared) \in ReplyOf(Json)
           /\ GetReply(Shared).version = Version /\ GetReply(Shared).value = Stored
           /\ Version > 0 => GetReply(Shared).err = OK
  <1>1. ServerTyped(Json) /\ Empty \in Json
    BY JsonFacts DEF TestTypes, ClerkTyped
  <1>2. /\ Version \in Nat /\ Stored \in Json
        /\ GetReply(Shared) \in ReplyOf(Json)
        /\ GetReply(Shared).version = Version /\ GetReply(Shared).value = Stored
    BY <1>1, SharedKey, GetReplyTypeOf DEF Version, Stored
  <1>3. Version > 0 => GetReply(Shared).err = OK
    BY DEF Version, CurVersion, GetReply
  <1> QED
    BY <1>2, <1>3

\* What c puts follows what it read.
LEMMA EntriesFit ==
    ASSUME TestTypes, NEW c \in Clients, Rounds(c), Knows(c), at[c] = "put"
    PROVE  /\ Entries(c) \in Seq(Entry) /\ Entries(c) \in Json
           /\ Fits(Entries(c), verm[c] + 1)
           /\ workload = "append" =>
                 Entries(c) = Append(list[c], [id |-> c, n |-> Round(c)]) /\ list[c] \in Seq(Entry)
  <1>1. verm[c] \in Nat /\ Round(c) \in Nat /\ workload \in {"put", "append"}
    BY TestClientTypes DEF TestTypes, Workloads, Rounds
  <1>2. CASE workload = "append"
    <2>1. list[c] \in Seq(Entry) /\ Len(list[c]) + 1 = verm[c]
      BY <1>1, <1>2 DEF Knows, Snapshot, Fits
    <2>2. Entries(c) = Append(list[c], [id |-> c, n |-> Round(c)])
      BY <1>2 DEF Entries
    <2>3. [id |-> c, n |-> Round(c)] \in Entry
      BY <1>1 DEF Entry
    <2>4. Entries(c) \in Seq(Entry) /\ Len(Entries(c)) = Len(list[c]) + 1
      BY <2>1, <2>2, <2>3
    <2> QED
      BY <1>1, <1>2, <2>1, <2>2, <2>4, JsonFacts DEF Fits
  <1>3. CASE workload = "put"
    <2> DEFINE e == [id |-> c, n |-> verm[c]]
    <2>1. Entries(c) = Append(<<>>, e)
      BY <1>3 DEF Entries
    <2>2. e \in Entry /\ e.n = verm[c]
      BY <1>1 DEF Entry
    <2> HIDE DEF e
    <2>3. Entries(c) = <<e>>
      BY <2>1
    <2>4. Entries(c) \in Seq(Entry) /\ Len(Entries(c)) = 1 /\ Entries(c)[1] = e
      BY <2>2, <2>3
    <2> QED
      BY <1>1, <1>3, <2>2, <2>4, JsonFacts DEF Fits
  <1> QED
    BY <1>1, <1>2, <1>3

\* A client a step does not touch: nothing changes for it, or another client's Put
\* has moved the version on.
LEMMA OtherClient ==
    ASSUME TestTypes, TestTypes', NEW c \in Clients, ClientOK(c), UNCHANGED workload,
           call'[c] = call[c], decided'[c] = decided[c], at'[c] = at[c], verm'[c] = verm[c],
           list'[c] = list[c], err'[c] = err[c], ok'[c] = ok[c], maybe'[c] = maybe[c],
           \/ Version' = Version /\ Stored' = Stored
           \/ /\ Version' = Version + 1
              /\ workload = "append" =>
                    /\ Stored \in Seq(Entry)
                    /\ \E e \in Entry : e.id # c /\ Stored' = Append(Stored, e)
    PROVE  ClientOK(c)' /\ Had(c)' = Had(c)
  <1> USE DEF ClientOK
  <1>0. Version \in Nat /\ Version' \in Nat /\ Version <= Version'
    BY SharedFacts
  <1>1. /\ Round(c)' = Round(c) /\ Entries(c)' = Entries(c)
        /\ (Putting(c)' <=> Putting(c)) /\ (Busy(c)' <=> Busy(c))
    BY DEF Round, Entries, Putting, Busy
  <1>2. /\ call[c].version \in Nat /\ call[c].reply.version \in Nat /\ verm[c] \in Nat
    BY TestClientTypes
  <1>3. ASSUME NEW val, NEW k \in Nat, Snapshot(val, k) PROVE Snapshot(val, k)'
    BY <1>0, <1>3 DEF Snapshot, Fits
  <1>4. Rounds(c)'
    BY <1>1 DEF Rounds
  <1>5. Place(c)'
    BY <1>1 DEF Place
  <1>6. Knows(c)'
    <2>1. workload = "append" /\ at[c] = "put" => Snapshot(list[c], verm[c])'
      BY <1>2, <1>3 DEF Knows
    <2>2. (workload = "append" /\ at[c] = "put" => Snapshot(list[c], verm[c]))'
      BY <2>1 DEF Snapshot, Fits
    <2> QED
      BY <1>0, <1>1, <1>2, <2>2 DEF Knows
  <1>7. Replied(c)'
    <2>1. call[c].st = "replied" /\ call[c].op = "Get" =>
            Snapshot(call[c].reply.value, call[c].reply.version)'
      BY <1>2, <1>3 DEF Replied
    <2> QED
      BY <1>0, <1>2, <2>1 DEF Replied, Snapshot, Fits
  <1>8. Decision(c)'
    BY <1>0, <1>1, <1>2 DEF Decision
  <1>9. (InHand(c)' <=> InHand(c)) /\ Had(c)' = Had(c)
    BY <1>1 DEF InHand, Had
  <1>10. ASSUME workload = "append"
         PROVE  /\ Own(Stored, c)' = Own(Stored, c) /\ Ns(Stored, c)' = Ns(Stored, c)
                /\ \A i \in Own(Stored, c) : Stored'[i] = Stored[i]
    <2>1. CASE Stored' = Stored
      BY <2>1 DEF Own, Ns
    <2>2. CASE Stored' # Stored
      <3>1. PICK e \in Entry : e.id # c /\ Stored' = Append(Stored, e)
        BY <1>10, <2>2
      <3>2. /\ Stored \in Seq(Entry) /\ Len(Stored) \in Nat
            /\ DOMAIN Stored' = DOMAIN Stored \cup {Len(Stored) + 1}
            /\ \A i \in DOMAIN Stored : Stored'[i] = Stored[i]
            /\ Stored'[Len(Stored) + 1] = e
        BY <1>10, <2>2, <3>1
      <3>3. Own(Stored, c)' = Own(Stored, c)
        BY <3>1, <3>2 DEF Own
      <3>4. \A i \in Own(Stored, c) : Stored'[i] = Stored[i]
        BY <3>2 DEF Own
      <3>5. Ns(Stored, c)' = Ns(Stored, c)
        BY <3>3, <3>4 DEF Ns
      <3> QED
        BY <3>3, <3>4, <3>5
    <2> QED
      BY <2>1, <2>2
  <1>11. Appended(c)'
    BY <1>1, <1>9, <1>10 DEF Appended
  <1> QED
    BY <1>4, <1>5, <1>6, <1>7, <1>8, <1>9, <1>11

-----------------------------------------------------------------------------
\* How many iterations a map of the clients' iterations holds.
LEMMA TotalFacts ==
    ASSUME NEW f \in [Clients -> SUBSET Nat], IsFiniteSet(Pairs(f))
    PROVE  Total(f) \in Nat /\ Total(f) = Cardinality(Pairs(f))
  BY FS_CardinalityType DEF Total, Pairs

\* One more iteration of one client.
LEMMA TotalAdd ==
    ASSUME NEW f \in [Clients -> SUBSET Nat], IsFiniteSet(Pairs(f)),
           NEW c \in Clients, NEW n \in Nat, NEW g \in [Clients -> SUBSET Nat],
           g = [f EXCEPT ![c] = f[c] \cup {n}]
    PROVE  /\ IsFiniteSet(Pairs(g))
           /\ Total(f) \in Nat /\ Total(g) \in Nat /\ Total(f) <= Total(g)
           /\ n \notin f[c] => Total(g) = Total(f) + 1
  <1>1. Pairs(g) = Pairs(f) \cup {<<c, n>>}
    <2>1. \A x : x \in Pairs(g) => x \in Pairs(f) \cup {<<c, n>>}
      BY DEF Pairs
    <2>2. \A x : x \in Pairs(f) => x \in Pairs(g)
      BY DEF Pairs
    <2>3. <<c, n>> \in Pairs(g)
      BY DEF Pairs
    <2> QED
      BY <2>1, <2>2, <2>3
  <1>2. n \notin f[c] => <<c, n>> \notin Pairs(f)
    BY DEF Pairs
  <1>3. /\ IsFiniteSet(Pairs(g))
        /\ Cardinality(Pairs(f)) \in Nat
        /\ Cardinality(Pairs(g)) \in Nat
        /\ Cardinality(Pairs(f)) <= Cardinality(Pairs(g))
        /\ <<c, n>> \notin Pairs(f) => Cardinality(Pairs(g)) = Cardinality(Pairs(f)) + 1
    <2> DEFINE P == Pairs(f)
               Q == Pairs(g)
               x == <<c, n>>
    <2>1. IsFiniteSet(P) /\ Q = P \cup {x}
      BY <1>1
    <2> HIDE DEF P, Q, x
    <2>2. /\ IsFiniteSet(P \cup {x})
          /\ Cardinality(P \cup {x}) = IF x \in P THEN Cardinality(P) ELSE Cardinality(P) + 1
      BY <2>1, FS_AddElement
    <2>3. /\ IsFiniteSet(Q)
          /\ Cardinality(Q) = IF x \in P THEN Cardinality(P) ELSE Cardinality(P) + 1
      BY <2>1, <2>2, Zenon
    <2>4. Cardinality(P) \in Nat
      BY <2>1, FS_CardinalityType
    <2>5. /\ Cardinality(Q) \in Nat
          /\ Cardinality(P) <= Cardinality(Q)
          /\ x \notin P => Cardinality(Q) = Cardinality(P) + 1
      BY <2>3, <2>4
    <2> QED
      BY <2>3, <2>4, <2>5 DEF P, Q, x
  <1>4. Total(f) = Cardinality(Pairs(f)) /\ Total(g) = Cardinality(Pairs(g))
    BY DEF Total, Pairs
  <1> QED
    BY <1>2, <1>3, <1>4

\* Two kinds of iterations that no client counts twice.
LEMMA TotalSplit ==
    ASSUME NEW f \in [Clients -> SUBSET Nat], NEW g \in [Clients -> SUBSET Nat],
           NEW h \in [Clients -> SUBSET Nat], IsFiniteSet(Pairs(h)),
           \A c \in Clients : f[c] \cap g[c] = {} /\ h[c] = f[c] \cup g[c]
    PROVE  Total(h) = Total(f) + Total(g)
  <1>1. Pairs(h) = Pairs(f) \cup Pairs(g)
    <2>1. \A x : x \in Pairs(h) <=> x \in Pairs(f) \/ x \in Pairs(g)
      BY DEF Pairs
    <2> QED
      BY <2>1
  <1>2. Pairs(f) \cap Pairs(g) = {}
    BY DEF Pairs
  <1>3. IsFiniteSet(Pairs(f)) /\ IsFiniteSet(Pairs(g))
    BY <1>1, FS_Subset
  <1>4. Cardinality(Pairs(h))
          = Cardinality(Pairs(f)) + Cardinality(Pairs(g)) - Cardinality(Pairs(f) \cap Pairs(g))
    BY <1>1, <1>3, FS_Union
  <1>5. Cardinality(Pairs(f) \cap Pairs(g)) = 0
    BY <1>2, FS_EmptySet
  <1> QED
    BY <1>3, <1>4, <1>5, TotalFacts

\* A step of client c, or of the network or the server for it.
Only(c) ==
    /\ UNCHANGED workload
    /\ \A d \in Clients \ {c} :
          /\ call'[d] = call[d] /\ decided'[d] = decided[d] /\ at'[d] = at[d] /\ verm'[d] = verm[d]
          /\ list'[d] = list[d] /\ err'[d] = err[d] /\ ok'[d] = ok[d] /\ maybe'[d] = maybe[d]

LEMMA HadTypes ==
    ASSUME TestTypes, \A c \in Clients : ClientOK(c)
    PROVE  HadMap \in [Clients -> SUBSET Nat]
  <1>1. ASSUME NEW c \in Clients PROVE Had(c) \subseteq Nat
    BY TestClientTypes DEF Had, ClientOK, Rounds
  <1> QED
    BY <1>1 DEF HadMap

\* Whatever a step does for its own client, the others are as well off as before,
\* and the count stays right: the key is as it was, or the client's Put has changed it.
LEMMA OneClient ==
    ASSUME TestInv, TestTypes', NEW c \in Clients, Only(c), ClientOK(c)', NEW n \in Nat,
           \/ /\ Version' = Version /\ Stored' = Stored
              /\ Had(c)' = Had(c) \/ (~Reliable /\ Had(c)' = Had(c) \cup {n})
           \/ /\ Version' = Version + 1 /\ Fits(Stored', Version + 1)
              /\ workload = "append" =>
                    /\ Stored \in Seq(Entry)
                    /\ \E e \in Entry : e.id = c /\ Stored' = Append(Stored, e)
              /\ n \notin Had(c) /\ Had(c)' = Had(c) \cup {n}
    PROVE  Snapshot(Stored, Version)' /\ (\A d \in Clients : ClientOK(d)') /\ PutCount'
  <1> USE DEF TestInv
  <1>0. Version \in Nat /\ Version' \in Nat
    BY SharedFacts
  <1>1. ASSUME NEW d \in Clients, d # c PROVE ClientOK(d)' /\ Had(d)' = Had(d)
    <2>1. /\ call'[d] = call[d] /\ decided'[d] = decided[d] /\ at'[d] = at[d] /\ verm'[d] = verm[d]
          /\ list'[d] = list[d] /\ err'[d] = err[d] /\ ok'[d] = ok[d] /\ maybe'[d] = maybe[d]
          /\ UNCHANGED workload
      BY <1>1 DEF Only
    <2>2. \/ Version' = Version /\ Stored' = Stored
          \/ /\ Version' = Version + 1
             /\ workload = "append" =>
                   /\ Stored \in Seq(Entry)
                   /\ \E e \in Entry : e.id # d /\ Stored' = Append(Stored, e)
      BY <1>1
    <2> QED
      BY <2>1, <2>2, OtherClient
  <1>2. \A d \in Clients : ClientOK(d)'
    BY <1>1
  <1>3. Snapshot(Stored, Version)'
    BY <1>0 DEF Snapshot, Fits, Only
  <1>4. PutCount'
    <2>1. HadMap \in [Clients -> SUBSET Nat] /\ HadMap' \in [Clients -> SUBSET Nat]
      <3>1. HadMap \in [Clients -> SUBSET Nat]
        BY HadTypes
      <3>2. \A d \in Clients : HadMap[d] = Had(d) /\ HadMap'[d] = Had(d)'
        BY DEF HadMap
      <3>3. \A d \in Clients : Had(d)' \subseteq Nat
        BY <1>1, <3>1, <3>2
      <3> QED
        BY <3>1, <3>3 DEF HadMap
    <2>2. HadMap' = [HadMap EXCEPT ![c] = Had(c)']
      BY <1>1, <2>1 DEF HadMap
    <2>3. HadMap[c] = Had(c)
      BY DEF HadMap
    <2>4. CASE Had(c)' = Had(c)
      <3>1. HadMap' = HadMap
        BY <2>1, <2>2, <2>3, <2>4
      <3>2. Version' = Version
        BY <2>4
      <3> QED
        BY <3>1, <3>2 DEF PutCount, Only, Pairs, Total, Reliable
    <2>5. CASE Had(c)' # Had(c)
      <3>0. Had(c)' = Had(c) \cup {n} /\ n \notin Had(c)
        BY <2>5
      <3>1. HadMap' = [HadMap EXCEPT ![c] = HadMap[c] \cup {n}]
        BY <2>2, <2>3, <3>0
      <3>2. SUFFICES ASSUME workload = "put" PROVE PutCount'
        BY DEF PutCount, Only
      <3>3. PICK f \in [Clients -> SUBSET Nat] : f = HadMap
        BY <2>1
      <3>4. PICK g \in [Clients -> SUBSET Nat] : g = HadMap'
        BY <2>1
      <3>5. IsFiniteSet(Pairs(f)) /\ Version <= Total(f) /\ (Reliable => Version = Total(f))
        BY <3>2, <3>3 DEF PutCount
      <3>6. /\ IsFiniteSet(Pairs(g)) /\ Total(f) \in Nat /\ Total(g) \in Nat /\ Total(f) <= Total(g)
            /\ n \notin f[c] => Total(g) = Total(f) + 1
        BY <3>1, <3>3, <3>4, <3>5, TotalAdd
      <3>7. Version' <= Total(g) /\ (Reliable => Version' = Total(g))
        BY <1>0, <2>3, <2>5, <3>0, <3>3, <3>5, <3>6
      <3> QED
        BY <3>4, <3>6, <3>7 DEF PutCount, Pairs, Total, Reliable
    <2> QED
      BY <2>4, <2>5
  <1> QED
    BY <1>2, <1>3, <1>4

\* A step that leaves the map alone.
LEMMA QuietStep ==
    ASSUME TestInv, TestTypes', NEW c \in Clients, Only(c), UNCHANGED KeyValueItems, ClientOK(c)',
           NEW n \in Nat, Had(c)' = Had(c) \/ (~Reliable /\ Had(c)' = Had(c) \cup {n}),
           LeftOver', NoLoss', NeverFails'
    PROVE  TestInv'
  <1>1. Version' = Version /\ Stored' = Stored
    BY DEF Version, Stored, CurVersion, CurValue, GetReply, Present
  <1>2. Snapshot(Stored, Version)' /\ (\A d \in Clients : ClientOK(d)') /\ PutCount'
    BY <1>1, OneClient
  <1> QED
    BY <1>2 DEF TestInv

\* SpawnClientsAndWait's signal, and the next iteration.
LEMMA LoopInv ==
    ASSUME TestInv, NEW c \in Clients, Stop(c) \/ Iterate(c)
    PROVE  TestInv'
  <1> USE DEF TestInv
  <1>0. /\ UNCHANGED <<KeyValueItems, call, late, workload, verm, list, err, ok, maybe, verdict, decided>>
        /\ at[c] = "top"
        /\ \E p \in {"over", "get", "put"} :
              /\ at' = [at EXCEPT ![c] = p]
              /\ p = "get" => workload = "append"
              /\ p = "put" => workload # "append"
              /\ p = "over" => Round(c) > 0
    BY DEF Stop, Iterate, clerkVars
  <1>1. PICK p \in {"over", "get", "put"} :
              /\ at' = [at EXCEPT ![c] = p]
              /\ p = "get" => workload = "append"
              /\ p = "put" => workload # "append"
              /\ p = "over" => Round(c) > 0
    BY <1>0
  <1>2. TestTypes'
    BY <1>0, <1>1 DEF TestTypes, ClerkTyped, ServerTyped, ItemsPositive
  <1>3. Only(c) /\ at'[c] = p
    BY <1>0, <1>1 DEF TestTypes, Only
  <1>4. ClientOK(c) /\ ~Busy(c)
    BY <1>0 DEF ClientOK, Place
  <1>5. /\ Version' = Version /\ Stored' = Stored /\ Round(c)' = Round(c)
        /\ ~Busy(c)' /\ ~Putting(c)' /\ ~Putting(c)
    BY <1>0, <1>4 DEF Version, Stored, CurVersion, CurValue, GetReply, Present, Round, Busy, Putting
  <1>6. ~InHand(c) /\ ~InHand(c)' /\ Had(c)' = Had(c)
    <2>1. ~InHand(c)
      BY <1>0, <1>5 DEF InHand
    <2>2. ~InHand(c)'
      BY <1>0, <1>1, <1>3, <1>5 DEF InHand
    <2> QED
      BY <1>0, <1>5, <2>1, <2>2 DEF Had
  <1>7. ClientOK(c)'
    <2> USE DEF ClientOK
    <2>1. Rounds(c)'
      BY <1>0, <1>4, <1>5 DEF Rounds
    <2>2. Place(c)'
      BY <1>0, <1>1, <1>3, <1>4, <1>5 DEF Place
    <2>3. Knows(c)'
      BY <1>0, <1>1, <1>3, <1>4, <1>5 DEF Knows
    <2>4. Replied(c)' /\ Decision(c)'
      BY <1>0, <1>4, <1>5 DEF Replied, Decision, Busy
    <2>5. Appended(c)'
      BY <1>0, <1>4, <1>5, <1>6 DEF Appended, Own, Ns
    <2> QED
      BY <2>1, <2>2, <2>3, <2>4, <2>5
  <1>8. LeftOver'
    BY <1>0, <1>5 DEF LeftOver, Putting, Busy
  <1>9. NoLoss' /\ NeverFails'
    BY <1>0 DEF NoLoss, NeverFails, Reliable
  <1> QED
    BY <1>0, <1>2, <1>3, <1>6, <1>7, <1>8, <1>9, QuietStep

\* A call goes out, fails or goes out again: nothing is decided by that.
LEMMA CallStep ==
    ASSUME TestInv, NEW c \in Clients, NEW x \in CallOf(Json), call' = [call EXCEPT ![c] = x],
           UNCHANGED <<KeyValueItems, workload, at, verm, list, err, ok, maybe, verdict, decided>>,
           late' \subseteq RequestOf(Json),
           \/ late' = late
           \/ /\ late' = late \cup {[clnt |-> c, key |-> x.key, value |-> x.value, version |-> x.version]}
              /\ x.st = "failed" /\ x.op = "Put",
           x.st \in {"sent", "failed"}, x.key = Shared, at[c] \in {"get", "put"},
           x.op = IF at[c] = "get" THEN "Get" ELSE "Put",
           x.op = "Put" => x.version = verm[c] /\ x.value = Entries(c),
           Busy(c) /\ x.op = "Put" => x.retried \/ x.st = "failed",
           Reliable => ~x.retried /\ x.st # "failed" /\ late' = late
    PROVE  TestInv'
  <1> USE DEF TestInv
  <1>1. /\ call'[c] = x /\ \A d \in Clients : d # c => call'[d] = call[d]
        /\ call' \in [Clients -> CallOf(Json)]
    BY DEF TestTypes, ClerkTyped
  <1>2. TestTypes' /\ Only(c)
    BY <1>1 DEF TestTypes, ClerkTyped, ServerTyped, ItemsPositive, Only
  <1>3. /\ Version' = Version /\ Stored' = Stored /\ Round(c)' = Round(c) /\ Entries(c)' = Entries(c)
        /\ Busy(c)' /\ (Putting(c)' <=> x.op = "Put")
    BY <1>1 DEF Version, Stored, CurVersion, CurValue, GetReply, Present, Round, Entries, Busy, Putting
  <1>4. /\ Rounds(c) /\ Place(c) /\ Knows(c) /\ Decision(c) /\ Appended(c)
        /\ verm[c] \in Nat /\ Version \in Nat
    BY SharedFacts, TestClientTypes DEF ClientOK
  <1>5. Busy(c) => /\ call[c].op = x.op
                   /\ x.op = "Put" => call[c].version = x.version /\ call[c].value = x.value
    BY <1>4 DEF Place, Putting
  <1>6. Putting(c) \/ decided[c].err # OK \/ x.op = "Get"
    BY <1>4, <1>5 DEF Decision, Putting, ZeroReply, OK, NoErr
  <1>7. (InHand(c)' <=> InHand(c)) /\ Had(c)' = Had(c)
    <2>1. Putting(c) => x.op = "Put"
      BY <1>5 DEF Putting
    <2>2. InHand(c)' <=> InHand(c)
      BY <1>3, <1>6, <2>1 DEF InHand
    <2> QED
      BY <1>3, <2>2 DEF Had
  <1>8. Rounds(c)' /\ Place(c)' /\ Knows(c)'
    <2>1. Rounds(c)'
      BY <1>3, <1>4 DEF Rounds
    <2>2. Place(c)'
      BY <1>1, <1>3, <1>4 DEF Place
    <2>3. Knows(c)'
      BY <1>3, <1>4 DEF Knows, Snapshot, Fits
    <2> QED
      BY <2>1, <2>2, <2>3
  <1>9. Replied(c)'
    BY <1>1 DEF Replied
  <1>10. Decision(c)'
    <2>1. CASE Busy(c)
      BY <1>1, <1>3, <1>4, <1>5, <2>1 DEF Decision, Putting
    <2>2. CASE ~Busy(c)
      <3>1. decided[c] = ZeroReply
        BY <1>4, <2>2 DEF Decision
      <3> QED
        BY <1>1, <1>3, <3>1 DEF Decision, ZeroReply, OK, NoErr
    <2> QED
      BY <2>1, <2>2
  <1>11. Appended(c)'
    BY <1>3, <1>4, <1>7 DEF Appended, Own, Ns
  <1>12. LeftOver'
    <2> SUFFICES ASSUME NEW r \in late'
                 PROVE  /\ r.key = Shared /\ r.version <= Version
                        /\ r.version = Version =>
                              /\ Putting(r.clnt)'
                              /\ call'[r.clnt].value = r.value /\ call'[r.clnt].version = r.version
                              /\ call'[r.clnt].retried \/ call'[r.clnt].st = "failed"
      BY <1>3 DEF LeftOver
    <2>1. CASE r \in late
      <3>1. r.clnt \in Clients
        BY <2>1 DEF TestTypes, ClerkTyped, RequestOf
      <3>2. CASE r.clnt = c
        BY <1>1, <1>3, <1>5, <2>1, <3>2 DEF LeftOver, Putting
      <3>3. CASE r.clnt # c
        BY <1>1, <2>1, <3>1, <3>3 DEF LeftOver, Putting, Busy
      <3> QED
        BY <3>2, <3>3
    <2>2. CASE r \notin late
      <3>1. /\ r = [clnt |-> c, key |-> x.key, value |-> x.value, version |-> x.version]
            /\ x.st = "failed" /\ x.op = "Put"
        BY <2>2
      <3> QED
        BY <1>1, <1>3, <1>4, <3>1 DEF Knows
    <2> QED
      BY <2>1, <2>2
  <1>13. NoLoss' /\ NeverFails'
    BY <1>1 DEF NoLoss, NeverFails, Reliable
  <1>14. ClientOK(c)'
    BY <1>8, <1>9, <1>10, <1>11 DEF ClientOK
  <1> QED
    BY <1>2, <1>7, <1>12, <1>13, <1>14, QuietStep

\* PutJson and GetJson.
LEMMA CallInv ==
    ASSUME TestInv, NEW c \in Clients, CallClerk(c)
    PROVE  TestInv'
  <1> USE DEF TestInv
  <1>1. /\ UNCHANGED <<KeyValueItems, late, workload, at, verm, list, err, ok, maybe, verdict, decided>>
        /\ ~Busy(c) /\ ClientOK(c)
        /\ late' \subseteq RequestOf(Json)
    BY DEF CallClerk, clntVars, BeginPut, BeginGet, Busy, TestTypes, ClerkTyped
  <1>2. CASE at[c] = "put"
    <2>1. Entries(c) \in Json /\ verm[c] \in Nat
      BY <1>1, <1>2, EntriesFit, TestClientTypes DEF ClientOK
    <2>2. PICK x \in CallOf(Json) : x = NewCall("Put", Shared, Entries(c), verm[c])
      BY <2>1, SharedKey, JsonFacts, CallTypesOf
    <2>3. call' = [call EXCEPT ![c] = x]
      BY <1>2, <2>2 DEF CallClerk, BeginPut
    <2>4. /\ x.st = "sent" /\ x.key = Shared /\ x.op = "Put" /\ x.version = verm[c]
          /\ x.value = Entries(c) /\ x.retried = FALSE
      BY <2>2 DEF NewCall
    <2> HIDE DEF TestInv
    <2> QED
      BY <1>1, <1>2, <2>3, <2>4, CallStep
  <1>3. CASE at[c] = "get"
    <2>2. PICK x \in CallOf(Json) : x = NewCall("Get", Shared, Empty, 0)
      BY SharedKey, JsonFacts, CallTypesOf
    <2>3. call' = [call EXCEPT ![c] = x]
      BY <1>3, <2>2 DEF CallClerk, BeginGet
    <2>4. x.st = "sent" /\ x.key = Shared /\ x.op = "Get" /\ x.retried = FALSE
      BY <2>2 DEF NewCall
    <2> HIDE DEF TestInv
    <2> QED
      BY <1>1, <1>3, <2>3, <2>4, CallStep
  <1> QED
    BY <1>2, <1>3 DEF CallClerk

\* The network's steps.
LEMMA TestNetworkInv ==
    ASSUME TestInv, NEW c \in Clients, TestNetwork(c)
    PROVE  TestInv'
  <1>1. /\ UNCHANGED <<KeyValueItems, workload, at, verm, list, err, ok, maybe, verdict, decided>>
        /\ Busy(c) /\ call[c].st # "idle"
    BY DEF TestNetwork, clntVars, NetworkStep, DropRequest, LoseReply, Abandon, Retry, Busy
  <1>2. TestTypes /\ Place(c) /\ NoLoss /\ ClerkTyped(Json) /\ ItemsPositive
    BY DEF TestInv, ClientOK, TestTypes
  <1>3. ClerkTyped(Json)'
    BY <1>2, JsonFacts, NetworkTypesOf DEF TestNetwork
  <1>4. call[c] \in CallOf(Json) /\ call[c].retried \in BOOLEAN /\ call[c].op \in {"Get", "Put"}
    BY <1>2, TestClientTypes
  <1>5. /\ call[c].key = Shared /\ at[c] \in {"get", "put"}
        /\ call[c].op = IF at[c] = "get" THEN "Get" ELSE "Put"
        /\ call[c].op = "Put" => call[c].version = verm[c] /\ call[c].value = Entries(c)
    BY <1>1, <1>2 DEF Place, Putting
  <1>6. PICK x \in CallOf(Json) : x = call'[c]
    BY <1>3 DEF ClerkTyped
  <1>7. call' = [call EXCEPT ![c] = x]
    BY <1>2, <1>6 DEF TestNetwork, NetworkStep, DropRequest, LoseReply, Abandon, Retry, ClerkTyped
  <1>8. /\ x.op = call[c].op /\ x.key = call[c].key
        /\ x.value = call[c].value /\ x.version = call[c].version
        /\ x.st \in {"sent", "failed"}
        /\ x.op = "Put" => x.retried \/ x.st = "failed"
        /\ \/ late' = late
           \/ /\ late' = late \cup {[clnt |-> c, key |-> call[c].key, value |-> call[c].value,
                                     version |-> call[c].version]}
              /\ x.st = "failed" /\ call[c].op = "Put"
        /\ ~Reliable \/ call[c].st = "failed"
    <2> USE <1>2, <1>4, <1>6 DEF ClerkTyped, CallOf, Reliable
    <2>1. CASE DropRequest(c)
      BY <2>1 DEF DropRequest
    <2>2. CASE LoseReply(c)
      BY <2>2 DEF LoseReply
    <2>3. CASE Abandon(c)
      BY <2>3 DEF Abandon
    <2>4. CASE Retry(c)
      BY <2>4 DEF Retry
    <2> QED
      BY <2>1, <2>2, <2>3, <2>4 DEF TestNetwork, NetworkStep
  <1>9. ~Reliable
    BY <1>2, <1>8 DEF NoLoss
  <1>10. late' \subseteq RequestOf(Json)
    BY <1>3 DEF ClerkTyped
  <1> QED
    BY <1>1, <1>5, <1>7, <1>8, <1>9, <1>10, CallStep

-----------------------------------------------------------------------------
\* What the return of a Clerk method leaves alone, and what it ends.
LEMMA ReturnFacts ==
    ASSUME TestInv, NEW c \in Clients, Returned(c)
    PROVE  /\ UNCHANGED <<KeyValueItems, late, workload>>
           /\ ClerkTyped(Json)' /\ ItemsPositive' /\ decided' \in [Clients -> ReplyOf(Json)]
           /\ ~Busy(c)' /\ ~Putting(c)' /\ decided'[c] = ZeroReply
           /\ \A d \in Clients \ {c} : call'[d] = call[d] /\ decided'[d] = decided[d]
           /\ Version' = Version /\ Stored' = Stored
           /\ Replied(c)' /\ Decision(c)' /\ LeftOver'
           /\ Reliable => late' = {} /\ \A d \in Clients : ~call'[d].retried /\ call'[d].st # "failed"
  <1>1. /\ UNCHANGED <<KeyValueItems, late, workload>> /\ call[c].st = "replied"
        /\ call' = [call EXCEPT ![c] = NoCall] /\ decided' = [decided EXCEPT ![c] = ZeroReply]
        /\ ReturnThen(c, NoCall)
    BY DEF Returned, Return, ReturnThen
  <1>2. TestTypes /\ ClientOK(c) /\ LeftOver /\ NoLoss /\ Version \in Nat /\ call[c].version \in Nat
    BY SharedFacts, TestClientTypes DEF TestInv
  <1>3. /\ NoCall \in CallOf(Json) /\ NoCall.st = "idle" /\ NoCall.retried = FALSE
        /\ ZeroReply \in ReplyOf(Json)
    BY JsonFacts, CallTypesOf DEF NoCall, NewCall, ZeroReply, ReplyOf, Err
  <1>4. ClerkTyped(Json)' /\ ItemsPositive'
    BY <1>1, <1>2, <1>3, JsonFacts, ReturnTypesOf DEF TestTypes
  <1>5. /\ call'[c] = NoCall /\ decided'[c] = ZeroReply /\ decided' \in [Clients -> ReplyOf(Json)]
        /\ \A d \in Clients \ {c} : call'[d] = call[d] /\ decided'[d] = decided[d]
    BY <1>1, <1>2, <1>3 DEF TestTypes, ClerkTyped
  <1>6. ~Busy(c)' /\ ~Putting(c)'
    BY <1>3, <1>5 DEF Busy, Putting
  <1>7. Version' = Version /\ Stored' = Stored
    BY <1>1 DEF Version, Stored, CurVersion, CurValue, GetReply, Present
  <1>8. Replied(c)' /\ Decision(c)'
    BY <1>3, <1>5, <1>6 DEF Replied, Decision
  <1>9. LeftOver'
    <2> SUFFICES ASSUME NEW r \in late
                 PROVE  /\ r.key = Shared /\ r.version <= Version
                        /\ r.version = Version =>
                              /\ Putting(r.clnt)'
                              /\ call'[r.clnt].value = r.value /\ call'[r.clnt].version = r.version
                              /\ call'[r.clnt].retried \/ call'[r.clnt].st = "failed"
      BY <1>1, <1>7 DEF LeftOver
    <2>1. r.clnt \in Clients
      BY <1>2 DEF TestTypes, ClerkTyped, RequestOf
    <2>2. r.clnt = c => r.version # Version
      BY <1>1, <1>2 DEF LeftOver, ClientOK, Replied, Putting
    <2> QED
      BY <1>2, <1>5, <2>1, <2>2 DEF LeftOver, Putting, Busy
  <1>10. Reliable => late' = {} /\ \A d \in Clients : ~call'[d].retried /\ call'[d].st # "failed"
    BY <1>1, <1>2, <1>3, <1>5 DEF NoLoss
  <1> QED
    BY <1>1, <1>4, <1>5, <1>6, <1>7, <1>8, <1>9, <1>10

\* The numbers 0 .. n - 1 and one more.
LEMMA NextNumber ==
    ASSUME NEW S, NEW n \in Nat, IsFiniteSet(S), Cardinality(S) = n, S = 0 .. n - 1
    PROVE  /\ IsFiniteSet(S \cup {n}) /\ Cardinality(S \cup {n}) = n + 1
           /\ S \cup {n} = 0 .. (n + 1) - 1 /\ n \notin S
  <1>1. n \notin S /\ S \cup {n} = 0 .. (n + 1) - 1
    OBVIOUS
  <1>2. IsFiniteSet(S \cup {n}) /\ Cardinality(S \cup {n}) = n + 1
    <2>1. n \notin S
      BY <1>1
    <2> QED
      BY <2>1, FS_AddElement, Zenon
  <1> QED
    BY <1>1, <1>2

\* Counting an iteration begins the next one.
LEMMA CountedRounds ==
    ASSUME TestTypes, NEW c \in Clients, Rounds(c), NEW e \in Err, Counted(c, e)
    PROVE  /\ Rounds(c)' /\ Round(c) \notin ok[c] \cup maybe[c]
           /\ ok' \in [Clients -> SUBSET Nat] /\ maybe' \in [Clients -> SUBSET Nat]
           /\ ok'[c] = IF e = OK THEN ok[c] \cup {Round(c)} ELSE ok[c]
           /\ maybe'[c] = IF e = ErrMaybe THEN maybe[c] \cup {Round(c)} ELSE maybe[c]
           /\ \A d \in Clients \ {c} : ok'[d] = ok[d] /\ maybe'[d] = maybe[d]
           /\ Round(c)' = IF e \in {OK, ErrMaybe} THEN Round(c) + 1 ELSE Round(c)
  <1>0. OK # ErrMaybe
    BY ErrValues
  <1>1. /\ ok'[c] = IF e = OK THEN ok[c] \cup {Round(c)} ELSE ok[c]
        /\ maybe'[c] = IF e = ErrMaybe THEN maybe[c] \cup {Round(c)} ELSE maybe[c]
        /\ ok' \in [Clients -> SUBSET Nat] /\ maybe' \in [Clients -> SUBSET Nat]
        /\ \A d \in Clients \ {c} : ok'[d] = ok[d] /\ maybe'[d] = maybe[d]
    BY DEF TestTypes, Counted, Rounds
  <1>2. PICK n \in Nat : n = Round(c)
    BY DEF Rounds
  <1>3. PICK S \in SUBSET Nat : S = ok[c] \cup maybe[c]
    BY DEF TestTypes
  <1>4. IsFiniteSet(S) /\ Cardinality(S) = n /\ S = 0 .. n - 1
    <2>1. IsFiniteSet(ok[c] \cup maybe[c])
      BY FS_Union DEF Rounds
    <2> QED
      BY <1>2, <1>3, <2>1 DEF Rounds, Round
  <1>5. /\ IsFiniteSet(S \cup {n}) /\ Cardinality(S \cup {n}) = n + 1
        /\ S \cup {n} = 0 .. (n + 1) - 1 /\ n \notin S
    BY <1>4, NextNumber
  <1>6. IsFiniteSet(ok'[c]) /\ IsFiniteSet(maybe'[c])
    BY <1>1, FS_AddElement DEF Rounds
  <1>7. CASE e \in {OK, ErrMaybe}
    <2>1. ok'[c] \cup maybe'[c] = S \cup {n}
      BY <1>0, <1>1, <1>2, <1>3, <1>7
    <2>2. Round(c)' = n + 1
      BY <1>5, <2>1, Zenon DEF Round
    <2>3. ok'[c] \cap maybe'[c] = {}
      BY <1>0, <1>1, <1>2, <1>3, <1>5, <1>7 DEF Rounds
    <2>4. Rounds(c)'
      BY <1>5, <1>6, <2>1, <2>2, <2>3 DEF Rounds
    <2> QED
      BY <1>1, <1>2, <1>3, <1>5, <1>7, <2>2, <2>4
  <1>8. CASE e \notin {OK, ErrMaybe}
    <2>1. ok'[c] = ok[c] /\ maybe'[c] = maybe[c]
      BY <1>1, <1>8
    <2>2. Round(c)' = Round(c)
      BY <2>1 DEF Round
    <2> QED
      BY <1>1, <1>2, <1>3, <1>5, <1>8, <2>1, <2>2 DEF Rounds
  <1> QED
    BY <1>7, <1>8

\* What a Put is answered, and what that says of its effect.
LEMMA PutAnswer ==
    ASSUME TestInv, NEW c \in Clients, at[c] = "put", call[c].st = "replied"
    PROVE  /\ Answer(c).err \in {OK, ErrVersion, ErrMaybe}
           /\ Answer(c).err = OK => InHand(c)
           /\ Answer(c).err = ErrVersion => ~InHand(c)
           /\ Answer(c).err = ErrMaybe => ~Reliable
           /\ Version > 0 /\ err[c] = NoErr
  <1>1. Place(c) /\ Replied(c) /\ Busy(c) /\ NoLoss /\ Version \in Nat /\ call[c].version \in Nat
        /\ call[c].reply \in ReplyOf(Json) /\ call[c].retried \in BOOLEAN
    BY SharedFacts, TestClientTypes DEF TestInv, ClientOK, Busy
  <1>2. call[c].op = "Put" /\ Putting(c) /\ err[c] = NoErr
    BY <1>1 DEF Place, Putting
  <1>3. Answer(c).err = ClerkErr(c)
    BY <1>1 DEF Answer, ReplyOf
  <1>4. InHand(c) <=> decided[c].err = OK
    BY <1>2 DEF InHand
  <1>5. /\ call[c].reply.err \in {OK, ErrVersion} /\ call[c].version < Version
        /\ call[c].reply.err = OK => decided[c].err = OK
        /\ ~call[c].retried /\ call[c].reply.err = ErrVersion => decided[c].err = ErrVersion
    BY <1>1, <1>2 DEF Replied
  <1>6. Reliable => ~call[c].retried
    BY <1>1 DEF NoLoss
  <1>7. Version > 0
    BY <1>1, <1>5
  <1> QED
    BY <1>2, <1>3, <1>4, <1>5, <1>6, <1>7, ErrValues DEF ClerkErr

\* The return of a Put: OnePut looks at the error, OneClientAppend counts it.
LEMMA PutReturnedInv ==
    ASSUME TestInv, NEW c \in Clients, PutReturned(c)
    PROVE  TestInv'
  <1>1. Returned(c) /\ at[c] = "put" /\ call[c].st = "replied"
    BY DEF PutReturned, Returned, Return, ReturnThen
  <1>2. PICK e \in Err : e = Answer(c).err
    BY <1>1, PutAnswer, ErrValues
  <1>3. /\ e \in {OK, ErrVersion, ErrMaybe}
        /\ e = OK => InHand(c)
        /\ e = ErrVersion => ~InHand(c)
        /\ e = ErrMaybe => ~Reliable
        /\ Version > 0 /\ err[c] = NoErr
    BY <1>1, <1>2, PutAnswer
  <1>4. /\ TestTypes /\ Rounds(c) /\ Place(c) /\ Knows(c) /\ Appended(c) /\ NoLoss /\ NeverFails
        /\ Version \in Nat /\ Round(c) \in Nat
    BY SharedFacts DEF TestInv, ClientOK, Rounds
  <1>5. /\ UNCHANGED <<KeyValueItems, late, workload>>
        /\ ClerkTyped(Json)' /\ ItemsPositive' /\ decided' \in [Clients -> ReplyOf(Json)]
        /\ ~Busy(c)' /\ ~Putting(c)' /\ decided'[c] = ZeroReply
        /\ \A d \in Clients \ {c} : call'[d] = call[d] /\ decided'[d] = decided[d]
        /\ Version' = Version /\ Stored' = Stored
        /\ Replied(c)' /\ Decision(c)' /\ LeftOver'
        /\ Reliable => late' = {} /\ \A d \in Clients : ~call'[d].retried /\ call'[d].st # "failed"
    BY <1>1, ReturnFacts
  <1>6. CASE workload = "put"
    <2>1. OnePutPut(c, e)
      BY <1>2, <1>6 DEF PutReturned
    <2>2. /\ err' = [err EXCEPT ![c] = e] /\ at' = [at EXCEPT ![c] = "get"]
          /\ UNCHANGED <<verdict, verm, list, ok, maybe>>
      BY <1>3, <2>1 DEF OnePutPut
    <2>3. /\ err'[c] = e /\ at'[c] = "get" /\ Round(c)' = Round(c)
          /\ err' \in [Clients -> Err] /\ at' \in [Clients -> {"top", "get", "put", "over"}]
          /\ \A d \in Clients \ {c} : err'[d] = err[d] /\ at'[d] = at[d]
      BY <1>4, <2>2 DEF TestTypes, Round
    <2>4. TestTypes' /\ Only(c)
      BY <1>4, <1>5, <2>2, <2>3 DEF TestTypes, Only
    <2>5. Had(c)' = Had(c) \/ (~Reliable /\ Had(c)' = Had(c) \cup {Round(c)})
      <3>1. InHand(c)' <=> e \in {OK, ErrMaybe}
        BY <1>5, <1>6, <2>3 DEF InHand
      <3> QED
        BY <1>3, <2>2, <2>3, <3>1, ErrValues DEF Had
    <2>6. Rounds(c)'
      BY <1>4, <2>2, <2>3 DEF Rounds
    <2>7. Place(c)'
      BY <1>3, <1>5, <1>6, <2>3 DEF Place
    <2>8. Knows(c)'
      BY <1>3, <1>4, <1>5, <1>6, <2>2, <2>3 DEF Knows
    <2>9. Appended(c)'
      BY <1>5, <1>6 DEF Appended
    <2>10. NoLoss' /\ NeverFails'
      BY <1>3, <1>4, <1>5, <2>2, <2>3, ErrValues DEF NoLoss, NeverFails, Reliable
    <2>11. ClientOK(c)'
      BY <1>5, <2>6, <2>7, <2>8, <2>9 DEF ClientOK
    <2> QED
      BY <1>4, <1>5, <2>4, <2>5, <2>10, <2>11, QuietStep
  <1>7. CASE workload = "append"
    <2>1. AppendPut(c, e)
      BY <1>2, <1>7 DEF PutReturned
    <2>2. /\ Counted(c, e) /\ UNCHANGED <<err, verdict>>
          /\ at' = [at EXCEPT ![c] = IF e \in {OK, ErrMaybe} THEN "top" ELSE "get"]
          /\ list' = [list EXCEPT ![c] = <<>>] /\ verm' = [verm EXCEPT ![c] = 0]
      BY <2>1 DEF AppendPut
    <2>3. /\ at'[c] \in {"top", "get"} /\ verm'[c] = 0
          /\ at' \in [Clients -> {"top", "get", "put", "over"}]
          /\ list' \in [Clients -> Json] /\ verm' \in [Clients -> Nat]
          /\ \A d \in Clients \ {c} : at'[d] = at[d] /\ list'[d] = list[d] /\ verm'[d] = verm[d]
      BY <1>4, <2>2, JsonFacts DEF TestTypes
    <2>4. /\ Rounds(c)' /\ Round(c) \notin ok[c] \cup maybe[c]
          /\ ok' \in [Clients -> SUBSET Nat] /\ maybe' \in [Clients -> SUBSET Nat]
          /\ ok'[c] = IF e = OK THEN ok[c] \cup {Round(c)} ELSE ok[c]
          /\ maybe'[c] = IF e = ErrMaybe THEN maybe[c] \cup {Round(c)} ELSE maybe[c]
          /\ \A d \in Clients \ {c} : ok'[d] = ok[d] /\ maybe'[d] = maybe[d]
          /\ Round(c)' = IF e \in {OK, ErrMaybe} THEN Round(c) + 1 ELSE Round(c)
      BY <1>4, <2>2, CountedRounds
    <2>5. TestTypes' /\ Only(c)
      BY <1>4, <1>5, <2>2, <2>3, <2>4 DEF TestTypes, Only
    <2>6. ~InHand(c)'
      BY <1>5, <1>7 DEF InHand
    <2>7. Had(c)' = Had(c) \/ (~Reliable /\ Had(c)' = Had(c) \cup {Round(c)})
      BY <1>3, <2>4, <2>6, ErrValues DEF Had
    <2>8. Place(c)'
      BY <1>3, <1>5, <1>7, <2>2, <2>3 DEF Place
    <2>9. Knows(c)'
      BY <1>3, <1>4, <1>5, <1>7, <2>3 DEF Knows
    <2>10. Appended(c)'
      <3>1. Own(Stored, c)' = Own(Stored, c) /\ Ns(Stored, c)' = Ns(Stored, c)
        BY <1>5 DEF Own, Ns
      <3>2. Had(c) \subseteq Had(c)'
        BY <2>7
      <3>3. ok'[c] \subseteq Ns(Stored, c)
        BY <1>3, <1>4, <1>7, <2>4 DEF Appended
      <3> QED
        BY <1>4, <1>5, <1>7, <2>6, <3>1, <3>2, <3>3 DEF Appended
    <2>11. NoLoss' /\ NeverFails'
      BY <1>3, <1>4, <1>5, <2>2, <2>4 DEF NoLoss, NeverFails, Reliable
    <2>12. ClientOK(c)'
      BY <1>5, <2>4, <2>8, <2>9, <2>10 DEF ClientOK
    <2> QED
      BY <1>4, <1>5, <2>5, <2>7, <2>11, <2>12, QuietStep
  <1> QED
    BY <1>6, <1>7 DEF PutReturned

\* The return of a Get: OnePut compares what it reads and counts, OneClientAppend
\* takes the list.
LEMMA GetReturnedInv ==
    ASSUME TestInv, NEW c \in Clients, GetReturned(c)
    PROVE  TestInv'
  <1>1. Returned(c) /\ at[c] = "get" /\ call[c].st = "replied"
    BY DEF GetReturned, Returned, Return, ReturnThen
  <1>2. /\ TestTypes /\ Rounds(c) /\ Place(c) /\ Knows(c) /\ Appended(c) /\ Replied(c)
        /\ NoLoss /\ NeverFails
        /\ Version \in Nat /\ Round(c) \in Nat /\ verm[c] \in Nat /\ err[c] \in Err
        /\ call[c].reply \in ReplyOf(Json) /\ Busy(c)
    BY <1>1, SharedFacts, TestClientTypes DEF TestInv, ClientOK, Rounds, Busy
  <1>3. call[c].op = "Get" /\ ~Putting(c)
    BY <1>1, <1>2 DEF Place, Putting
  <1>4. PICK r \in ReplyOf(Json) : r = call[c].reply
    BY <1>2
  <1>5. /\ r.err = OK /\ r.version > 0 /\ Snapshot(r.value, r.version)
        /\ r.version \in Nat /\ r.value \in Json
    BY <1>1, <1>2, <1>3, <1>4 DEF Replied, ReplyOf
  <1>6. Answer(c) = r
    <2>1. ClerkErr(c) = r.err
      BY <1>4, <1>5, ErrValues DEF ClerkErr
    <2> QED
      BY <1>4, <2>1 DEF Answer, ReplyOf
  <1>7. /\ UNCHANGED <<KeyValueItems, late, workload>>
        /\ ClerkTyped(Json)' /\ ItemsPositive' /\ decided' \in [Clients -> ReplyOf(Json)]
        /\ ~Busy(c)' /\ ~Putting(c)' /\ decided'[c] = ZeroReply
        /\ \A d \in Clients \ {c} : call'[d] = call[d] /\ decided'[d] = decided[d]
        /\ Version' = Version /\ Stored' = Stored
        /\ Replied(c)' /\ Decision(c)' /\ LeftOver'
        /\ Reliable => late' = {} /\ \A d \in Clients : ~call'[d].retried /\ call'[d].st # "failed"
    BY <1>1, ReturnFacts
  <1>8. CASE workload = "put"
    <2>1. OnePutGot(c, r)
      BY <1>6, <1>8 DEF GetReturned
    <2>2. err[c] \in {OK, ErrVersion, ErrMaybe}
      BY <1>1, <1>2, <1>8 DEF Place
    <2>3. r.version = verm[c] + 1 => r.value[1].n = verm[c]
      <3>1. r.value \in Seq(Entry) /\ Len(r.value) = 1 /\ r.value[1].n + 1 = r.version
        BY <1>2, <1>5, <1>8 DEF Snapshot, Fits
      <3>2. r.value[1] \in Entry
        BY <3>1
      <3>3. r.value[1].n \in Nat
        BY <3>2 DEF Entry
      <3> QED
        BY <1>2, <3>1, <3>3
    <2>4. /\ Counted(c, err[c]) /\ UNCHANGED <<verdict, list>>
          /\ verm' = [verm EXCEPT ![c] = r.version]
          /\ at' = [at EXCEPT ![c] = IF err[c] = ErrVersion THEN "put" ELSE "top"]
          /\ err' = [err EXCEPT ![c] = NoErr]
      BY <1>5, <2>1, <2>3 DEF OnePutGot
    <2>5. /\ at'[c] \in {"put", "top"} /\ verm'[c] = r.version /\ err'[c] = NoErr
          /\ at' \in [Clients -> {"top", "get", "put", "over"}]
          /\ err' \in [Clients -> Err] /\ verm' \in [Clients -> Nat]
          /\ \A d \in Clients \ {c} : at'[d] = at[d] /\ err'[d] = err[d] /\ verm'[d] = verm[d]
      BY <1>2, <1>5, <2>4, ErrValues DEF TestTypes
    <2>6. PICK e \in Err : e = err[c]
      BY <1>2
    <2>7. /\ Rounds(c)' /\ Round(c) \notin ok[c] \cup maybe[c]
          /\ ok' \in [Clients -> SUBSET Nat] /\ maybe' \in [Clients -> SUBSET Nat]
          /\ ok'[c] = IF e = OK THEN ok[c] \cup {Round(c)} ELSE ok[c]
          /\ maybe'[c] = IF e = ErrMaybe THEN maybe[c] \cup {Round(c)} ELSE maybe[c]
          /\ \A d \in Clients \ {c} : ok'[d] = ok[d] /\ maybe'[d] = maybe[d]
          /\ Round(c)' = IF e \in {OK, ErrMaybe} THEN Round(c) + 1 ELSE Round(c)
      BY <1>2, <2>4, <2>6, CountedRounds
    <2>8. TestTypes' /\ Only(c)
      BY <1>2, <1>7, <2>4, <2>5, <2>7 DEF TestTypes, Only
    <2>9. Had(c)' = Had(c)
      <3>1. InHand(c) <=> e \in {OK, ErrMaybe}
        BY <1>1, <1>3, <1>8, <2>6 DEF InHand
      <3>2. ~InHand(c)'
        BY <1>7, <2>5 DEF InHand
      <3> QED
        BY <2>7, <3>1, <3>2, ErrValues DEF Had
    <2>10. Place(c)'
      BY <1>7, <2>5 DEF Place
    <2>11. Knows(c)'
      BY <1>1, <1>2, <1>5, <1>7, <1>8, <2>5 DEF Knows, Snapshot
    <2>12. Appended(c)'
      BY <1>7, <1>8 DEF Appended
    <2>13. NoLoss' /\ NeverFails'
      BY <1>2, <1>7, <2>4, <2>5, <2>6, <2>7, ErrValues DEF NoLoss, NeverFails, Reliable
    <2>14. ClientOK(c)'
      BY <1>7, <2>7, <2>10, <2>11, <2>12 DEF ClientOK
    <2> QED
      BY <1>2, <1>7, <2>8, <2>9, <2>13, <2>14, QuietStep
  <1>9. CASE workload = "append"
    <2>1. AppendGot(c, r)
      BY <1>6, <1>9 DEF GetReturned
    <2>2. /\ UNCHANGED <<verdict, err, ok, maybe>>
          /\ verm' = [verm EXCEPT ![c] = r.version] /\ list' = [list EXCEPT ![c] = r.value]
          /\ at' = [at EXCEPT ![c] = "put"]
      BY <1>5, <2>1 DEF AppendGot
    <2>3. /\ at'[c] = "put" /\ verm'[c] = r.version /\ list'[c] = r.value /\ Round(c)' = Round(c)
          /\ at' \in [Clients -> {"top", "get", "put", "over"}]
          /\ list' \in [Clients -> Json] /\ verm' \in [Clients -> Nat]
          /\ \A d \in Clients \ {c} : at'[d] = at[d] /\ list'[d] = list[d] /\ verm'[d] = verm[d]
      BY <1>2, <1>5, <2>2 DEF TestTypes, Round
    <2>4. TestTypes' /\ Only(c)
      BY <1>2, <1>7, <2>2, <2>3 DEF TestTypes, Only
    <2>5. ~InHand(c) /\ ~InHand(c)' /\ Had(c)' = Had(c)
      <3>1. ~InHand(c)
        BY <1>3, <1>9 DEF InHand
      <3>2. ~InHand(c)'
        BY <1>7, <1>9 DEF InHand
      <3> QED
        BY <2>2, <2>3, <3>1, <3>2 DEF Had
    <2>6. Rounds(c)' /\ Place(c)'
      <3>1. Rounds(c)'
        BY <1>2, <2>2, <2>3 DEF Rounds
      <3>2. Place(c)'
        BY <1>1, <1>2, <1>7, <1>9, <2>2, <2>3 DEF Place
      <3> QED
        BY <3>1, <3>2
    <2>7. Knows(c)'
      BY <1>1, <1>2, <1>5, <1>7, <1>9, <2>3 DEF Knows, Snapshot, Fits
    <2>8. Appended(c)'
      BY <1>2, <1>7, <2>2, <2>5 DEF Appended, Own, Ns
    <2>9. NoLoss' /\ NeverFails'
      BY <1>2, <1>7, <2>2 DEF NoLoss, NeverFails, Reliable
    <2>10. ClientOK(c)'
      BY <1>7, <2>6, <2>7, <2>8 DEF ClientOK
    <2> QED
      BY <1>2, <1>7, <2>4, <2>5, <2>9, <2>10, QuietStep
  <1> QED
    BY <1>8, <1>9 DEF GetReturned

-----------------------------------------------------------------------------
\* t is the list s, of length m, with one more entry of client c.
OneMore(s, t, c, m) ==
    /\ DOMAIN s = 1 .. m /\ DOMAIN t = 1 .. m + 1
    /\ \A i \in 1 .. m : t[i] = s[i]
    /\ t[m + 1].id = c

LEMMA OneMoreEntry ==
    ASSUME NEW s, NEW t, NEW c \in Clients, NEW m \in Nat, OneMore(s, t, c, m)
    PROVE  /\ Own(t, c) = Own(s, c) \cup {m + 1}
           /\ Ns(t, c) = Ns(s, c) \cup {t[m + 1].n}
           /\ \A i \in Own(s, c) : i \in 1 .. m /\ t[i] = s[i] /\ s[i].n \in Ns(s, c)
  <1>1. 1 .. m + 1 = 1 .. m \cup {m + 1} /\ m + 1 \notin 1 .. m
    OBVIOUS
  <1>2. Own(t, c) = Own(s, c) \cup {m + 1}
    BY <1>1 DEF Own, OneMore
  <1>3. \A i \in Own(s, c) : i \in 1 .. m /\ t[i] = s[i] /\ s[i].n \in Ns(s, c)
    BY DEF Own, Ns, OneMore
  <1>4. Ns(t, c) = Ns(s, c) \cup {t[m + 1].n}
    BY <1>2, <1>3 DEF Ns
  <1> QED
    BY <1>2, <1>3, <1>4

\* What the handler decides for a Put of client c, whoever waits for it.
LEMMA PutDecides ==
    ASSUME TestInv, NEW c \in Clients, Putting(c),
           handlePut(Shared, call[c].value, call[c].version),
           Decides(c, PutErr(Shared, call[c].version))
    PROVE  /\ call[c].version <= Version
           /\ PutErr(Shared, call[c].version) = IF call[c].version = Version THEN OK ELSE ErrVersion
           /\ decided' \in [Clients -> ReplyOf(Json)]
           /\ \A d \in Clients \ {c} : decided'[d] = decided[d]
           /\ decided'[c].err = IF call[c].version = Version \/ decided[c].err = OK THEN OK ELSE ErrVersion
           /\ decided'[c] = [ZeroReply EXCEPT !.err = decided'[c].err]
           /\ call[c].version = Version => decided[c].err # OK
           /\ call[c].version = Version => Version' = Version + 1 /\ Stored' = call[c].value
           /\ call[c].version # Version => Version' = Version /\ Stored' = Stored
  <1>1. /\ TestTypes /\ Place(c) /\ Knows(c) /\ Decision(c) /\ Version \in Nat
        /\ call[c].version \in Nat /\ call[c].value \in Json /\ decided[c] \in ReplyOf(Json)
    BY SharedFacts, TestClientTypes DEF TestInv, ClientOK, CallOf
  <1>2. call[c].version <= Version
    BY <1>1 DEF Place, Knows
  <1>3. ServerTyped(Json) /\ ItemsPositive /\ Empty \in Json
    BY <1>1, JsonFacts DEF TestTypes, ClerkTyped
  <1>4. /\ PutErr(Shared, call[c].version) = IF call[c].version = Version THEN OK ELSE ErrVersion
        /\ call[c].version = Version => Version' = Version + 1 /\ Stored' = call[c].value
        /\ call[c].version # Version => UNCHANGED KeyValueItems
    BY <1>1, <1>2, <1>3, SharedKey, PutEffectOf DEF Version, Stored
  <1>5. call[c].version # Version => Version' = Version /\ Stored' = Stored
    BY <1>4 DEF Version, Stored, CurVersion, CurValue, GetReply, Present
  <1>6. /\ decided[c] = [ZeroReply EXCEPT !.err = decided[c].err]
        /\ decided[c].err \in {NoErr, OK, ErrVersion}
        /\ decided[c].err = OK => call[c].version < Version
    BY <1>1 DEF Decision
  <1>7. PICK e \in Err : e = PutErr(Shared, call[c].version)
    BY <1>4, ErrValues
  <1>8. decided' = [decided EXCEPT ![c] = IF decided[c].err = OK THEN decided[c]
                                          ELSE [decided[c] EXCEPT !.err = e]]
    BY <1>7 DEF Decides
  <1>9. [decided[c] EXCEPT !.err = e] \in ReplyOf(Json) /\ [decided[c] EXCEPT !.err = e].err = e
    BY <1>1 DEF ReplyOf
  <1>10. [decided[c] EXCEPT !.err = e] = [ZeroReply EXCEPT !.err = e]
    BY <1>6 DEF ZeroReply
  <1>11. /\ decided' \in [Clients -> ReplyOf(Json)]
         /\ \A d \in Clients \ {c} : decided'[d] = decided[d]
         /\ decided'[c] = IF decided[c].err = OK THEN decided[c] ELSE [decided[c] EXCEPT !.err = e]
    BY <1>1, <1>8, <1>9 DEF TestTypes
  <1>12. decided'[c].err = IF call[c].version = Version \/ decided[c].err = OK THEN OK ELSE ErrVersion
    BY <1>4, <1>6, <1>7, <1>9, <1>11
  <1>13. decided'[c] = [ZeroReply EXCEPT !.err = decided'[c].err]
    BY <1>6, <1>9, <1>10, <1>11
  <1>14. call[c].version = Version => decided[c].err # OK
    BY <1>1, <1>6
  <1> QED
    BY <1>2, <1>4, <1>5, <1>11, <1>12, <1>13, <1>14

\* A Put of client c runs, in the call or left behind by it.
LEMMA PutRuns ==
    ASSUME TestInv, NEW c \in Clients, Putting(c),
           handlePut(Shared, call[c].value, call[c].version),
           Decides(c, PutErr(Shared, call[c].version)),
           UNCHANGED <<workload, at, verm, list, err, ok, maybe, verdict>>,
           ClerkTyped(Json)', ItemsPositive', late' \subseteq late,
           \A d \in Clients \ {c} : call'[d] = call[d],
           call'[c].op = "Put", call'[c].key = call[c].key, call'[c].value = call[c].value,
           call'[c].version = call[c].version, call'[c].retried = call[c].retried,
           call'[c].st # "idle", call[c].st # "failed" => call'[c].st # "failed",
           call[c].version = Version => call[c].retried \/ call'[c].st # "sent",
           call'[c].st = "sent" => call[c].st = "sent",
           Replied(c)'
    PROVE  TestInv'
  <1>1. /\ call[c].version <= Version
        /\ PutErr(Shared, call[c].version) = IF call[c].version = Version THEN OK ELSE ErrVersion
        /\ decided' \in [Clients -> ReplyOf(Json)]
        /\ \A d \in Clients \ {c} : decided'[d] = decided[d]
        /\ decided'[c].err = IF call[c].version = Version \/ decided[c].err = OK THEN OK ELSE ErrVersion
        /\ decided'[c] = [ZeroReply EXCEPT !.err = decided'[c].err]
        /\ call[c].version = Version => decided[c].err # OK
        /\ call[c].version = Version => Version' = Version + 1 /\ Stored' = call[c].value
        /\ call[c].version # Version => Version' = Version /\ Stored' = Stored
    BY PutDecides
  <1>2. /\ TestTypes /\ Rounds(c) /\ Place(c) /\ Knows(c) /\ Decision(c) /\ Appended(c)
        /\ LeftOver /\ NoLoss /\ NeverFails
        /\ Version \in Nat /\ call[c].version \in Nat /\ Round(c) \in Nat /\ verm[c] \in Nat
        /\ ok[c] \subseteq Nat /\ maybe[c] \subseteq Nat
    BY SharedFacts, TestClientTypes DEF TestInv, ClientOK, Rounds
  <1>3. /\ Busy(c) /\ call[c].op = "Put" /\ at[c] = "put" /\ call[c].key = Shared
        /\ call[c].version = verm[c] /\ call[c].value = Entries(c)
    BY <1>2 DEF Place, Putting
  <1>4. /\ Busy(c)' /\ Putting(c)' /\ Round(c)' = Round(c) /\ Entries(c)' = Entries(c)
    BY DEF Busy, Putting, Round, Entries
  <1>5. TestTypes' /\ Only(c)
    BY <1>1, <1>2 DEF TestTypes, Only
  <1>6. /\ Had(c) = ok[c] \cup maybe[c] \cup (IF decided[c].err = OK THEN {Round(c)} ELSE {})
        /\ Had(c)' = ok[c] \cup maybe[c] \cup (IF decided'[c].err = OK THEN {Round(c)} ELSE {})
        /\ InHand(c) <=> decided[c].err = OK
        /\ InHand(c)' <=> decided'[c].err = OK
    <2>1. InHand(c) <=> decided[c].err = OK
      BY <1>3 DEF InHand, Putting
    <2>2. InHand(c)' <=> decided'[c].err = OK
      BY <1>3, <1>4 DEF InHand
    <2> QED
      BY <1>4, <2>1, <2>2 DEF Had
  <1>7. /\ Entries(c) \in Seq(Entry) /\ Fits(Entries(c), verm[c] + 1)
        /\ workload = "append" =>
              Entries(c) = Append(list[c], [id |-> c, n |-> Round(c)]) /\ list[c] \in Seq(Entry)
    BY <1>2, <1>3, EntriesFit
  <1>8. Rounds(c)' /\ Place(c)' /\ Knows(c)'
    <2>1. Rounds(c)'
      BY <1>2, <1>4 DEF Rounds
    <2>2. Place(c)'
      BY <1>2, <1>3, <1>4 DEF Place
    <2>3. Knows(c)'
      BY <1>1, <1>2, <1>4 DEF Knows, Snapshot, Fits
    <2> QED
      BY <2>1, <2>2, <2>3
  <1>9. Decision(c)'
    <2>1. decided'[c].err = OK => call[c].version < Version'
      BY <1>1, <1>2, <1>3 DEF Decision
    <2>2. decided'[c].err \in {NoErr, OK, ErrVersion}
      BY <1>1
    <2>3. call'[c].st = "sent" /\ ~call'[c].retried => decided'[c].err # OK
      BY <1>1, <1>2, <1>3, ErrValues DEF Decision, Putting
    <2> QED
      BY <1>1, <1>4, <2>1, <2>2, <2>3 DEF Decision
  <1>10. NoLoss' /\ NeverFails'
    <2>1. Reliable => \A d \in Clients : ~call'[d].retried /\ call'[d].st # "failed"
      BY <1>2 DEF NoLoss
    <2> QED
      BY <1>2, <2>1 DEF NoLoss, NeverFails, Reliable
  <1>11. CASE call[c].version = Version
    <2>1. /\ Version' = Version + 1 /\ Stored' = Entries(c) /\ Fits(Stored', Version + 1)
          /\ decided'[c].err = OK /\ decided[c].err # OK
      BY <1>1, <1>3, <1>7, <1>11
    <2>2. Round(c) \notin Had(c) /\ Had(c)' = Had(c) \cup {Round(c)} /\ Had(c) = ok[c] \cup maybe[c]
          /\ Had(c) = 0 .. Round(c) - 1
      BY <1>2, <1>6, <2>1 DEF Rounds
    <2>3. ASSUME workload = "append"
          PROVE  /\ Stored \in Seq(Entry) /\ Stored' = Append(Stored, [id |-> c, n |-> Round(c)])
                 /\ [id |-> c, n |-> Round(c)] \in Entry
      <3>1. list[c] = Stored
        BY <1>2, <1>3, <1>11, <2>3 DEF Knows, Snapshot
      <3>2. [id |-> c, n |-> Round(c)] \in Entry
        BY <1>2 DEF Entry
      <3> QED
        BY <1>7, <2>1, <2>3, <3>1, <3>2
    <2>4. workload = "append" =>
              /\ Stored \in Seq(Entry)
              /\ \E e \in Entry : e.id = c /\ Stored' = Append(Stored, e)
      BY <2>3
    <2>5. Appended(c)'
      <3> SUFFICES ASSUME workload = "append"
                   PROVE  /\ Ns(Stored', c) \subseteq Had(c)'
                          /\ ok[c] \subseteq Ns(Stored', c)
                          /\ Round(c) \in Ns(Stored', c)
                          /\ \A i, j \in Own(Stored', c) : i < j => Stored'[i].n < Stored'[j].n
        BY <1>4 DEF Appended, Own, Ns
      <3>1. PICK s \in Seq(Entry) : s = Stored
        BY <2>3
      <3>2. PICK n \in Nat : n = Round(c)
        BY <1>2
      <3>3. Stored' = Append(s, [id |-> c, n |-> n])
        BY <2>3, <3>1, <3>2
      <3>4. PICK t \in Seq(Entry) : t = Stored'
        BY <1>7, <2>1
      <3>5. /\ Own(t, c) = Own(s, c) \cup {Len(s) + 1}
            /\ Ns(t, c) = Ns(s, c) \cup {n}
            /\ \A i \in Own(s, c) : i \in 1 .. Len(s) /\ t[i] = s[i] /\ s[i].n \in Ns(s, c)
            /\ t[Len(s) + 1].n = n
            /\ Len(s) \in Nat
        <4>1. PICK e \in Entry : e = [id |-> c, n |-> n]
          BY DEF Entry
        <4>2. t = Append(s, e) /\ e.id = c /\ e.n = n
          BY <3>3, <3>4, <4>1
        <4>3. PICK m \in Nat : m = Len(s)
          OBVIOUS
        <4>4. /\ DOMAIN s = 1 .. m /\ DOMAIN t = 1 .. m + 1
              /\ \A i \in 1 .. m : t[i] = s[i]
              /\ t[m + 1] = e
          BY <4>2, <4>3
        <4>5. t[m + 1].id = c /\ t[m + 1].n = n
          BY <4>2, <4>4
        <4>6. OneMore(s, t, c, m)
          BY <4>4, <4>5 DEF OneMore
        <4>7. /\ Own(t, c) = Own(s, c) \cup {m + 1}
              /\ Ns(t, c) = Ns(s, c) \cup {t[m + 1].n}
              /\ \A i \in Own(s, c) : i \in 1 .. m /\ t[i] = s[i] /\ s[i].n \in Ns(s, c)
          BY <4>6, OneMoreEntry
        <4> QED
          BY <4>3, <4>5, <4>7
      <3>6. /\ Ns(s, c) \subseteq Had(c) /\ ok[c] \subseteq Ns(s, c)
            /\ \A i, j \in Own(s, c) : i < j => s[i].n < s[j].n
        BY <1>2, <3>1 DEF Appended
      <3>7. \A i \in Own(s, c) : s[i].n < n
        BY <2>2, <3>2, <3>5, <3>6
      <3>8. ASSUME NEW i \in Own(t, c), NEW j \in Own(t, c), i < j PROVE t[i].n < t[j].n
        BY <3>5, <3>6, <3>7, <3>8
      <3>9. Ns(t, c) \subseteq Had(c)' /\ ok[c] \subseteq Ns(t, c) /\ n \in Ns(t, c)
        BY <2>2, <3>2, <3>5, <3>6
      <3> QED
        BY <3>2, <3>4, <3>8, <3>9
    <2>6. ClientOK(c)'
      BY <1>8, <1>9, <2>5 DEF ClientOK
    <2>7. LeftOver'
      <3>1. \A r \in late : r.key = Shared /\ r.version <= Version /\ r.version \in Nat
        BY <1>2 DEF LeftOver, TestTypes, ClerkTyped, RequestOf
      <3>2. \A r \in late' : r.key = Shared /\ r.version <= Version' /\ r.version # Version'
        BY <1>2, <2>1, <3>1
      <3> QED
        BY <3>2 DEF LeftOver
    <2>8. Snapshot(Stored, Version)' /\ (\A d \in Clients : ClientOK(d)') /\ PutCount'
      BY <1>2, <1>5, <2>1, <2>2, <2>4, <2>6, OneClient
    <2> QED
      BY <1>5, <1>10, <2>7, <2>8 DEF TestInv
  <1>12. CASE call[c].version # Version
    <2>1. /\ Version' = Version /\ Stored' = Stored
          /\ decided'[c].err = OK <=> decided[c].err = OK
      BY <1>1, <1>12, ErrValues
    <2>2. Had(c)' = Had(c) /\ (InHand(c)' <=> InHand(c))
      BY <1>6, <2>1
    <2>3. Appended(c)'
      BY <1>2, <1>4, <2>1, <2>2 DEF Appended, Own, Ns
    <2>4. ClientOK(c)'
      BY <1>8, <1>9, <2>3 DEF ClientOK
    <2>5. LeftOver'
      <3> SUFFICES ASSUME NEW r \in late, r.version = Version
                   PROVE  /\ Putting(r.clnt)'
                          /\ call'[r.clnt].value = r.value /\ call'[r.clnt].version = r.version
                          /\ call'[r.clnt].retried \/ call'[r.clnt].st = "failed"
        BY <1>2, <2>1 DEF LeftOver
      <3>1. r.clnt \in Clients /\ r.clnt # c
        BY <1>2, <1>12 DEF LeftOver, TestTypes, ClerkTyped, RequestOf
      <3> QED
        BY <1>2, <3>1 DEF LeftOver, Putting, Busy
    <2>6. Snapshot(Stored, Version)' /\ (\A d \in Clients : ClientOK(d)') /\ PutCount'
      BY <1>2, <1>5, <2>1, <2>2, <2>4, OneClient
    <2> QED
      BY <1>5, <1>10, <2>5, <2>6 DEF TestInv
  <1> QED
    BY <1>11, <1>12

\* The handler runs while its caller waits for it.
LEMMA TestHandleInv ==
    ASSUME TestInv, NEW c \in Clients, TestHandle(c)
    PROVE  TestInv'
  <1>1. /\ Execute(c) /\ call[c].st = "sent" /\ UNCHANGED late
        /\ UNCHANGED <<workload, at, verm, list, err, ok, maybe, verdict>>
    BY DEF TestHandle, Execute, clntVars
  <1>2. /\ TestTypes /\ ClientOK(c) /\ Rounds(c) /\ Place(c) /\ Knows(c) /\ Decision(c) /\ Appended(c)
        /\ LeftOver /\ NoLoss /\ NeverFails /\ Snapshot(Stored, Version)
        /\ Version \in Nat /\ call[c] \in CallOf(Json) /\ call[c].op \in {"Get", "Put"}
        /\ call \in [Clients -> CallOf(Json)] /\ call[c].version \in Nat
    BY SharedFacts, TestClientTypes DEF TestInv, ClientOK, TestTypes, ClerkTyped
  <1>3. ClerkTyped(Json)' /\ ItemsPositive'
    BY <1>1, <1>2, JsonFacts, ExecuteTypesOf DEF TestTypes
  <1>4. Busy(c) /\ call[c].key = Shared
    BY <1>1, <1>2 DEF Busy, Place
  <1>5. CASE call[c].op = "Get"
    <2>1. PICK rep \in ReplyOf(Json) : rep = GetReply(Shared)
      BY <1>2, SharedFacts
    <2>2. /\ call' = [call EXCEPT ![c].st = "replied", ![c].reply = rep]
          /\ decided' = [decided EXCEPT ![c] = rep] /\ UNCHANGED KeyValueItems
      BY <1>4, <1>5, <2>1 DEF TestHandle, Execute
    <2>3. /\ call'[c] = [call[c] EXCEPT !.st = "replied", !.reply = rep] /\ decided'[c] = rep
          /\ \A d \in Clients \ {c} : call'[d] = call[d] /\ decided'[d] = decided[d]
          /\ decided' \in [Clients -> ReplyOf(Json)]
      BY <1>2, <2>2 DEF TestTypes
    <2>4. /\ call'[c].st = "replied" /\ call'[c].op = "Get" /\ call'[c].key = Shared
          /\ call'[c].reply = rep
          /\ call'[c].retried = call[c].retried
      BY <1>2, <1>4, <1>5, <2>3 DEF CallOf
    <2>5. /\ Version' = Version /\ Stored' = Stored /\ Round(c)' = Round(c)
          /\ Busy(c)' /\ ~Putting(c)' /\ ~Putting(c)
      BY <1>1, <1>5, <2>2, <2>4
      DEF Version, Stored, CurVersion, CurValue, GetReply, Present, Round, Busy, Putting
    <2>6. at[c] = "get" /\ Version > 0
      BY <1>2, <1>4, <1>5 DEF Place, Knows
    <2>7. rep.err = OK /\ rep.version = Version /\ rep.value = Stored
      BY <1>2, <2>1, <2>6, SharedFacts
    <2>8. TestTypes' /\ Only(c)
      BY <1>1, <1>2, <1>3, <2>3 DEF TestTypes, Only
    <2>9. (InHand(c)' <=> InHand(c)) /\ Had(c)' = Had(c)
      <3>1. InHand(c)' <=> InHand(c)
        BY <1>1, <2>5 DEF InHand
      <3> QED
        BY <1>1, <2>5, <3>1 DEF Had
    <2>10. Rounds(c)' /\ Place(c)' /\ Knows(c)'
      <3>1. Rounds(c)'
        BY <1>1, <1>2, <2>5 DEF Rounds
      <3>2. Place(c)'
        BY <1>1, <1>2, <2>4, <2>5, <2>6 DEF Place
      <3>3. Knows(c)'
        BY <1>1, <1>2, <2>5, <2>6 DEF Knows
      <3> QED
        BY <3>1, <3>2, <3>3
    <2>11. Replied(c)'
      <3>1. Snapshot(rep.value, rep.version)'
        BY <1>1, <1>2, <2>5, <2>7 DEF Snapshot, Fits
      <3> QED
        BY <2>3, <2>4, <2>6, <2>7, <3>1 DEF Replied, Snapshot, Fits
    <2>12. Decision(c)'
      BY <2>5 DEF Decision
    <2>13. Appended(c)'
      BY <1>1, <1>2, <2>5, <2>9 DEF Appended, Own, Ns
    <2>14. LeftOver'
      <3> SUFFICES ASSUME NEW r \in late, r.version = Version
                   PROVE  /\ Putting(r.clnt)'
                          /\ call'[r.clnt].value = r.value /\ call'[r.clnt].version = r.version
                          /\ call'[r.clnt].retried \/ call'[r.clnt].st = "failed"
        BY <1>1, <1>2, <2>5 DEF LeftOver
      <3>1. r.clnt \in Clients /\ r.clnt # c
        BY <1>2, <2>5 DEF LeftOver, TestTypes, ClerkTyped, RequestOf
      <3> QED
        BY <1>2, <2>3, <3>1 DEF LeftOver, Putting, Busy
    <2>15. NoLoss' /\ NeverFails'
      <3>1. Reliable => \A d \in Clients : ~call'[d].retried /\ call'[d].st # "failed"
        BY <1>2, <2>3, <2>4 DEF NoLoss
      <3> QED
        BY <1>1, <1>2, <3>1 DEF NoLoss, NeverFails, Reliable
    <2>16. ClientOK(c)'
      BY <2>10, <2>11, <2>12, <2>13 DEF ClientOK
    <2> QED
      BY <1>2, <2>2, <2>8, <2>9, <2>14, <2>15, <2>16, QuietStep DEF Rounds
  <1>6. CASE call[c].op = "Put"
    <2>1. Putting(c)
      BY <1>4, <1>6 DEF Putting
    <2>2. /\ call' = [call EXCEPT ![c].st = "replied", ![c].reply = PutReply(Shared, call[c].version)]
          /\ handlePut(Shared, call[c].value, call[c].version)
          /\ Decides(c, PutErr(Shared, call[c].version))
      BY <1>4, <1>6 DEF TestHandle, Execute
    <2>3. /\ call[c].version <= Version
          /\ PutErr(Shared, call[c].version) = IF call[c].version = Version THEN OK ELSE ErrVersion
          /\ decided'[c].err = IF call[c].version = Version \/ decided[c].err = OK THEN OK ELSE ErrVersion
          /\ call[c].version = Version => Version' = Version + 1
          /\ call[c].version # Version => Version' = Version
      BY <2>1, <2>2, PutDecides
    <2>4. PICK e \in Err : e = PutErr(Shared, call[c].version)
      BY <2>3, ErrValues
    <2>5. /\ PutReply(Shared, call[c].version) = [ZeroReply EXCEPT !.err = e]
          /\ [ZeroReply EXCEPT !.err = e].err = e
      BY <2>4 DEF PutReply, ZeroReply
    <2>6. /\ call'[c] = [call[c] EXCEPT !.st = "replied", !.reply = [ZeroReply EXCEPT !.err = e]]
          /\ \A d \in Clients \ {c} : call'[d] = call[d]
      BY <1>2, <2>2, <2>5
    <2>7. /\ call'[c].st = "replied" /\ call'[c].op = "Put" /\ call'[c].key = call[c].key
          /\ call'[c].value = call[c].value /\ call'[c].version = call[c].version
          /\ call'[c].retried = call[c].retried
          /\ call'[c].reply = [ZeroReply EXCEPT !.err = e]
      BY <1>2, <1>6, <2>6 DEF CallOf
    <2>8. Replied(c)'
      <3>1. call[c].version < Version' /\ e \in {OK, ErrVersion}
        BY <1>2, <2>3, <2>4
      <3>2. decided'[c].err # NoErr /\ (e = OK => decided'[c].err = OK)
        BY <2>3, <2>4, ErrValues
      <3>3. ~call[c].retried /\ e = ErrVersion => decided'[c].err = ErrVersion
        BY <1>1, <1>2, <2>1, <2>3, <2>4, ErrValues DEF Decision
      <3> QED
        BY <2>5, <2>7, <3>1, <3>2, <3>3 DEF Replied
    <2> QED
      BY <1>1, <1>2, <1>3, <2>1, <2>2, <2>7, <2>6, <2>8, PutRuns
  <1> QED
    BY <1>2, <1>5, <1>6

\* A handler left behind runs: it is of the present call, or it changes nothing.
LEMMA TestHandleLateInv ==
    ASSUME TestInv, NEW r \in late, TestHandleLate(r)
    PROVE  TestInv'
  <1> DEFINE c == r.clnt
  <1>1. /\ ExecuteLate(r) /\ handlePut(r.key, r.value, r.version) /\ UNCHANGED call /\ late' = late \ {r}
        /\ UNCHANGED <<workload, at, verm, list, err, ok, maybe, verdict>>
    BY DEF TestHandleLate, ExecuteLate, clntVars
  <1>2. /\ TestTypes /\ LeftOver /\ NoLoss /\ NeverFails /\ Version \in Nat
        /\ c \in Clients /\ r.key = Shared /\ r.version \in Nat /\ r.value \in Json
        /\ r.version <= Version
    BY SharedFacts DEF TestInv, TestTypes, ClerkTyped, RequestOf, LeftOver
  <1>3. ClerkTyped(Json)' /\ ItemsPositive'
    BY <1>1, <1>2, JsonFacts, ExecuteLateTypesOf DEF TestTypes
  <1>4. /\ ClientOK(c) /\ Rounds(c) /\ Place(c) /\ Decision(c) /\ Replied(c) /\ call[c].version \in Nat
    BY <1>2, TestClientTypes DEF TestInv, ClientOK
  <1> HIDE DEF c
  <1>5. /\ PutErr(Shared, r.version) = OK <=> r.version = Version
        /\ r.version # Version => UNCHANGED KeyValueItems
    BY <1>1, <1>2, SharedKey, JsonFacts, PutEffectOf DEF TestTypes, ClerkTyped, Version
  <1>6. CASE Putting(c) /\ call[c].version = r.version
    <2>1. call[c].key = Shared
      BY <1>4, <1>6 DEF Place, Putting
    <2>2. Decides(c, PutErr(Shared, call[c].version))
      BY <1>2, <1>6, <2>1 DEF TestHandleLate, Putting, Busy, c
    <2>3. handlePut(Shared, call[c].value, call[c].version)
      <3>1. CASE r.version = Version
        BY <1>1, <1>2, <1>6, <3>1 DEF LeftOver, c
      <3>2. CASE r.version # Version
        BY <1>5, <1>6, <3>2 DEF handlePut
      <3> QED
        BY <3>1, <3>2
    <2>4. /\ decided'[c].err = IF call[c].version = Version \/ decided[c].err = OK THEN OK ELSE ErrVersion
          /\ call[c].version = Version => Version' = Version + 1
          /\ call[c].version # Version => Version' = Version
      BY <1>2, <1>6, <2>2, <2>3, PutDecides
    <2>5. call[c].version = Version => call[c].retried \/ call[c].st # "sent"
      BY <1>2, <1>6 DEF LeftOver, c
    <2>6. Replied(c)'
      <3> SUFFICES ASSUME call[c].st = "replied" PROVE Replied(c)'
        BY <1>1 DEF Replied
      <3>1. call[c].version < Version /\ call[c].op = "Put"
        BY <1>4, <1>6 DEF Replied, Putting
      <3>2. call[c].version < Version' /\ decided'[c].err = IF decided[c].err = OK THEN OK ELSE ErrVersion
        BY <1>2, <1>4, <2>4, <3>1
      <3> QED
        BY <1>1, <1>4, <3>1, <3>2, ErrValues DEF Replied
    <2>7. call[c].op = "Put" /\ call[c].st # "idle"
      BY <1>6 DEF Putting, Busy
    <2> QED
      BY <1>1, <1>2, <1>3, <1>6, <2>2, <2>3, <2>5, <2>6, <2>7, PutRuns
  <1>7. CASE ~(Putting(c) /\ call[c].version = r.version)
    <2>1. UNCHANGED KeyValueItems
      BY <1>2, <1>5, <1>7 DEF LeftOver, c
    <2>2. UNCHANGED decided
      BY <1>7 DEF TestHandleLate, Putting, Busy, c
    <2>3. TestTypes' /\ Only(c)
      BY <1>1, <1>2, <1>3, <2>2 DEF TestTypes, Only
    <2>4. Version' = Version /\ Stored' = Stored
      BY <2>1 DEF Version, Stored, CurVersion, CurValue, GetReply, Present
    <2>5. /\ call'[c] = call[c] /\ decided'[c] = decided[c] /\ at'[c] = at[c] /\ verm'[c] = verm[c]
          /\ list'[c] = list[c] /\ err'[c] = err[c] /\ ok'[c] = ok[c] /\ maybe'[c] = maybe[c]
          /\ UNCHANGED workload
      BY <1>1, <2>2
    <2>6. ClientOK(c)' /\ Had(c)' = Had(c)
      BY <1>2, <1>4, <2>3, <2>4, <2>5, OtherClient
    <2>7. LeftOver'
      BY <1>1, <1>2, <2>4 DEF LeftOver, Putting, Busy
    <2>8. NoLoss' /\ NeverFails'
      BY <1>1, <1>2 DEF NoLoss, NeverFails, Reliable
    <2> QED
      BY <1>2, <1>4, <2>1, <2>3, <2>6, <2>7, <2>8, QuietStep DEF Rounds
  <1> QED
    BY <1>6, <1>7

-----------------------------------------------------------------------------
\* At the end every iteration is counted, and the key has been put.
LEMMA AtTheEnd ==
    ASSUME TestInv, \A c \in Clients : at[c] = "over"
    PROVE  /\ GetReply(Shared).err = OK
           /\ GetReply(Shared).version = Version /\ GetReply(Shared).value = Stored /\ Version \in Nat
           /\ Version > 0
           /\ \A c \in Clients : Had(c) = ok[c] \cup maybe[c]
  <1>1. PICK c \in Clients : TRUE
    BY TestClientsAssumption
  <1>2. Version > 0
    BY <1>1 DEF TestInv, ClientOK, Place, Knows
  <1>3. ASSUME NEW d \in Clients PROVE Had(d) = ok[d] \cup maybe[d]
    <2>1. ~InHand(d)
      BY DEF TestInv, ClientOK, Place, InHand, Putting
    <2> QED
      BY <2>1 DEF Had
  <1> QED
    BY <1>2, <1>3, SharedFacts DEF TestInv

\* CheckPutConcurrent passes.
LEMMA PutsPass ==
    ASSUME TestInv, \A c \in Clients : at[c] = "over", workload = "put"
    PROVE  CheckPutConcurrent(GetReply(Shared))
  <1>1. /\ GetReply(Shared).err = OK /\ GetReply(Shared).version = Version
        /\ \A c \in Clients : Had(c) = ok[c] \cup maybe[c]
    BY AtTheEnd
  <1>2. PICK h \in [Clients -> SUBSET Nat] : h = HadMap
    BY HadTypes DEF TestInv
  <1>3. PICK f \in [Clients -> SUBSET Nat] : f = ok
    BY DEF TestInv, TestTypes
  <1>4. PICK g \in [Clients -> SUBSET Nat] : g = maybe
    BY DEF TestInv, TestTypes
  <1>5. \A c \in Clients : f[c] \cap g[c] = {} /\ h[c] = f[c] \cup g[c]
    BY <1>1, <1>2, <1>3, <1>4 DEF TestInv, ClientOK, Rounds, HadMap
  <1>6. IsFiniteSet(Pairs(h)) /\ Version <= Total(h) /\ (Reliable => Version = Total(h))
    BY <1>2 DEF TestInv, PutCount
  <1>7. Total(h) = Total(f) + Total(g)
    BY <1>5, <1>6, TotalSplit
  <1>8. Reliable => h = f
    <2>1. Reliable => \A c \in Clients : g[c] = {}
      BY <1>4 DEF TestInv, NoLoss
    <2> QED
      BY <1>5, <2>1
  <1> QED
    BY <1>1, <1>3, <1>4, <1>6, <1>7, <1>8 DEF CheckPutConcurrent, Reliable

\* CheckAppends passes: what a client's entries skip was answered ErrMaybe.
LEMMA AppendsPass ==
    ASSUME TestInv, \A c \in Clients : at[c] = "over", workload = "append"
    PROVE  CheckAppends(GetReply(Shared))
  <1>1. /\ GetReply(Shared).err = OK /\ GetReply(Shared).version = Version
        /\ GetReply(Shared).value = Stored /\ Version > 0
        /\ \A c \in Clients : Had(c) = ok[c] \cup maybe[c]
    BY AtTheEnd
  <1>2. Len(Stored) + 1 = Version
    BY <1>1 DEF TestInv, Snapshot, Fits
  <1>3. ASSUME NEW c \in Clients
        PROVE  /\ \A i, j \in Own(Stored, c) : i < j => Stored[i].n < Stored[j].n
               /\ Cardinality(Skipped(Stored, c)) <= Cardinality(maybe[c])
               /\ \A n \in Ns(Stored, c) : n < Cardinality(ok[c]) + Cardinality(maybe[c])
    <2>1. /\ Ns(Stored, c) \subseteq ok[c] \cup maybe[c] /\ ok[c] \subseteq Ns(Stored, c)
          /\ \A i, j \in Own(Stored, c) : i < j => Stored[i].n < Stored[j].n
      BY <1>1 DEF TestInv, ClientOK, Appended
    <2>2. /\ IsFiniteSet(ok[c]) /\ IsFiniteSet(maybe[c])
          /\ Round(c) \in Nat
          /\ ok[c] \cup maybe[c] = 0 .. Round(c) - 1
          /\ ok[c] \cap maybe[c] = {}
      BY DEF TestInv, ClientOK, Rounds
    <2>3. Skipped(Stored, c) \subseteq maybe[c]
      <3> SUFFICES ASSUME NEW k \in Skipped(Stored, c) PROVE k \in maybe[c]
        OBVIOUS
      <3>1. PICK n \in Ns(Stored, c) : k \in 0 .. n - 1
        BY DEF Skipped
      <3>2. k \notin Ns(Stored, c)
        BY DEF Skipped
      <3>3. n \in 0 .. Round(c) - 1
        BY <2>1, <2>2
      <3>4. k \in 0 .. Round(c) - 1
        BY <2>2, <3>1, <3>3
      <3> QED
        BY <2>1, <2>2, <3>2, <3>4
    <2>4. Cardinality(Skipped(Stored, c)) <= Cardinality(maybe[c])
      BY <2>2, <2>3, FS_Subset
    <2>5. Round(c) = Cardinality(ok[c]) + Cardinality(maybe[c])
      <3>1. Cardinality(ok[c] \cup maybe[c])
              = Cardinality(ok[c]) + Cardinality(maybe[c]) - Cardinality(ok[c] \cap maybe[c])
        BY <2>2, FS_Union
      <3>2. Cardinality(ok[c] \cap maybe[c]) = 0
        BY <2>2, FS_EmptySet
      <3>3. Cardinality(ok[c]) \in Nat /\ Cardinality(maybe[c]) \in Nat
        BY <2>2, FS_CardinalityType
      <3> QED
        BY <3>1, <3>2, <3>3 DEF Round
    <2>6. \A n \in Ns(Stored, c) : n < Round(c)
      BY <2>1, <2>2
    <2> QED
      BY <2>1, <2>4, <2>5, <2>6
  <1> QED
    BY <1>1, <1>2, <1>3 DEF CheckAppends

\* Nothing a client sees has changed.
LEMMA UnseenStep ==
    ASSUME TestInv, NeverFails',
           UNCHANGED <<KeyValueItems, call, late, workload, at, verm, list, err, ok, maybe, decided>>
    PROVE  TestInv'
  <1>1. PICK c \in Clients : TRUE
    BY TestClientsAssumption
  <1>2. TestTypes' /\ Only(c)
    BY DEF TestInv, TestTypes, ClerkTyped, ServerTyped, ItemsPositive, Only
  <1>3. Version' = Version /\ Stored' = Stored
    BY DEF Version, Stored, CurVersion, CurValue, GetReply, Present
  <1>4. TestTypes /\ ClientOK(c) /\ Round(c) \in Nat
    BY DEF TestInv, ClientOK, Rounds
  <1>5. /\ call'[c] = call[c] /\ decided'[c] = decided[c] /\ at'[c] = at[c] /\ verm'[c] = verm[c]
        /\ list'[c] = list[c] /\ err'[c] = err[c] /\ ok'[c] = ok[c] /\ maybe'[c] = maybe[c]
        /\ UNCHANGED workload
    OBVIOUS
  <1>6. ClientOK(c)' /\ Had(c)' = Had(c)
    BY <1>2, <1>3, <1>4, <1>5, OtherClient
  <1>7. LeftOver' /\ NoLoss'
    BY <1>3 DEF TestInv, LeftOver, NoLoss, Putting, Busy, Reliable
  <1> QED
    BY <1>2, <1>4, <1>6, <1>7, QuietStep

\* The checks of the tester.
LEMMA CheckInv ==
    ASSUME TestInv, Check
    PROVE  TestInv'
  <1>1. \A c \in Clients : at[c] = "over"
    BY DEF Check
  <1>2. workload \in {"put", "append"}
    BY DEF TestInv, TestTypes, Workloads
  <1>3. verdict' = "passed"
    BY <1>1, <1>2, PutsPass, AppendsPass DEF Check
  <1>4. UNCHANGED <<KeyValueItems, call, late, workload, at, verm, list, err, ok, maybe, decided>>
    BY DEF Check, clerkVars
  <1> QED
    BY <1>3, <1>4, UnseenStep DEF NeverFails

\* The tests begin well.
LEMMA TestInitInv ==
    ASSUME TestInit
    PROVE  TestInv
  <1>1. /\ workload \in Workloads /\ call = [c \in Clients |-> NoCall] /\ late = {}
        /\ at = [c \in Clients |-> "top"] /\ verm = [c \in Clients |-> 0]
        /\ list = [c \in Clients |-> <<>>] /\ err = [c \in Clients |-> NoErr]
        /\ ok = [c \in Clients |-> {}] /\ maybe = [c \in Clients |-> {}]
        /\ verdict = "running" /\ decided = [c \in Clients |-> ZeroReply]
        /\ workload = "append" => KeyValueItems = [k \in {Shared} |-> [value |-> <<>>, version |-> 1]]
        /\ workload # "append" => KeyValueItems = [k \in {} |-> [value |-> <<>>, version |-> 1]]
    BY DEF TestInit
  <1>2. NoCall \in CallOf(Json) /\ NoCall.st = "idle" /\ NoCall.retried = FALSE
        /\ ZeroReply \in ReplyOf(Json) /\ <<>> \in Json
    BY JsonFacts, CallTypesOf DEF NoCall, NewCall, ZeroReply, ReplyOf, Err
  <1>3. ServerTyped(Json) /\ ItemsPositive
    <2>1. CASE workload = "append"
      <3>1. /\ KeyValueItems = [k \in {Shared} |-> [value |-> <<>>, version |-> 1]]
            /\ [value |-> <<>>, version |-> 1] \in [value : Json, version : Nat]
        BY <1>1, <1>2, <2>1
      <3>2. DOMAIN KeyValueItems = {Shared} /\ KeyValueItems[Shared].version = 1
        BY <3>1
      <3>3. KeyValueItems \in [{Shared} -> [value : Json, version : Nat]]
        BY <3>1
      <3> QED
        BY <3>2, <3>3, SharedKey DEF ServerTyped, ItemsPositive
    <2>2. CASE workload # "append"
      BY <1>1, <2>2 DEF ServerTyped, ItemsPositive
    <2> QED
      BY <2>1, <2>2
  <1>4. TestTypes
    BY <1>1, <1>2, <1>3, ErrValues DEF TestTypes, ClerkTyped
  <1>5. /\ workload = "append" => Version = 1 /\ Stored = <<>>
        /\ workload # "append" => Version = 0
    BY <1>1 DEF Version, Stored, CurVersion, CurValue, GetReply, Present
  <1>6. Snapshot(Stored, Version)
    <2>1. CASE workload = "append"
      <3>1. <<>> \in Seq(Entry) /\ Len(<<>>) + 1 = 1
        BY JsonFacts
      <3>2. Fits(Stored, Version)
        BY <1>5, <2>1, <3>1 DEF Fits
      <3> QED
        BY <1>5, <2>1, <3>2 DEF Snapshot
    <2>2. CASE workload # "append"
      BY <1>5, <2>2 DEF Snapshot
    <2> QED
      BY <2>1, <2>2
  <1>7. ASSUME NEW c \in Clients PROVE ClientOK(c) /\ Had(c) = {}
    <2>1. ~Busy(c) /\ ~Putting(c) /\ decided[c] = ZeroReply /\ ok[c] = {} /\ maybe[c] = {}
          /\ at[c] = "top" /\ verm[c] = 0 /\ err[c] = NoErr /\ call[c].st = "idle"
      BY <1>1, <1>2 DEF Busy, Putting
    <2>2. Round(c) = 0
      BY <2>1, FS_EmptySet DEF Round
    <2>3. Rounds(c)
      BY <2>1, <2>2, FS_EmptySet DEF Rounds
    <2>4. Place(c) /\ Knows(c) /\ Replied(c) /\ Decision(c)
      BY <1>5, <2>1, <2>2 DEF Place, Knows, Replied, Decision
    <2>5. ~InHand(c) /\ Had(c) = {}
      BY <2>1 DEF InHand, Had
    <2>6. Appended(c)
      BY <1>5, <2>1, <2>5 DEF Appended, Own, Ns
    <2> QED
      BY <2>3, <2>4, <2>5, <2>6 DEF ClientOK
  <1>8. LeftOver /\ NoLoss /\ NeverFails
    BY <1>1, <1>2, ErrValues DEF LeftOver, NoLoss, NeverFails
  <1>9. PutCount
    <2>1. Pairs(HadMap) = {}
      BY <1>7 DEF Pairs, HadMap
    <2>2. Total(HadMap) = Cardinality(Pairs(HadMap))
      BY DEF Total, Pairs
    <2>3. IsFiniteSet(Pairs(HadMap)) /\ Total(HadMap) = 0
      BY <2>1, <2>2, FS_EmptySet
    <2> QED
      BY <1>5, <2>3 DEF PutCount
  <1> QED
    BY <1>4, <1>6, <1>7, <1>8, <1>9 DEF TestInv

LEMMA TestNextInv ==
    ASSUME TestInv, [TestNext]_testVars
    PROVE  TestInv'
  <1>1. CASE UNCHANGED testVars
    BY <1>1, UnseenStep DEF testVars, clerkVars, clntVars, TestInv, NeverFails
  <1>2. CASE TestNext
    BY <1>2, LoopInv, CallInv, PutReturnedInv, GetReturnedInv, TestHandleInv, TestNetworkInv,
       TestHandleLateInv, CheckInv DEF TestNext
  <1> QED
    BY <1>1, <1>2

\* TestInv holds throughout the tests: what the clients of kvtest.go know, have under
\* way and have left behind agrees with what the server holds.
THEOREM TestInvariance == TestSpec => []TestInv
  <1>1. TestInit => TestInv
    BY TestInitInv
  <1>2. TestInv /\ [TestNext]_testVars => TestInv'
    BY TestNextInv
  <1> QED
    BY <1>1, <1>2, PTL DEF TestSpec

\* The tests accept this server and this Clerk, whatever is lost and however many
\* clients and iterations there are (OnePut, CheckPutConcurrent, CheckAppends).
THEOREM TestsAccept == TestSpec => []NeverFails
  <1>1. TestInv => NeverFails
    BY DEF TestInv
  <1> QED
    BY <1>1, TestInvariance, PTL

\* An append answered OK is in the list once; what is in the list was answered OK
\* or ErrMaybe, or is of the present iteration (OneClientAppend).
THEOREM AppendsExact == TestSpec => []AppendsAreExact
  <1>1. ASSUME TestInv PROVE AppendsAreExact
    <2> SUFFICES ASSUME workload = "append", NEW c \in Clients
                 PROVE  /\ ok[c] \subseteq Ns(Stored, c)
                        /\ Ns(Stored, c) \subseteq ok[c] \cup maybe[c] \cup {Round(c)}
                        /\ \A i, j \in Own(Stored, c) : Stored[i].n = Stored[j].n => i = j
      BY DEF AppendsAreExact, Stored
    <2>1. Appended(c) /\ Knows(c) /\ Snapshot(Stored, Version)
      BY <1>1 DEF TestInv, ClientOK
    <2>2. Had(c) \subseteq ok[c] \cup maybe[c] \cup {Round(c)}
      BY DEF Had
    <2>3. Stored \in Seq(Entry)
      BY <2>1 DEF Knows, Snapshot, Fits
    <2>4. \A i \in Own(Stored, c) : i \in Nat /\ Stored[i].n \in Nat
      <3>1. \A i \in DOMAIN Stored : i \in Nat /\ Stored[i] \in Entry
        BY <2>3
      <3> QED
        BY <3>1 DEF Own, Entry
    <2>5. \A i, j \in Own(Stored, c) : i < j => Stored[i].n < Stored[j].n
      BY <2>1 DEF Appended
    <2>6. ASSUME NEW i \in Own(Stored, c), NEW j \in Own(Stored, c), Stored[i].n = Stored[j].n
          PROVE  i = j
      <3>1. i < j \/ j < i \/ i = j
        BY <2>4
      <3> QED
        BY <2>4, <2>5, <2>6, <3>1
    <2> QED
      BY <2>1, <2>2, <2>6 DEF Appended
  <1> QED
    BY <1>1, TestInvariance, PTL

-----------------------------------------------------------------------------
(***************************************************************************)
(* The history of the tests is one of KvModel.  An operation takes effect  *)
(* when the handler decides it, once, in its call or left behind by it; an *)
(* execution after that, or of an older call, is no step of KvModel.       *)
(***************************************************************************)
InputOf(r) == [op |-> IF r.st = "idle" THEN "none" ELSE r.op,
               key |-> r.key, value |-> r.value, version |-> r.version]

Inputs == [c \in Clients |-> InputOf(call[c])]

\* The variables of KvModel, as KVTest gives them.
LEMMA KvVars ==
    /\ KvModel!vars = <<KvState, Inputs, decided, answered>>
    /\ (UNCHANGED KvModel!vars) <=> UNCHANGED <<KvState, Inputs, decided, answered>>
  BY DEF KvModel!vars, Inputs, InputOf

\* A step that KvModel does not see.
LEMMA KvUnseen ==
    ASSUME UNCHANGED KeyValueItems, Inputs' = Inputs, UNCHANGED <<decided, answered>>
    PROVE  [KvModel!Next]_(KvModel!vars)
  <1>1. KvState' = KvState
    BY DEF KvState, CurValue, CurVersion, GetReply, Present
  <1> QED
    BY <1>1, KvVars

\* What changes in the input of KvModel when one call changes.
LEMMA InputStep ==
    ASSUME TestTypes, NEW c \in Clients, NEW x, call' = [call EXCEPT ![c] = x]
    PROVE  Inputs' = [Inputs EXCEPT ![c] = InputOf(x)] /\ Inputs'[c] = InputOf(x)
  BY DEF TestTypes, ClerkTyped, Inputs

\* The same call, further on.
LEMMA InputSame ==
    ASSUME NEW c \in Clients, \A d \in Clients \ {c} : call'[d] = call[d],
           call[c].st # "idle", call'[c].st # "idle", call'[c].op = call[c].op,
           call'[c].key = call[c].key, call'[c].value = call[c].value, call'[c].version = call[c].version
    PROVE  Inputs' = Inputs
  <1>1. \A d \in Clients : InputOf(call[d])' = InputOf(call[d])
    BY DEF InputOf
  <1> QED
    BY <1>1 DEF Inputs

\* The operators of KvModel over these variables.
KvInvoke(c) ==
    /\ Inputs[c].op = "none" /\ Inputs'[c].op \in {"Get", "Put"} /\ Inputs'[c].key \in Keys
    /\ Inputs' = [Inputs EXCEPT ![c] = Inputs'[c]]
    /\ answered' = [answered EXCEPT ![c] = ZeroReply]
    /\ UNCHANGED <<KvState, decided>>

LEMMA KvInvokeStep ==
    ASSUME NEW c \in Clients, KvInvoke(c)
    PROVE  [KvModel!Next]_(KvModel!vars)
  <1>1. KvModel!Invoke(c)
    BY DEF KvInvoke, KvModel!Invoke, KvModel!ZeroOutput, ZeroReply, NoErr, Inputs, InputOf
  <1> QED
    BY <1>1 DEF KvModel!Next

KvGet(c) ==
    /\ Inputs[c].op = "Get"
    /\ decided'[c].value = KvState[Inputs[c].key].value
    /\ decided'[c].version = KvState[Inputs[c].key].version
    /\ decided'[c].err = IF KvState[Inputs[c].key].version = 0 THEN ErrNoKey ELSE OK
    /\ decided' = [decided EXCEPT ![c] = decided'[c]]
    /\ UNCHANGED <<KvState, answered>> /\ Inputs' = Inputs

LEMMA KvGetStep ==
    ASSUME NEW c \in Clients, KvGet(c)
    PROVE  [KvModel!Next]_(KvModel!vars)
  <1>1. KvModel!EvaluateGet(c)
    BY DEF KvGet, KvModel!EvaluateGet, KvModel!Pending, OK, ErrNoKey, Inputs, InputOf
  <1> QED
    BY <1>1 DEF KvModel!Next

KvPut(c) ==
    /\ Inputs[c].op = "Put"
    /\ decided[c].err # OK
    /\ IF KvState[Inputs[c].key].version = Inputs[c].version
       THEN /\ decided' = [decided EXCEPT ![c].err = OK]
            /\ KvState' = [KvState EXCEPT ![Inputs[c].key] =
                              [value |-> Inputs[c].value, version |-> KvState[Inputs[c].key].version + 1]]
       ELSE /\ decided' = [decided EXCEPT ![c].err = ErrVersion]
            /\ UNCHANGED KvState
    /\ UNCHANGED answered /\ Inputs' = Inputs

LEMMA KvPutStep ==
    ASSUME NEW c \in Clients, KvPut(c)
    PROVE  [KvModel!Next]_(KvModel!vars)
  <1>1. KvModel!EvaluatePut(c)
    BY DEF KvPut, KvModel!EvaluatePut, KvModel!Pending, OK, ErrVersion, Inputs, InputOf
  <1> QED
    BY <1>1 DEF KvModel!Next

KvReturn(c) ==
    /\ Inputs[c].op # "none"
    /\ decided[c].err # NoErr
    /\ \/ answered' = [answered EXCEPT ![c] = decided[c]]
       \/ /\ Inputs[c].op = "Put"
          /\ answered' = [answered EXCEPT ![c] = [decided[c] EXCEPT !.err = ErrMaybe]]
    /\ Inputs'[c].op = "none"
    /\ Inputs' = [Inputs EXCEPT ![c] = Inputs'[c]]
    /\ decided' = [decided EXCEPT ![c] = ZeroReply]
    /\ UNCHANGED KvState

LEMMA KvReturnStep ==
    ASSUME NEW c \in Clients, KvReturn(c)
    PROVE  [KvModel!Next]_(KvModel!vars)
  <1>1. KvModel!ReturnOp(c)
    BY DEF KvReturn, KvModel!ReturnOp, KvModel!Pending, KvModel!ZeroOutput, ZeroReply, NoErr, ErrMaybe,
           Inputs, InputOf
  <1> QED
    BY <1>1 DEF KvModel!Next

\* Unchanged items are an unchanged state.
LEMMA KvStateSame ==
    ASSUME UNCHANGED KeyValueItems
    PROVE  KvState' = KvState
  BY DEF KvState, CurValue, CurVersion, GetReply, Present

\* The call of the Clerk, its return and the network, as KvModel sees them.
LEMMA CallClerkKv ==
    ASSUME TestInv, NEW c \in Clients, CallClerk(c)
    PROVE  [KvModel!Next]_(KvModel!vars)
  <1>1. PICK x : /\ call' = [call EXCEPT ![c] = x]
                 /\ x.st = "sent" /\ x.op \in {"Get", "Put"} /\ x.key = Shared
    <2>1. CASE at[c] = "put"
      <3>1. call' = [call EXCEPT ![c] = NewCall("Put", Shared, Entries(c), verm[c])]
        BY <2>1 DEF CallClerk, BeginPut
      <3>2. /\ NewCall("Put", Shared, Entries(c), verm[c]).st = "sent"
            /\ NewCall("Put", Shared, Entries(c), verm[c]).key = Shared
            /\ NewCall("Put", Shared, Entries(c), verm[c]).op \in {"Get", "Put"}
        BY DEF NewCall
      <3> QED
        BY <3>1, <3>2, Zenon
    <2>2. CASE at[c] = "get"
      <3>1. call' = [call EXCEPT ![c] = NewCall("Get", Shared, Empty, 0)]
        BY <2>2 DEF CallClerk, BeginGet
      <3>2. /\ NewCall("Get", Shared, Empty, 0).st = "sent" /\ NewCall("Get", Shared, Empty, 0).key = Shared
            /\ NewCall("Get", Shared, Empty, 0).op \in {"Get", "Put"}
        BY DEF NewCall
      <3> QED
        BY <3>1, <3>2, Zenon
    <2> QED
      BY <2>1, <2>2 DEF CallClerk
  <1>2. Inputs' = [Inputs EXCEPT ![c] = InputOf(x)] /\ Inputs'[c] = InputOf(x)
    BY <1>1, InputStep DEF TestInv
  <1>3. InputOf(x).op \in {"Get", "Put"} /\ InputOf(x).key \in Keys
    BY <1>1, SharedKey DEF InputOf
  <1>4. Inputs[c].op = "none"
    BY DEF CallClerk, BeginGet, BeginPut, Inputs, InputOf
  <1>5. UNCHANGED <<KeyValueItems, decided>> /\ answered' = [answered EXCEPT ![c] = ZeroReply]
    BY DEF CallClerk, BeginGet, BeginPut
  <1>6. KvInvoke(c)
    BY <1>2, <1>3, <1>4, <1>5, KvStateSame DEF KvInvoke
  <1> QED
    BY <1>6, KvInvokeStep

LEMMA ReturnedKv ==
    ASSUME TestInv, NEW c \in Clients, Returned(c)
    PROVE  [KvModel!Next]_(KvModel!vars)
  <1>1. /\ call[c].st = "replied" /\ call' = [call EXCEPT ![c] = NoCall] /\ UNCHANGED KeyValueItems
        /\ answered' = [answered EXCEPT ![c] = Answer(c)]
        /\ decided' = [decided EXCEPT ![c] = ZeroReply]
    BY DEF Returned, Return, ReturnThen
  <1>2. /\ TestTypes /\ Replied(c) /\ Decision(c) /\ call[c].op \in {"Get", "Put"}
        /\ call[c].reply \in ReplyOf(Json) /\ call[c].retried \in BOOLEAN
    BY TestClientTypes DEF TestInv, ClientOK
  <1>3. Inputs' = [Inputs EXCEPT ![c] = InputOf(NoCall)] /\ Inputs'[c] = InputOf(NoCall)
    BY <1>1, <1>2, InputStep
  <1>4. InputOf(NoCall).op = "none"
    BY JsonFacts, CallTypesOf DEF InputOf
  <1>5. Inputs[c].op = call[c].op
    BY <1>1 DEF Inputs, InputOf
  <1>6. CASE call[c].op = "Get"
    <2>1. decided[c] = call[c].reply /\ call[c].reply.err = OK
      BY <1>1, <1>2, <1>6 DEF Replied
    <2>2. Answer(c) = decided[c]
      BY <1>2, <2>1, ErrValues DEF Answer, ClerkErr, ReplyOf
    <2>3. KvReturn(c)
      BY <1>1, <1>3, <1>4, <1>5, <1>6, <2>1, <2>2, KvStateSame, ErrValues DEF KvReturn
    <2> QED
      BY <2>3, KvReturnStep
  <1>7. CASE call[c].op = "Put"
    <2>1. Putting(c)
      BY <1>1, <1>7 DEF Putting, Busy
    <2>2. /\ call[c].reply.err \in {OK, ErrVersion}
          /\ call[c].reply = [ZeroReply EXCEPT !.err = call[c].reply.err]
          /\ decided[c].err # NoErr
          /\ call[c].reply.err = OK => decided[c].err = OK
          /\ ~call[c].retried /\ call[c].reply.err = ErrVersion => decided[c].err = ErrVersion
          /\ decided[c] = [ZeroReply EXCEPT !.err = decided[c].err]
      BY <1>1, <1>2, <1>7, <2>1 DEF Replied, Decision
    <2>3. Answer(c) = [ZeroReply EXCEPT !.err = ClerkErr(c)]
      BY <2>2 DEF Answer, ZeroReply
    <2>4. ClerkErr(c) = decided[c].err \/ ClerkErr(c) = ErrMaybe
      BY <1>2, <2>2 DEF ClerkErr
    <2>5. Answer(c) = decided[c] \/ Answer(c) = [decided[c] EXCEPT !.err = ErrMaybe]
      <3>1. CASE ClerkErr(c) = decided[c].err
        BY <2>2, <2>3, <3>1
      <3>2. CASE ClerkErr(c) = ErrMaybe
        BY <2>2, <2>3, <3>2 DEF ZeroReply
      <3> QED
        BY <2>4, <3>1, <3>2
    <2>6. KvReturn(c)
      BY <1>1, <1>3, <1>4, <1>5, <1>7, <2>2, <2>5, KvStateSame DEF KvReturn
    <2> QED
      BY <2>6, KvReturnStep
  <1> QED
    BY <1>2, <1>6, <1>7

LEMMA TestNetworkKv ==
    ASSUME TestInv, NEW c \in Clients, TestNetwork(c)
    PROVE  [KvModel!Next]_(KvModel!vars)
  <1>1. UNCHANGED <<KeyValueItems, decided, answered>> /\ call[c].st # "idle"
    BY DEF TestNetwork, NetworkStep, DropRequest, LoseReply, Abandon, Retry
  <1>2. call \in [Clients -> CallOf(Json)] /\ call[c] \in CallOf(Json)
    BY DEF TestInv, TestTypes, ClerkTyped
  <1>3. \A d \in Clients \ {c} : call'[d] = call[d]
    BY <1>2 DEF TestNetwork, NetworkStep, DropRequest, LoseReply, Abandon, Retry
  <1>4. /\ call'[c].st # "idle" /\ call'[c].op = call[c].op
        /\ call'[c].key = call[c].key /\ call'[c].value = call[c].value /\ call'[c].version = call[c].version
    <2> USE <1>2 DEF CallOf
    <2>1. CASE DropRequest(c)
      BY <2>1 DEF DropRequest
    <2>2. CASE LoseReply(c)
      BY <2>2 DEF LoseReply
    <2>3. CASE Abandon(c)
      BY <2>3 DEF Abandon
    <2>4. CASE Retry(c)
      BY <2>4 DEF Retry
    <2> QED
      BY <2>1, <2>2, <2>3, <2>4 DEF TestNetwork, NetworkStep
  <1>5. Inputs' = Inputs
    BY <1>1, <1>3, <1>4, InputSame
  <1> QED
    BY <1>1, <1>5, KvUnseen

\* A Put of client c runs, in the call or left behind by it, as KvModel sees it.
LEMMA PutRunsKv ==
    ASSUME TestInv, NEW c \in Clients, Putting(c),
           handlePut(Shared, call[c].value, call[c].version),
           Decides(c, PutErr(Shared, call[c].version)),
           UNCHANGED answered, Inputs' = Inputs
    PROVE  [KvModel!Next]_(KvModel!vars)
  <1>1. /\ PutErr(Shared, call[c].version) = IF call[c].version = Version THEN OK ELSE ErrVersion
        /\ call[c].version = Version => decided[c].err # OK
        /\ call[c].version = Version => Version' = Version + 1 /\ Stored' = call[c].value
    BY PutDecides
  <1>2. /\ TestTypes /\ Place(c) /\ call[c] \in CallOf(Json) /\ call[c].version \in Nat
        /\ call[c].value \in Json /\ decided \in [Clients -> ReplyOf(Json)] /\ Version \in Nat
    BY SharedFacts, TestClientTypes DEF TestInv, ClientOK, CallOf, TestTypes
  <1>3. /\ Inputs[c].op = "Put" /\ Inputs[c].key = Shared /\ Inputs[c].value = call[c].value
        /\ Inputs[c].version = call[c].version
    BY <1>2 DEF Inputs, InputOf, Putting, Busy, Place
  <1>4. /\ call[c].version # Version => UNCHANGED KeyValueItems
        /\ \A k \in Keys \ {Shared} : CurVersion(k)' = CurVersion(k) /\ CurValue(k)' = CurValue(k)
    BY <1>2, SharedKey, JsonFacts, PutEffectOf DEF TestTypes, ClerkTyped, Version
  <1>5. KvState[Shared].version = Version /\ KvState[Shared].value = Stored
    BY SharedKey DEF KvState, Version, Stored
  <1>6. CASE decided[c].err = OK
    <2>1. UNCHANGED decided
      BY <1>2, <1>6 DEF Decides
    <2> QED
      BY <1>1, <1>4, <1>6, <2>1, KvUnseen
  <1>7. CASE decided[c].err # OK
    <2>1. decided' = [decided EXCEPT ![c].err = PutErr(Shared, call[c].version)]
      BY <1>2, <1>7 DEF Decides
    <2>2. CASE call[c].version = Version
      <3>1. KvState' = [KvState EXCEPT ![Shared] = [value |-> call[c].value, version |-> Version + 1]]
        BY <1>1, <1>4, <2>2, SharedKey DEF KvState, Version, Stored
      <3>2. KvPut(c)
        BY <1>1, <1>3, <1>5, <1>7, <2>1, <2>2, <3>1 DEF KvPut
      <3> QED
        BY <3>2, KvPutStep
    <2>3. CASE call[c].version # Version
      <3>1. KvPut(c)
        BY <1>1, <1>3, <1>4, <1>5, <1>7, <2>1, <2>3, KvStateSame DEF KvPut
      <3> QED
        BY <3>1, KvPutStep
    <2> QED
      BY <2>2, <2>3
  <1> QED
    BY <1>6, <1>7

LEMMA TestHandleKv ==
    ASSUME TestInv, NEW c \in Clients, TestHandle(c)
    PROVE  [KvModel!Next]_(KvModel!vars)
  <1>1. Execute(c) /\ call[c].st = "sent" /\ UNCHANGED answered
    BY DEF TestHandle, Execute
  <1>2. /\ TestTypes /\ Place(c) /\ Knows(c) /\ call[c] \in CallOf(Json) /\ call[c].op \in {"Get", "Put"}
        /\ call \in [Clients -> CallOf(Json)] /\ Version \in Nat /\ decided \in [Clients -> ReplyOf(Json)]
    BY SharedFacts, TestClientTypes DEF TestInv, ClientOK, TestTypes, ClerkTyped
  <1>3. Busy(c) /\ call[c].key = Shared
    BY <1>1, <1>2 DEF Busy, Place
  <1>4. /\ \A d \in Clients \ {c} : call'[d] = call[d]
        /\ call'[c].st # "idle" /\ call'[c].op = call[c].op
        /\ call'[c].key = call[c].key /\ call'[c].value = call[c].value /\ call'[c].version = call[c].version
    BY <1>1, <1>2 DEF Execute, CallOf
  <1>5. Inputs' = Inputs
    BY <1>1, <1>4, InputSame
  <1>6. CASE call[c].op = "Get"
    <2>1. decided' = [decided EXCEPT ![c] = GetReply(Shared)] /\ UNCHANGED KeyValueItems
      BY <1>1, <1>3, <1>6 DEF TestHandle, Execute
    <2>2. /\ GetReply(Shared).version = Version /\ GetReply(Shared).value = Stored
          /\ Version > 0 /\ GetReply(Shared).err = OK
      BY <1>2, <1>3, <1>6, SharedFacts DEF Place, Knows
    <2>3. decided'[c] = GetReply(Shared)
      BY <1>2, <2>1
    <2>4. KvState[Shared].version = Version /\ KvState[Shared].value = Stored
      BY SharedKey DEF KvState, Version, Stored
    <2>5. Inputs[c].op = "Get" /\ Inputs[c].key = Shared
      BY <1>1, <1>3, <1>6 DEF Inputs, InputOf
    <2>6. KvGet(c)
      BY <1>1, <1>2, <1>5, <2>1, <2>2, <2>3, <2>4, <2>5, KvStateSame DEF KvGet
    <2> QED
      BY <2>6, KvGetStep
  <1>7. CASE call[c].op = "Put"
    <2>1. /\ handlePut(Shared, call[c].value, call[c].version)
          /\ Decides(c, PutErr(Shared, call[c].version))
      BY <1>3, <1>7 DEF TestHandle, Execute
    <2> QED
      BY <1>1, <1>3, <1>5, <1>7, <2>1, PutRunsKv DEF Putting
  <1> QED
    BY <1>2, <1>6, <1>7

LEMMA TestHandleLateKv ==
    ASSUME TestInv, NEW r \in late, TestHandleLate(r)
    PROVE  [KvModel!Next]_(KvModel!vars)
  <1> DEFINE c == r.clnt
  <1>1. handlePut(r.key, r.value, r.version) /\ UNCHANGED <<call, answered>>
    BY DEF TestHandleLate, ExecuteLate
  <1>2. /\ TestTypes /\ LeftOver /\ Version \in Nat
        /\ c \in Clients /\ r.key = Shared /\ r.version \in Nat /\ r.value \in Json
    BY SharedFacts DEF TestInv, TestTypes, ClerkTyped, RequestOf, LeftOver
  <1>3. Place(c)
    BY <1>2 DEF TestInv, ClientOK
  <1> HIDE DEF c
  <1>4. /\ PutErr(Shared, r.version) = OK <=> r.version = Version
        /\ r.version # Version => UNCHANGED KeyValueItems
    BY <1>1, <1>2, SharedKey, JsonFacts, PutEffectOf DEF TestTypes, ClerkTyped, Version
  <1>5. Inputs' = Inputs
    BY <1>1 DEF Inputs
  <1>6. CASE Putting(c) /\ call[c].version = r.version
    <2>1. Decides(c, PutErr(Shared, call[c].version))
      BY <1>2, <1>3, <1>6 DEF TestHandleLate, Putting, Busy, Place, c
    <2>2. handlePut(Shared, call[c].value, call[c].version)
      <3>1. CASE r.version = Version
        BY <1>1, <1>2, <1>6, <3>1 DEF LeftOver, c
      <3>2. CASE r.version # Version
        BY <1>4, <1>6, <3>2 DEF handlePut
      <3> QED
        BY <3>1, <3>2
    <2> QED
      BY <1>1, <1>2, <1>5, <1>6, <2>1, <2>2, PutRunsKv
  <1>7. CASE ~(Putting(c) /\ call[c].version = r.version)
    <2>1. UNCHANGED KeyValueItems
      BY <1>2, <1>4, <1>7 DEF LeftOver, c
    <2>2. UNCHANGED decided
      BY <1>7 DEF TestHandleLate, Putting, Busy, c
    <2> QED
      BY <1>1, <1>5, <2>1, <2>2, KvUnseen
  <1> QED
    BY <1>6, <1>7

LEMMA TestInitKv ==
    ASSUME TestInit
    PROVE  KvModel!Init
  <1>1. /\ workload = "append" => KeyValueItems = [k \in {Shared} |-> [value |-> <<>>, version |-> 1]]
        /\ workload # "append" => KeyValueItems = [k \in {} |-> [value |-> <<>>, version |-> 1]]
    BY DEF TestInit
  <1>2. ASSUME NEW k \in Keys
        PROVE  KvState[k].version = 1 \/ KvState[k] = [value |-> Empty, version |-> 0]
    BY <1>1 DEF KvState, CurValue, CurVersion, GetReply, Present
  <1>3. NoCall.st = "idle"
    BY JsonFacts, CallTypesOf
  <1>4. \A c \in Clients : Inputs[c].op = "none"
    BY <1>3 DEF TestInit, Inputs, InputOf
  <1>5. decided = [c \in Clients |-> ZeroReply] /\ answered = [c \in Clients |-> ZeroReply]
    BY DEF TestInit
  <1> QED
    BY <1>2, <1>4, <1>5 DEF KvModel!Init, KvModel!ZeroOutput, ZeroReply, NoErr, Inputs, InputOf

LEMMA TestNextKv ==
    ASSUME TestInv, [TestNext]_testVars
    PROVE  [KvModel!Next]_(KvModel!vars)
  <1>1. ASSUME UNCHANGED <<KeyValueItems, call, decided, answered>>
        PROVE  [KvModel!Next]_(KvModel!vars)
    BY <1>1, KvUnseen DEF Inputs
  <1>2. CASE UNCHANGED testVars
    BY <1>1, <1>2 DEF testVars, clerkVars
  <1>3. CASE Check
    BY <1>1, <1>3 DEF Check, clerkVars
  <1>4. CASE \E r \in late : TestHandleLate(r)
    BY <1>4, TestHandleLateKv
  <1>5. ASSUME NEW c \in Clients, Stop(c) \/ Iterate(c)
        PROVE  [KvModel!Next]_(KvModel!vars)
    BY <1>1, <1>5 DEF Stop, Iterate, clerkVars
  <1>6. ASSUME NEW c \in Clients, PutReturned(c) \/ GetReturned(c)
        PROVE  [KvModel!Next]_(KvModel!vars)
    BY <1>6, ReturnedKv DEF PutReturned, GetReturned
  <1> QED
    BY <1>2, <1>3, <1>4, <1>5, <1>6, CallClerkKv, TestHandleKv, TestNetworkKv DEF TestNext

\* The operations of the tests form a history that KvModel accepts, for any number
\* of clients and iterations (what CheckPorcupine decides of one log).
THEOREM Linearizable == TestSpec => LinearizableAsKvModel
  <1>1. TestInit => KvModel!Init
    BY TestInitKv
  <1>2. TestInv /\ [TestNext]_testVars => [KvModel!Next]_(KvModel!vars)
    BY TestNextKv
  <1> QED
    BY <1>1, <1>2, TestInvariance, PTL DEF TestSpec, LinearizableAsKvModel, KvModel!Spec
=============================================================================
