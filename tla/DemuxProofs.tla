---------------------------- MODULE DemuxProofs ----------------------------
(***************************************************************************)
(* demux and sockrpc keep the promise of RPC, for any number of calls a    *)
(* connection has tags for: a call returns the answer to its own request,  *)
(* executed once, or fails after the connection went down, and the client  *)
(* never exits over a reply.                                               *)
(*                                                                         *)
(* A request is in one place at a time, under the tag of its call, and as  *)
(* long as the reader hands out answers callmap has that call for the tag. *)
(* Once the reader fails calls it reads no more, and it alone takes calls  *)
(* from callmap.                                                           *)
(***************************************************************************)
EXTENDS Demux, FiniteSetTheorems, TLAPS

\* The reader still hands out answers; it never does again once it fails calls.
Normal ==
    \/ reader.at \in {"dialed", "exited", "read"}
    \/ reader.at \in {"reply", "send"} /\ reader.msg.call # NoCall

Taken == {id \in Calls : pc[id] # "new"}

\* The tag the call with k calls before it takes, as long as tags are left.
Nth(k) == IF k + 1 = TagSpace THEN 0 ELSE k + 1

\* The calls that have a tag took theirs in some order.
Numbering ==
    \E rank \in [Calls -> Nat] :
        /\ \A id \in Taken : rank[id] < Cardinality(Taken) /\ tag[id] = Nth(rank[id])
        /\ \A a, b \in Taken : rank[a] = rank[b] => a = b

InSrv  == {toSrv[i].call : i \in DOMAIN toSrv}
InClnt == {toClnt[i].call : i \in DOMAIN toClnt}

\* Message m is the request, or the answer, of a call that has written it.
OfCall(m) == /\ m.call \in Calls /\ m.tag = tag[m.call]
             /\ pc[m.call] \in {"waiting", "returned"}

\* A message nobody has read yet finds its call.
Finds(m) == Normal => callmap[m.tag] = m.call

\* The way of a request: to the server, unexecuted and after the client's name;
\* served; to the client.
Requests ==
    /\ \A i \in DOMAIN toSrv :
          /\ toSrv[i].call = NoCall <=> srvReader = "name" /\ i = 1
          /\ toSrv[i].call # NoCall =>
                OfCall(toSrv[i]) /\ Finds(toSrv[i]) /\ executed[toSrv[i].call] = 0
    /\ \A i, j \in DOMAIN toSrv : toSrv[i].call = toSrv[j].call => i = j

Answers ==
    /\ \A m \in serving : OfCall(m) /\ Finds(m) /\ executed[m.call] = 1 /\ m.call \notin InClnt
    /\ \A i \in DOMAIN toClnt :
          OfCall(toClnt[i]) /\ Finds(toClnt[i]) /\ executed[toClnt[i].call] = 1
    /\ \A i, j \in DOMAIN toClnt : toClnt[i].call = toClnt[j].call => i = j
    /\ executed \in [Calls -> {0, 1}]
    /\ \A id \in Calls : executed[id] # 0 => pc[id] \in {"waiting", "returned"}

\* callmap has calls that wait or will, under their tags.
Waiting ==
    /\ \A t \in Tags : callmap[t] # NoCall => Outstanding(callmap[t]) /\ tag[callmap[t]] = t
    /\ \A id \in Calls : Normal /\ pc[id] \in {"put", "writing"} => callmap[tag[id]] = id
    /\ writer # NoCall => pc[writer] = "writing"

\* The message the reader has is nowhere else, and its call waits.
Reading ==
    /\ reader.at # "fatal"
    /\ reader.at = "reply" /\ Normal =>
          /\ OfCall(reader.msg) /\ callmap[reader.msg.tag] = reader.msg.call
          /\ executed[reader.msg.call] = 1 /\ reader.msg.call \notin InClnt
          /\ \A m \in serving : m.call # reader.msg.call
    /\ reader.at = "send" =>
          /\ reader.to \in Calls /\ Outstanding(reader.to)
          /\ \A t \in Tags : callmap[t] # reader.to
          /\ Normal => reader.to = reader.msg.call /\ executed[reader.to] = 1

\* Once the reader fails calls the map is closed, and the tags left have calls.
Failing ==
    /\ ~Normal => closed
    /\ closed \/ closer = "transport" => conn # "open"
    /\ reader.at \in {"failing", "reply", "send"} /\ ~Normal =>
          \A t \in reader.left : callmap[t] # NoCall
    /\ reader.at = "reply" /\ ~Normal =>
          callmap[reader.msg.tag] # NoCall /\ reader.msg.tag \notin reader.left

\* Until NewDemuxClnt has returned there is no call and no message; then nextTag is the
\* tag of the next call, and the name is there for the server to read.
Start ==
    /\ ~Made => /\ toSrv = <<>> /\ toClnt = <<>> /\ serving = {} /\ Taken = {}
                /\ srvReader # "read" /\ (conn # "broken" => srvReader = "name")
    /\ reader.at = "dialed" => conn # "closed" /\ srvReader # "fatal"
    /\ Made => /\ Cardinality(Taken) < TagSpace => nextTag = Nth(Cardinality(Taken))
               /\ srvReader = "name" => toSrv # <<>>
               /\ srvReader # "fatal"

\* What returned is the call's own answer, or a failure.
Outcomes ==
    \A id \in Calls : pc[id] = "returned" =>
        result[id] = "failed" \/ (result[id] = id /\ executed[id] = 1)

IInv ==
    /\ TypeOK
    /\ Numbering
    /\ Requests
    /\ Answers
    /\ Waiting
    /\ Reading
    /\ Failing

-----------------------------------------------------------------------------
\* The facts the steps use of the types.
LEMMA Types ==
    ASSUME TypeOK
    PROVE  /\ Calls \cap {NoCall, "none", "failed"} = {} /\ NoCall \notin Calls
           /\ reader \in Reader /\ reader.msg \in Msg /\ reader.msg.tag \in Tags
           /\ reader.left \in SUBSET Tags /\ reader.to \in Calls \cup {NoCall}
           /\ reader.at \in {"dialed", "exited", "read", "reply", "send", "closed", "failing", "over",
                             "fatal"}
           /\ Len(toSrv) \in Nat /\ DOMAIN toSrv = 1..Len(toSrv)
           /\ Len(toClnt) \in Nat /\ DOMAIN toClnt = 1..Len(toClnt)
           /\ \A i \in DOMAIN toSrv : toSrv[i] \in Msg
           /\ \A i \in DOMAIN toClnt : toClnt[i] \in Msg
           /\ \A m \in Msg : m.tag \in Tags /\ m.call \in Calls \cup {NoCall}
           /\ TagSpace \in Nat \ {0} /\ BufLen \in Nat \ {0}
  <1>1. /\ Calls \cap {NoCall, "none", "failed"} = {} /\ NoCall \notin Calls
        /\ TagSpace \in Nat \ {0} /\ BufLen \in Nat \ {0}
    BY DemuxAssumption
  <1>2. \A m \in Msg : m.tag \in Tags /\ m.call \in Calls \cup {NoCall}
    BY DEF Msg
  <1>3. /\ reader \in Reader /\ reader.msg \in Msg
        /\ reader.left \in SUBSET Tags /\ reader.to \in Calls \cup {NoCall}
        /\ reader.at \in {"dialed", "exited", "read", "reply", "send", "closed", "failing", "over",
                             "fatal"}
    BY DEF TypeOK, Reader
  <1>4. toSrv \in Seq(Msg) /\ toClnt \in Seq(Msg)
    BY DEF TypeOK
  <1>5. /\ Len(toSrv) \in Nat /\ DOMAIN toSrv = 1..Len(toSrv)
        /\ Len(toClnt) \in Nat /\ DOMAIN toClnt = 1..Len(toClnt)
        /\ \A i \in DOMAIN toSrv : toSrv[i] \in Msg
        /\ \A i \in DOMAIN toClnt : toClnt[i] \in Msg
    BY <1>4
  <1> QED BY <1>1, <1>2, <1>3, <1>5

LEMMA TakenCount ==
    /\ IsFiniteSet(Taken) /\ Cardinality(Taken) \in Nat
    /\ Cardinality(Taken) <= Cardinality(Calls) /\ Cardinality(Taken) <= TagSpace
    /\ TagSpace \in Nat \ {0}
  <1>1. Taken \subseteq Calls
    BY DEF Taken
  <1>2. /\ IsFiniteSet(Taken) /\ Cardinality(Taken) <= Cardinality(Calls)
        /\ Cardinality(Taken) \in Nat /\ Cardinality(Calls) \in Nat
    BY <1>1, TagAssumption, FS_Subset, FS_CardinalityType
  <1> QED BY <1>2, TagAssumption, DemuxAssumption

\* No two calls have the same tag.
LEMMA DistinctTags ==
    ASSUME Numbering, NEW a \in Taken, NEW b \in Taken, tag[a] = tag[b]
    PROVE  a = b
  <1>1. PICK rank \in [Calls -> Nat] :
          /\ \A id \in Taken : rank[id] < Cardinality(Taken) /\ tag[id] = Nth(rank[id])
          /\ \A x, y \in Taken : rank[x] = rank[y] => x = y
    BY DEF Numbering
  <1>2. /\ rank[a] \in Nat /\ rank[b] \in Nat
        /\ rank[a] < TagSpace /\ rank[b] < TagSpace
        /\ Nth(rank[a]) = Nth(rank[b])
    BY <1>1, TakenCount DEF Taken
  <1>3. rank[a] = rank[b]
    BY <1>2, TakenCount DEF Nth
  <1> QED BY <1>1, <1>3

\* takeTag numbers one more call.
LEMMA NumberingStep ==
    ASSUME TypeOK, Numbering, Start, NEW id \in Calls, takeTag(id)
    PROVE  /\ Numbering'
           /\ Cardinality(Taken') < TagSpace => nextTag' = Nth(Cardinality(Taken'))
  <1>1. PICK rank \in [Calls -> Nat] :
          /\ \A x \in Taken : rank[x] < Cardinality(Taken) /\ tag[x] = Nth(rank[x])
          /\ \A x, y \in Taken : rank[x] = rank[y] => x = y
    BY DEF Numbering
  <1> DEFINE k == Cardinality(Taken)
             newRank == [rank EXCEPT ![id] = k]
  <1>2. /\ Taken' = Taken \cup {id} /\ id \notin Taken
        /\ tag' = [tag EXCEPT ![id] = nextTag] /\ tag \in [Calls -> Tags]
        /\ nextTag' = (nextTag + 1) % TagSpace
    BY DEF takeTag, At, Taken, TypeOK
  <1>3. Cardinality(Taken') = k + 1
    BY <1>2, TakenCount, FS_AddElement
  <1>4. k \in Nat /\ k + 1 <= TagSpace /\ TagSpace \in Nat \ {0}
    <2>1. /\ k \in Nat /\ TagSpace \in Nat \ {0}
          /\ Cardinality(Taken)' <= TagSpace
      <3>1. Taken' \subseteq Calls
        BY <1>2 DEF Taken
      <3>2. Cardinality(Taken') <= Cardinality(Calls) /\ Cardinality(Calls) \in Nat
        BY <3>1, TagAssumption, FS_Subset, FS_CardinalityType
      <3>3. k \in Nat /\ TagSpace \in Nat \ {0}
        BY TakenCount
      <3> QED BY <1>3, <3>2, <3>3, TagAssumption
    <2> QED BY <1>3, <2>1
  <1>5. nextTag = Nth(k)
    BY <1>4 DEF Start, takeTag
  <1>6. k + 1 < TagSpace => nextTag' = Nth(k + 1)
    <2> SUFFICES ASSUME k + 1 < TagSpace PROVE nextTag' = Nth(k + 1)
      OBVIOUS
    <2>1. nextTag' = (k + 2) % TagSpace
      BY <1>2, <1>4, <1>5 DEF Nth
    <2>2. CASE k + 2 = TagSpace
      <3>1. TagSpace % TagSpace = 0
        BY <1>4
      <3> QED BY <1>4, <2>1, <2>2, <3>1 DEF Nth
    <2>3. CASE k + 2 < TagSpace
      <3>1. (k + 2) % TagSpace = k + 2
        BY <1>4, <2>3
      <3> QED BY <1>4, <2>1, <2>3, <3>1 DEF Nth
    <2> QED BY <1>4, <2>2, <2>3
  <1> HIDE DEF k
  <1>7. newRank \in [Calls -> Nat] /\ newRank[id] = k
        /\ \A x \in Taken : newRank[x] = rank[x]
    BY <1>2, <1>4 DEF Taken
  <1>8. \A x \in Taken : x \in Calls /\ rank[x] \in Nat /\ rank[x] < k
    BY <1>1 DEF k, Taken
  <1> HIDE DEF newRank
  <1>9. \A x \in Taken' : newRank[x] < k + 1 /\ tag'[x] = Nth(newRank[x])
    <2> SUFFICES ASSUME NEW x \in Taken'
                 PROVE  newRank[x] < k + 1 /\ tag'[x] = Nth(newRank[x])
      OBVIOUS
    <2>1. CASE x = id
      BY <1>2, <1>4, <1>5, <1>7, <2>1
    <2>2. CASE x \in Taken
      <3>1. newRank[x] = rank[x] /\ tag'[x] = tag[x]
        BY <1>2, <1>7, <1>8, <2>2
      <3> QED BY <1>1, <1>4, <1>8, <2>2, <3>1
    <2> QED BY <1>2, <2>1, <2>2
  <1>10. \A x, y \in Taken' : newRank[x] = newRank[y] => x = y
    BY <1>1, <1>2, <1>4, <1>7, <1>8
  <1> QED BY <1>3, <1>6, <1>7, <1>9, <1>10 DEF Numbering

\* The other steps number none.
LEMMA SameNumbering ==
    ASSUME Numbering, Taken' = Taken, UNCHANGED <<tag, nextTag>>
    PROVE  Numbering'
  BY DEF Numbering

-----------------------------------------------------------------------------
\* The calls with a message the reader has not got yet.
InFlight == InSrv \cup InClnt \cup {m.call : m \in serving}

Written == {id \in Calls : pc[id] \in {"waiting", "returned"}}

\* Steps that move no message and take no call with one from callmap.
LEMMA KeepMessages ==
    ASSUME IInv, UNCHANGED <<toSrv, toClnt, srvVars>>,
           \A x \in Written : x \in Written' /\ tag'[x] = tag[x],
           Normal' => Normal,
           \A x \in Written \cap InFlight :
              Normal' /\ callmap[tag[x]] = x => callmap'[tag[x]] = x
    PROVE  Requests' /\ Answers'
  <1>1. /\ TypeOK /\ Requests /\ Answers
        /\ UNCHANGED <<toSrv, toClnt, srvReader, serving, executed>>
    BY DEF IInv, srvVars
  <1>2. ASSUME NEW m \in Msg, m.call \in InFlight, OfCall(m), Finds(m)
        PROVE  OfCall(m)' /\ Finds(m)'
    <2>1. m.call \in Written /\ m.tag = tag[m.call] /\ (Normal => callmap[m.tag] = m.call)
      BY <1>2 DEF OfCall, Finds, Written
    <2> QED BY <1>2, <2>1 DEF OfCall, Finds, Written
  <1>3. Requests'
    <2>1. ASSUME NEW i \in DOMAIN toSrv, toSrv[i].call # NoCall
          PROVE  OfCall(toSrv[i])' /\ Finds(toSrv[i])' /\ executed'[toSrv'[i].call] = 0
      <3>1. PICK m \in Msg : m = toSrv[i]
        BY <1>1, Types
      <3>2. OfCall(m) /\ Finds(m) /\ executed[m.call] = 0 /\ m.call \in InFlight
        BY <1>1, <2>1, <3>1 DEF Requests, InFlight, InSrv
      <3> QED BY <1>1, <1>2, <3>1, <3>2 DEF OfCall, Finds
    <2> QED BY <1>1, <2>1 DEF Requests
  <1>4. Answers'
    <2>1. \A m \in serving : OfCall(m)' /\ Finds(m)'
      BY <1>1, <1>2 DEF Answers, InFlight, TypeOK
    <2>2. ASSUME NEW i \in DOMAIN toClnt
          PROVE  OfCall(toClnt[i])' /\ Finds(toClnt[i])'
      <3>1. PICK m \in Msg : m = toClnt[i]
        BY <1>1, Types
      <3>2. OfCall(m) /\ Finds(m) /\ m.call \in InFlight
        BY <1>1, <3>1 DEF Answers, InFlight, InClnt
      <3> QED BY <1>1, <1>2, <3>1, <3>2 DEF OfCall, Finds
    <2>3. \A id \in Calls : executed[id] # 0 => pc'[id] \in {"waiting", "returned"}
      BY <1>1 DEF Answers, Written
    <2> QED BY <1>1, <2>1, <2>2, <2>3 DEF Answers, InClnt
  <1> QED BY <1>3, <1>4

LEMMA TakeTagInv ==
    ASSUME IInv, Start, NEW id \in Calls, takeTag(id)
    PROVE  IInv'
  <1>1. /\ TypeOK /\ Numbering /\ Waiting /\ Reading /\ Failing
        /\ pc[id] = "new" /\ pc' = [pc EXCEPT ![id] = "tagged"]
        /\ tag' = [tag EXCEPT ![id] = nextTag] /\ nextTag' = (nextTag + 1) % TagSpace
        /\ UNCHANGED <<writer, callmap, closed, result, reader, closer, conn, toSrv,
                       toClnt, srvReader, serving, executed>>
        /\ pc \in [Calls -> {"new", "tagged", "put", "writing", "waiting", "returned"}]
        /\ tag \in [Calls -> Tags] /\ callmap \in [Tags -> Calls \cup {NoCall}]
        /\ nextTag \in Tags
    BY DEF IInv, takeTag, At, srvVars, TypeOK
  <1>2. nextTag' \in Tags
    <2>1. TagSpace \in Nat \ {0} /\ nextTag \in Nat
      BY <1>1, DemuxAssumption DEF Tags
    <2>2. (nextTag + 1) % TagSpace \in 0..(TagSpace - 1)
      BY <2>1
    <2> QED BY <1>1, <2>2 DEF Tags
  <1>3. TypeOK'
    BY <1>1, <1>2 DEF TypeOK
  <1>4. Numbering'
    BY <1>1, NumberingStep
  <1>5. Normal' <=> Normal
    BY <1>1 DEF Normal
  <1>6. Requests' /\ Answers'
    <2>1. \A x \in Written : x \in Written' /\ tag'[x] = tag[x]
      BY <1>1 DEF Written
    <2> QED BY <1>1, <1>5, <2>1, KeepMessages DEF srvVars
  <1>7. \A x \in Calls : /\ Outstanding(x)' <=> Outstanding(x)
                         /\ x # id => pc'[x] = pc[x] /\ tag'[x] = tag[x]
    BY <1>1 DEF Outstanding
  <1>8. Waiting'
    BY <1>1, <1>5, <1>7 DEF Waiting, Outstanding, TypeOK
  <1>9. Reading'
    BY <1>1, <1>5, <1>7 DEF Reading, Outstanding, OfCall, InClnt
  <1>10. Failing'
    BY <1>1, <1>5 DEF Failing
  <1> QED BY <1>3, <1>4, <1>6, <1>8, <1>9, <1>10 DEF IInv

LEMMA PutInv ==
    ASSUME IInv, NEW id \in Calls, put(id)
    PROVE  IInv'
  <1>1. /\ TypeOK /\ Numbering /\ Waiting /\ Reading /\ Failing /\ Requests /\ Answers
        /\ pc[id] = "tagged"
        /\ UNCHANGED <<nextTag, tag, writer, closed, reader, closer, conn, toSrv,
                       toClnt, srvReader, serving, executed>>
        /\ pc \in [Calls -> {"new", "tagged", "put", "writing", "waiting", "returned"}]
        /\ tag \in [Calls -> Tags] /\ callmap \in [Tags -> Calls \cup {NoCall}]
        /\ result \in [Calls -> Calls \cup {"none", "failed"}]
        /\ NoCall \notin Calls
    BY Types DEF IInv, put, srvVars, TypeOK
  <1>2. Normal' <=> Normal
    BY <1>1 DEF Normal
  <1>3. CASE closed
    <2>1. /\ pc' = [pc EXCEPT ![id] = "returned"] /\ UNCHANGED callmap
          /\ result' = [result EXCEPT ![id] = "failed"]
      BY <1>3 DEF put
    <2>2. TypeOK'
      BY <1>1, <2>1 DEF TypeOK
    <2>3. Numbering'
      <3>1. Taken' = Taken
        BY <1>1, <2>1 DEF Taken
      <3> QED BY <1>1, <3>1, SameNumbering
    <2>4. Requests' /\ Answers'
      <3>1. \A x \in Written : x \in Written' /\ tag'[x] = tag[x]
        BY <1>1, <2>1 DEF Written
      <3> QED BY <1>1, <1>2, <2>1, <3>1, KeepMessages DEF srvVars
    <2>5. \A x \in Calls : /\ Outstanding(x)' <=> Outstanding(x)
                           /\ x # id => pc'[x] = pc[x]
      BY <1>1, <2>1 DEF Outstanding
    <2>6. Waiting'
      BY <1>1, <1>2, <2>1, <2>5 DEF Waiting, Outstanding, TypeOK
    <2>7. Reading' /\ Failing'
      BY <1>1, <1>2, <2>1, <2>5 DEF Reading, Failing, OfCall, InClnt
    <2> QED BY <2>2, <2>3, <2>4, <2>6, <2>7 DEF IInv
  <1>4. CASE ~closed
    <2>1. /\ pc' = [pc EXCEPT ![id] = "put"] /\ UNCHANGED result
          /\ callmap' = [callmap EXCEPT ![tag[id]] = id] /\ tag[id] \in Tags
      BY <1>1, <1>4 DEF put
    <2>2. TypeOK'
      BY <1>1, <2>1 DEF TypeOK
    <2>3. Numbering'
      <3>1. Taken' = Taken
        BY <1>1, <2>1 DEF Taken
      <3> QED BY <1>1, <3>1, SameNumbering
    <2>4. \A x \in Calls : pc[x] # "new" /\ x # id => tag[x] # tag[id]
      BY <1>1, DistinctTags DEF Taken
    <2>5. \A x \in Calls : pc[x] \in {"waiting", "returned"} => callmap'[tag[x]] = callmap[tag[x]]
      BY <1>1, <2>1, <2>4
    <2>6. Requests' /\ Answers'
      <3>1. \A x \in Written : x \in Written' /\ tag'[x] = tag[x]
        BY <1>1, <2>1 DEF Written
      <3> QED BY <1>1, <1>2, <2>5, <3>1, KeepMessages DEF srvVars, Written
    <2>7. Waiting'
      <3>1. ASSUME NEW t \in Tags, callmap'[t] # NoCall
            PROVE  Outstanding(callmap[t])' /\ tag'[callmap'[t]] = t
        BY <1>1, <2>1, <3>1 DEF Waiting, Outstanding
      <3>2. ASSUME NEW x \in Calls, Normal', pc'[x] \in {"put", "writing"}
            PROVE  callmap'[tag'[x]] = x
        BY <1>1, <1>2, <2>1, <2>4, <3>2 DEF Waiting
      <3>3. writer' # NoCall => pc'[writer'] = "writing"
        BY <1>1, <2>1 DEF Waiting, TypeOK
      <3> QED BY <3>1, <3>2, <3>3 DEF Waiting, Outstanding
    <2>8. Reading'
      <3>1. reader.at = "reply" /\ Normal =>
              /\ OfCall(reader.msg)' /\ callmap'[reader.msg.tag] = reader.msg.call
        BY <1>1, <2>1, <2>5 DEF Reading, OfCall
      <3>2. reader.at = "send" =>
              /\ Outstanding(reader.to)' /\ \A t \in Tags : callmap'[t] # reader.to
        BY <1>1, <2>1 DEF Reading, Outstanding
      <3> QED BY <1>1, <1>2, <3>1, <3>2 DEF Reading, InClnt, OfCall, Outstanding
    <2>9. Failing'
      BY <1>1, <1>2, <1>4, <2>1 DEF Failing
    <2> QED BY <2>2, <2>3, <2>6, <2>7, <2>8, <2>9 DEF IInv
  <1> QED BY <1>3, <1>4

LEMMA LockInv ==
    ASSUME IInv, NEW id \in Calls, lockToWrite(id)
    PROVE  IInv'
  <1>1. /\ TypeOK /\ Numbering /\ Waiting /\ Reading /\ Failing
        /\ pc[id] = "put" /\ pc' = [pc EXCEPT ![id] = "writing"] /\ writer' = id
        /\ UNCHANGED <<nextTag, tag, callmap, closed, result, reader, closer, conn,
                       toSrv, toClnt, srvReader, serving, executed>>
        /\ pc \in [Calls -> {"new", "tagged", "put", "writing", "waiting", "returned"}]
        /\ callmap \in [Tags -> Calls \cup {NoCall}]
    BY DEF IInv, lockToWrite, At, srvVars, TypeOK
  <1>2. TypeOK'
    BY <1>1 DEF TypeOK
  <1>3. Numbering'
    <2>1. Taken' = Taken
      BY <1>1 DEF Taken
    <2> QED BY <1>1, <2>1, SameNumbering
  <1>4. Normal' <=> Normal
    BY <1>1 DEF Normal
  <1>5. Requests' /\ Answers'
    <2>1. \A x \in Written : x \in Written' /\ tag'[x] = tag[x]
      BY <1>1 DEF Written
    <2> QED BY <1>1, <1>4, <2>1, KeepMessages DEF srvVars
  <1>6. \A x \in Calls : /\ Outstanding(x)' <=> Outstanding(x)
                         /\ pc'[x] \in {"put", "writing"} <=> pc[x] \in {"put", "writing"}
                         /\ x # id => pc'[x] = pc[x]
    BY <1>1 DEF Outstanding
  <1>7. Waiting'
    BY <1>1, <1>4, <1>6 DEF Waiting, Outstanding
  <1>8. Reading' /\ Failing'
    BY <1>1, <1>4, <1>6 DEF Reading, Failing, OfCall, InClnt
  <1> QED BY <1>2, <1>3, <1>5, <1>7, <1>8 DEF IInv

LEMMA WriteInv ==
    ASSUME IInv, Start, NEW id \in Calls, WriteCall(id)
    PROVE  IInv'
  <1>1. /\ TypeOK /\ Numbering /\ Waiting /\ Reading /\ Failing /\ Requests /\ Answers
        /\ pc[id] = "writing" /\ pc' = [pc EXCEPT ![id] = "waiting"] /\ writer' = NoCall
        /\ UNCHANGED <<nextTag, tag, callmap, closed, result, reader, closer, conn,
                       toClnt, srvReader, serving, executed>>
        /\ pc \in [Calls -> {"new", "tagged", "put", "writing", "waiting", "returned"}]
        /\ callmap \in [Tags -> Calls \cup {NoCall}] /\ tag \in [Calls -> Tags]
        /\ toSrv \in Seq(Msg) /\ Len(toSrv) <= BufLen /\ NoCall \notin Calls
        /\ BufLen \in Nat
    BY Types DEF IInv, WriteCall, At, srvVars, TypeOK
  <1> DEFINE msg == [tag |-> tag[id], call |-> id]
  <1>2. \/ UNCHANGED toSrv
        \/ Len(toSrv) < BufLen /\ toSrv' = Append(toSrv, msg)
    BY DEF WriteCall
  <1>3. msg \in Msg
    BY <1>1 DEF Msg
  <1>4. toSrv' \in Seq(Msg) /\ Len(toSrv') <= BufLen
    <2>1. CASE UNCHANGED toSrv
      BY <1>1, <2>1
    <2>2. CASE Len(toSrv) < BufLen /\ toSrv' = Append(toSrv, msg)
      <3>1. toSrv' \in Seq(Msg) /\ Len(toSrv') = Len(toSrv) + 1 /\ Len(toSrv) \in Nat
        BY <1>1, <1>3, <2>2
      <3> QED BY <1>1, <2>2, <3>1
    <2> QED BY <1>2, <2>1, <2>2
  <1>5. TypeOK'
    BY <1>1, <1>4 DEF TypeOK
  <1>6. Numbering'
    <2>1. Taken' = Taken
      BY <1>1 DEF Taken
    <2> QED BY <1>1, <2>1, SameNumbering
  <1>7. Normal' <=> Normal
    BY <1>1 DEF Normal
  <1>8. /\ \A x \in Calls : /\ Outstanding(x)' <=> Outstanding(x)
                            /\ x # id => pc'[x] = pc[x]
        /\ pc'[id] = "waiting"
    BY <1>1 DEF Outstanding
  <1>9. Waiting'
    BY <1>1, <1>7, <1>8 DEF Waiting, Outstanding
  <1>10. Reading' /\ Failing'
    BY <1>1, <1>7, <1>8 DEF Reading, Failing, OfCall, InClnt
  <1>11. \A m \in Msg : OfCall(m) => OfCall(m)'
    BY <1>1 DEF OfCall
  <1>12. \A m \in Msg : Finds(m) => Finds(m)'
    BY <1>1, <1>7 DEF Finds
  <1>13. Answers'
    <2>1. serving \subseteq Msg
      BY <1>1 DEF TypeOK
    <2>2. ASSUME NEW i \in DOMAIN toClnt
          PROVE  OfCall(toClnt[i])' /\ Finds(toClnt[i])'
      <3>1. PICK m \in Msg : m = toClnt[i] /\ OfCall(m) /\ Finds(m)
        BY <1>1, Types DEF Answers
      <3> QED BY <1>1, <1>11, <1>12, <3>1 DEF OfCall, Finds
    <2> QED BY <1>1, <1>8, <1>11, <1>12, <2>1, <2>2 DEF Answers, InClnt
  <1>14. ASSUME NEW i \in DOMAIN toSrv, toSrv[i].call # NoCall
         PROVE  LET m == toSrv[i] IN
                m.call # id /\ OfCall(m)' /\ Finds(m)' /\ executed[m.call] = 0
    <2>1. PICK m \in Msg : /\ m = toSrv[i] /\ OfCall(m) /\ Finds(m)
                           /\ executed[m.call] = 0
      BY <1>1, <1>14, Types DEF Requests
    <2>2. m.call # id /\ OfCall(m)' /\ Finds(m)'
      BY <1>1, <1>11, <1>12, <2>1 DEF OfCall
    <2>3. /\ m.call \in Calls /\ m.tag = tag'[m.call] /\ pc'[m.call] \in {"waiting", "returned"}
          /\ Normal' => callmap'[m.tag] = m.call
      BY <2>2 DEF OfCall, Finds
    <2>4. CASE UNCHANGED toSrv
      BY <2>1, <2>2, <2>4 DEF OfCall, Finds
    <2>5. CASE toSrv' = Append(toSrv, msg)
      <3>1. toSrv'[i] = m
        BY <1>1, <1>3, <2>1, <2>5
      <3> QED BY <2>1, <2>2, <2>3, <3>1 DEF OfCall, Finds
    <2> QED BY <1>2, <2>4, <2>5
  <1>15. Requests'
    <2>1. CASE UNCHANGED toSrv
      BY <1>1, <1>14, <2>1 DEF Requests
    <2>2. CASE toSrv' = Append(toSrv, msg)
      <3>1. /\ DOMAIN toSrv' = 1..(Len(toSrv) + 1) /\ Len(toSrv) \in Nat
            /\ DOMAIN toSrv = 1..Len(toSrv)
            /\ \A i \in DOMAIN toSrv : toSrv'[i] = toSrv[i]
            /\ toSrv'[Len(toSrv) + 1] = msg /\ toSrv' # <<>>
        BY <1>1, <1>3, <2>2
      <3>2. /\ executed[id] = 0 /\ (Normal => callmap[tag[id]] = id)
        BY <1>1 DEF Answers, Waiting
      <3>3. srvReader = "name" => Len(toSrv) # 0
        BY <1>1, <3>1 DEF Start, Taken
      <3>4. ASSUME NEW i \in DOMAIN toSrv'
            PROVE  /\ toSrv'[i].call = NoCall <=> srvReader' = "name" /\ i = 1
                   /\ toSrv'[i].call # NoCall =>
                        OfCall(toSrv[i])' /\ Finds(toSrv[i])' /\ executed'[toSrv'[i].call] = 0
        <4>1. CASE i = Len(toSrv) + 1
          <5>1. i # 1 \/ srvReader # "name"
            BY <3>1, <3>3, <4>1
          <5>2. toSrv'[i].call = id /\ toSrv'[i].tag = tag[id]
            BY <3>1, <4>1
          <5> QED BY <1>1, <1>7, <1>8, <3>2, <5>1, <5>2 DEF OfCall, Finds
        <4>2. CASE i # Len(toSrv) + 1
          <5>1. i \in DOMAIN toSrv /\ toSrv'[i] = toSrv[i]
            BY <3>1, <4>2
          <5> QED BY <1>1, <1>14, <5>1 DEF Requests
        <4> QED BY <4>1, <4>2
      <3>5. ASSUME NEW i \in DOMAIN toSrv', NEW j \in DOMAIN toSrv',
                   toSrv'[i].call = toSrv'[j].call
            PROVE  i = j
        <4>1. \A n \in DOMAIN toSrv : toSrv'[n].call # id
          BY <1>1, <1>14, <3>1
        <4>2. toSrv'[Len(toSrv) + 1].call = id
          BY <3>1
        <4> QED BY <1>1, <3>1, <3>5, <4>1, <4>2 DEF Requests
      <3> QED BY <3>1, <3>4, <3>5 DEF Requests
    <2> QED BY <1>2, <2>1, <2>2
  <1> QED BY <1>5, <1>6, <1>9, <1>10, <1>13, <1>15 DEF IInv

-----------------------------------------------------------------------------
\* The reader.

LEMMA SameRequests ==
    ASSUME Requests, UNCHANGED <<toSrv, srvReader, executed, pc, tag, callmap>>,
           Normal' => Normal
    PROVE  Requests'
  BY DEF Requests, OfCall, Finds

LEMMA TailFacts ==
    ASSUME NEW s \in Seq(Msg), s # <<>>
    PROVE  /\ Tail(s) \in Seq(Msg) /\ Len(s) \in Nat \ {0}
           /\ Len(Tail(s)) = Len(s) - 1 /\ DOMAIN s = 1..Len(s)
           /\ Head(s) = s[1] /\ s[1] \in Msg /\ 1 \in DOMAIN s
           /\ \A i \in DOMAIN Tail(s) :
                 i \in Nat \ {0} /\ i + 1 \in DOMAIN s /\ Tail(s)[i] = s[i + 1]
  OBVIOUS

LEMMA ReadCallInv ==
    ASSUME IInv, ReadCall
    PROVE  IInv'
  <1>1. /\ TypeOK /\ Numbering /\ Waiting /\ Reading /\ Failing /\ Requests /\ Answers
        /\ reader.at = "read" /\ toClnt # <<>> /\ toClnt' = Tail(toClnt)
        /\ reader' = [reader EXCEPT !.at = "reply", !.msg = Head(toClnt)]
        /\ UNCHANGED <<nextTag, pc, tag, writer, callmap, closed, result, closer, conn,
                       toSrv, srvReader, serving, executed>>
        /\ toClnt \in Seq(Msg) /\ Len(toClnt) <= BufLen /\ reader \in Reader
        /\ NoCall \notin Calls /\ BufLen \in Nat
    BY Types DEF IInv, ReadCall, callVars, srvVars, TypeOK
  <1>2. /\ toClnt' \in Seq(Msg) /\ Len(toClnt) \in Nat \ {0}
        /\ Len(toClnt') = Len(toClnt) - 1
        /\ Head(toClnt) = toClnt[1] /\ toClnt[1] \in Msg /\ 1 \in DOMAIN toClnt
        /\ \A i \in DOMAIN toClnt' :
              i \in Nat \ {0} /\ i + 1 \in DOMAIN toClnt /\ toClnt'[i] = toClnt[i + 1]
    BY <1>1, TailFacts
  <1>3. PICK m \in Msg : m = toClnt[1]
    BY <1>2
  <1>4. OfCall(m) /\ Finds(m) /\ executed[m.call] = 1 /\ m.call # NoCall
    BY <1>1, <1>2, <1>3 DEF Answers, OfCall
  <1>5. /\ reader' \in Reader /\ reader'.at = "reply" /\ reader'.msg = m
        /\ reader'.to = reader.to /\ reader'.left = reader.left
    BY <1>1, <1>2, <1>3 DEF Reader
  <1>6. TypeOK'
    BY <1>1, <1>2, <1>5 DEF TypeOK
  <1>7. Numbering'
    <2>1. Taken' = Taken
      BY <1>1 DEF Taken
    <2> QED BY <1>1, <2>1, SameNumbering
  <1>8. Normal /\ Normal'
    BY <1>1, <1>4, <1>5 DEF Normal
  <1>9. Requests'
    BY <1>1, <1>8, SameRequests
  <1>10. InClnt' \subseteq InClnt /\ m.call \notin InClnt'
    <2>1. InClnt' \subseteq InClnt
      BY <1>2 DEF InClnt
    <2>2. ASSUME NEW i \in DOMAIN toClnt' PROVE toClnt'[i].call # m.call
      <3>1. i + 1 # 1 /\ i + 1 \in DOMAIN toClnt /\ toClnt'[i] = toClnt[i + 1]
        BY <1>2
      <3> QED BY <1>1, <1>2, <1>3, <3>1 DEF Answers
    <2> QED BY <2>1, <2>2 DEF InClnt
  <1>11. Answers'
    <2>1. \A x \in serving : /\ OfCall(x)' /\ Finds(x)' /\ executed[x.call] = 1
                             /\ x.call \notin InClnt'
      BY <1>1, <1>8, <1>10 DEF Answers, OfCall, Finds
    <2>2. ASSUME NEW i \in DOMAIN toClnt'
          PROVE  OfCall(toClnt[i])' /\ Finds(toClnt[i])' /\ executed[toClnt'[i].call] = 1
      <3>1. i + 1 \in DOMAIN toClnt /\ toClnt'[i] = toClnt[i + 1]
        BY <1>2
      <3>2. PICK x : x = toClnt[i + 1] /\ OfCall(x) /\ Finds(x) /\ executed[x.call] = 1
        BY <1>1, <3>1 DEF Answers
      <3> QED BY <1>1, <1>8, <3>1, <3>2 DEF OfCall, Finds
    <2>3. ASSUME NEW i \in DOMAIN toClnt', NEW j \in DOMAIN toClnt',
                 toClnt'[i].call = toClnt'[j].call
          PROVE  i = j
      <3>1. i + 1 = j + 1
        BY <1>1, <1>2, <2>3 DEF Answers
      <3> QED BY <1>2, <3>1
    <2> QED BY <1>1, <2>1, <2>2, <2>3 DEF Answers
  <1>12. Waiting'
    BY <1>1, <1>8 DEF Waiting, Outstanding
  <1>13. Reading'
    <2>1. /\ OfCall(m)' /\ callmap'[m.tag] = m.call /\ executed'[m.call] = 1
          /\ m.call \notin InClnt' /\ \A x \in serving' : x.call # m.call
      BY <1>1, <1>2, <1>3, <1>4, <1>8, <1>10 DEF Answers, OfCall, Finds, InClnt
    <2> QED BY <1>5, <2>1 DEF Reading, OfCall
  <1>14. Failing'
    BY <1>1, <1>5, <1>8 DEF Failing
  <1> QED BY <1>6, <1>7, <1>9, <1>11, <1>12, <1>13, <1>14 DEF IInv

LEMMA ReadErrorInv ==
    ASSUME IInv, ReadError
    PROVE  IInv'
  <1>1. /\ TypeOK /\ Numbering /\ Waiting /\ Reading /\ Failing
        /\ reader.at = "read" /\ conn # "open" /\ closed' = TRUE
        /\ reader' = [reader EXCEPT !.at = "closed"]
        /\ UNCHANGED <<nextTag, pc, tag, writer, callmap, result, closer, conn, toSrv,
                       toClnt, srvReader, serving, executed>>
        /\ reader \in Reader
    BY Types DEF IInv, ReadError, callVars, srvVars
  <1>2. reader' \in Reader /\ reader'.at = "closed"
    BY <1>1 DEF Reader
  <1>3. TypeOK'
    BY <1>1, <1>2 DEF TypeOK
  <1>4. Numbering'
    <2>1. Taken' = Taken
      BY <1>1 DEF Taken
    <2> QED BY <1>1, <2>1, SameNumbering
  <1>5. ~Normal'
    BY <1>2 DEF Normal
  <1>6. Requests' /\ Answers'
    BY <1>1, <1>5, KeepMessages DEF srvVars, Written
  <1>7. Waiting' /\ Reading' /\ Failing'
    BY <1>1, <1>2, <1>5 DEF Waiting, Outstanding, Reading, Failing
  <1> QED BY <1>3, <1>4, <1>6, <1>7 DEF IInv

\* Steps of the reader that change nothing but where it is, once it fails calls.
LEMMA FailingStep ==
    ASSUME IInv, ~Normal, reader' \in Reader,
           UNCHANGED <<nextTag, pc, tag, writer, callmap, closed, result, closer, conn,
                       toSrv, toClnt, srvReader, serving, executed>>,
           \/ reader'.at \in {"failing", "over"}
           \/ /\ reader'.at = "reply" /\ reader'.msg.call = NoCall
              /\ callmap[reader'.msg.tag] # NoCall /\ reader'.msg.tag \notin reader'.left,
           reader'.at # "over" => \A t \in reader'.left : callmap[t] # NoCall
    PROVE  IInv'
  <1>1. TypeOK /\ Numbering /\ Waiting /\ Reading /\ Failing /\ NoCall \notin Calls
    BY Types DEF IInv
  <1>2. TypeOK'
    BY <1>1 DEF TypeOK
  <1>3. Numbering'
    <2>1. Taken' = Taken
      BY DEF Taken
    <2> QED BY <1>1, <2>1, SameNumbering
  <1>4. ~Normal'
    BY DEF Normal
  <1>5. Requests' /\ Answers'
    BY <1>4, KeepMessages DEF srvVars, Written
  <1>6. Waiting' /\ Reading' /\ Failing'
    BY <1>1, <1>4 DEF Waiting, Outstanding, Reading, Failing
  <1> QED BY <1>2, <1>3, <1>5, <1>6 DEF IInv

LEMMA FailInv ==
    ASSUME IInv, outstanding \/ FailNext
    PROVE  IInv'
  <1>1. /\ TypeOK /\ Failing /\ reader \in Reader /\ reader.left \in SUBSET Tags
        /\ UNCHANGED <<nextTag, pc, tag, writer, callmap, closed, result, closer, conn,
                       toSrv, toClnt, srvReader, serving, executed>>
    BY Types DEF IInv, outstanding, FailNext, callVars, srvVars
  <1>2. CASE outstanding
    <2>1. /\ ~Normal
          /\ reader' = [reader EXCEPT !.at = "failing", !.left = {t \in Tags : callmap[t] # NoCall}]
      BY <1>2 DEF outstanding, Normal
    <2>2. /\ reader' \in Reader /\ reader'.at = "failing"
          /\ \A t \in reader'.left : callmap[t] # NoCall
      BY <1>1, <2>1 DEF Reader
    <2> QED BY <1>1, <2>1, <2>2, FailingStep
  <1>3. CASE FailNext
    <2>1. reader.at = "failing" /\ ~Normal
      BY <1>3 DEF FailNext, Normal
    <2>2. \A t \in reader.left : callmap[t] # NoCall
      BY <1>1, <2>1 DEF Failing
    <2>3. CASE reader.left = {}
      <3>1. reader' = [reader EXCEPT !.at = "over"]
        BY <1>3, <2>3 DEF FailNext
      <3>2. reader' \in Reader /\ reader'.at = "over"
        BY <1>1, <3>1 DEF Reader
      <3> QED BY <1>1, <2>1, <3>2, FailingStep
    <2>4. CASE reader.left # {}
      <3>1. PICK t \in reader.left :
              reader' = [reader EXCEPT !.at = "reply", !.left = @ \ {t},
                                       !.msg = [tag |-> t, call |-> NoCall]]
        BY <1>3, <2>4 DEF FailNext
      <3>2. [tag |-> t, call |-> NoCall] \in Msg
        BY <1>1 DEF Msg
      <3>3. /\ reader' \in Reader /\ reader'.at = "reply" /\ reader'.msg.call = NoCall
            /\ reader'.msg.tag = t /\ reader'.left = reader.left \ {t}
        BY <1>1, <3>1, <3>2 DEF Reader
      <3> QED BY <1>1, <2>1, <2>2, <3>1, <3>3, FailingStep
    <2> QED BY <2>3, <2>4
  <1> QED BY <1>2, <1>3

\* The call is there: an answer finds the call it is for, a failure one that waits.
LEMMA RemoveInv ==
    ASSUME IInv, remove
    PROVE  IInv'
  <1>1. /\ TypeOK /\ Numbering /\ Waiting /\ Reading /\ Failing /\ Requests /\ Answers
        /\ reader.at = "reply"
        /\ UNCHANGED <<nextTag, pc, tag, writer, closed, result, closer, conn, toSrv,
                       toClnt, srvReader, serving, executed>>
        /\ reader \in Reader /\ NoCall \notin Calls /\ reader.msg \in Msg
        /\ callmap \in [Tags -> Calls \cup {NoCall}]
    BY Types DEF IInv, remove, callVars, srvVars, TypeOK
  <1>2. PICK t \in Tags : t = reader.msg.tag
    BY <1>1, Types
  <1>3. callmap[t] # NoCall
    <2>1. CASE Normal
      BY <1>1, <1>2, <2>1 DEF Reading, OfCall
    <2>2. CASE ~Normal
      BY <1>1, <1>2, <2>2 DEF Failing
    <2> QED BY <2>1, <2>2
  <1>4. PICK id \in Calls : id = callmap[t]
    BY <1>1, <1>3
  <1>5. /\ reader' = [reader EXCEPT !.at = "send", !.to = id]
        /\ callmap' = [callmap EXCEPT ![t] = NoCall]
    BY <1>1, <1>2, <1>4 DEF remove
  <1>6. /\ reader' \in Reader /\ reader'.at = "send" /\ reader'.to = id
        /\ reader'.msg = reader.msg /\ reader'.left = reader.left
    BY <1>1, <1>5 DEF Reader
  <1>7. callmap' \in [Tags -> Calls \cup {NoCall}]
    BY <1>1, <1>5
  <1>8. TypeOK'
    BY <1>1, <1>6, <1>7 DEF TypeOK
  <1>9. Numbering'
    <2>1. Taken' = Taken
      BY <1>1 DEF Taken
    <2> QED BY <1>1, <2>1, SameNumbering
  <1>10. Normal' <=> Normal
    BY <1>1, <1>6 DEF Normal
  <1>11. Outstanding(id) /\ tag[id] = t
    BY <1>1, <1>4 DEF Waiting
  <1>12. Normal => id = reader.msg.call /\ executed[id] = 1 /\ id \in Written
                   /\ id \notin InFlight
    <2> SUFFICES ASSUME Normal
                 PROVE  /\ id = reader.msg.call /\ executed[id] = 1 /\ id \in Written
                        /\ id \notin InFlight
      OBVIOUS
    <2>1. /\ id = reader.msg.call /\ executed[id] = 1 /\ id \notin InClnt
          /\ \A m \in serving : m.call # id
          /\ id \in Written
      BY <1>1, <1>2, <1>4 DEF Reading, OfCall, Written
    <2>2. id \notin InSrv
      BY <1>1, <2>1 DEF Requests, InSrv
    <2> QED BY <2>1, <2>2 DEF InFlight
  <1>13. Requests' /\ Answers'
    <2>1. ASSUME NEW x \in Written \cap InFlight, Normal', callmap[tag[x]] = x
          PROVE  callmap'[tag[x]] = x
      BY <1>1, <1>4, <1>5, <1>10, <1>12, <2>1
    <2> QED BY <1>1, <1>10, <2>1, KeepMessages DEF srvVars, Written
  <1>14. \A s \in Tags : s # t => callmap'[s] = callmap[s]
    BY <1>1, <1>5
  <1>15. callmap'[t] = NoCall
    BY <1>1, <1>5
  <1>16. Waiting'
    <2>1. ASSUME NEW x \in Calls, Normal', pc'[x] \in {"put", "writing"}
          PROVE  callmap'[tag'[x]] = x
      <3>1. callmap[tag[x]] = x /\ x # id /\ tag[x] \in Tags
        BY <1>1, <1>10, <1>12, <2>1 DEF Waiting, Written, TypeOK
      <3> QED BY <1>1, <1>4, <1>14, <3>1
    <2>2. ASSUME NEW s \in Tags, callmap'[s] # NoCall
          PROVE  Outstanding(callmap[s])' /\ tag'[callmap'[s]] = s
      BY <1>1, <1>14, <1>15, <2>2 DEF Waiting, Outstanding
    <2> QED BY <1>1, <2>1, <2>2 DEF Waiting
  <1>17. Reading'
    <2>1. \A s \in Tags : callmap'[s] # id
      BY <1>1, <1>4, <1>11, <1>14, <1>15 DEF Waiting
    <2> QED BY <1>1, <1>6, <1>10, <1>11, <1>12, <2>1 DEF Reading, Outstanding
  <1>18. Failing'
    <2>1. \A s \in reader.left : s \in Tags
      BY <1>1, Types
    <2> QED BY <1>1, <1>2, <1>6, <1>10, <1>14, <2>1 DEF Failing
  <1> QED BY <1>8, <1>9, <1>13, <1>16, <1>17, <1>18 DEF IInv

LEMMA DeliverInv ==
    ASSUME IInv, deliver
    PROVE  IInv'
  <1>1. /\ TypeOK /\ Numbering /\ Waiting /\ Reading /\ Failing
        /\ reader.at = "send"
        /\ UNCHANGED <<nextTag, tag, writer, callmap, closed, closer, conn, toSrv,
                       toClnt, srvReader, serving, executed>>
        /\ reader \in Reader /\ NoCall \notin Calls /\ reader.msg \in Msg
        /\ reader.msg.call \in Calls \cup {NoCall}
        /\ callmap \in [Tags -> Calls \cup {NoCall}] /\ tag \in [Calls -> Tags]
        /\ pc \in [Calls -> {"new", "tagged", "put", "writing", "waiting", "returned"}]
        /\ result \in [Calls -> Calls \cup {"none", "failed"}]
    BY Types DEF IInv, deliver, srvVars, TypeOK
  <1>2. PICK id \in Calls : /\ id = reader.to
                            /\ \A t \in Tags : callmap[t] # id
    BY <1>1 DEF Reading
  <1>3. pc[id] = "waiting" /\ pc' = [pc EXCEPT ![id] = "returned"]
    BY <1>2 DEF deliver, At
  <1>4. result' \in [Calls -> Calls \cup {"none", "failed"}]
    BY <1>1, <1>2 DEF deliver
  <1>5. /\ reader' \in Reader /\ reader'.left = reader.left
        /\ reader'.at = IF reader.msg.call = NoCall THEN "failing" ELSE "read"
    BY <1>1 DEF deliver, Reader
  <1>6. TypeOK'
    BY <1>1, <1>3, <1>4, <1>5 DEF TypeOK
  <1>7. Numbering'
    <2>1. Taken' = Taken
      BY <1>1, <1>3 DEF Taken
    <2> QED BY <1>1, <2>1, SameNumbering
  <1>8. Normal' <=> Normal
    BY <1>1, <1>5 DEF Normal
  <1>9. Requests' /\ Answers'
    <2>1. \A x \in Written : x \in Written' /\ tag'[x] = tag[x]
      BY <1>1, <1>3 DEF Written
    <2> QED BY <1>1, <1>8, <2>1, KeepMessages DEF srvVars
  <1>10. \A x \in Calls : x # id => pc'[x] = pc[x]
    BY <1>1, <1>3
  <1>11. Waiting'
    <2>1. ASSUME NEW t \in Tags, callmap'[t] # NoCall
          PROVE  Outstanding(callmap[t])' /\ tag'[callmap'[t]] = t
      BY <1>1, <1>2, <1>10, <2>1 DEF Waiting, Outstanding
    <2>2. ASSUME NEW x \in Calls, Normal', pc'[x] \in {"put", "writing"}
          PROVE  callmap'[tag'[x]] = x
      BY <1>1, <1>3, <1>8, <1>10, <2>2 DEF Waiting
    <2>3. writer' # NoCall => pc'[writer'] = "writing"
      BY <1>1, <1>3, <1>10 DEF Waiting, TypeOK
    <2> QED BY <2>1, <2>2, <2>3 DEF Waiting
  <1>12. Reading'
    BY <1>5 DEF Reading
  <1>13. Failing'
    BY <1>1, <1>5, <1>8 DEF Failing
  <1> QED BY <1>6, <1>7, <1>9, <1>11, <1>12, <1>13 DEF IInv

-----------------------------------------------------------------------------
\* Close, the end of the connection, and the server.

LEMMA CloseInv ==
    ASSUME IInv, Close
    PROVE  IInv'
  <1>1. /\ TypeOK /\ Numbering /\ Waiting /\ Reading /\ Failing
        /\ UNCHANGED <<nextTag, pc, tag, writer, callmap, result, reader, toSrv, toClnt,
                       srvReader, serving, executed>>
        /\ conn \in {"open", "closed", "broken"}
    BY DEF IInv, Close, callVars, srvVars, TypeOK
  <1>2. /\ closer' \in {"over", "checked", "transport"}
        /\ conn' \in {"open", "closed", "broken"}
        /\ conn # "open" => conn' # "open"
        /\ closer' = "transport" => conn' # "open"
        /\ closed' \in BOOLEAN /\ (closed => closed')
        /\ closed' => closed \/ conn' # "open"
    <2>1. closed \in BOOLEAN /\ (closed \/ closer = "transport" => conn # "open")
      BY <1>1 DEF TypeOK, Failing
    <2>2. CASE CloseStep("idle", IF closed THEN "over" ELSE "checked") /\ UNCHANGED <<conn, closed>>
      BY <1>1, <2>1, <2>2 DEF CloseStep
    <2>3. CASE /\ CloseStep("checked", "transport")
               /\ conn' = IF conn = "open" THEN "closed" ELSE conn
               /\ UNCHANGED closed
      BY <1>1, <2>1, <2>3 DEF CloseStep
    <2>4. CASE CloseStep("transport", "over") /\ closed' = TRUE /\ UNCHANGED conn
      BY <1>1, <2>1, <2>4 DEF CloseStep
    <2> QED BY <2>2, <2>3, <2>4 DEF Close
  <1>3. TypeOK'
    BY <1>1, <1>2 DEF TypeOK
  <1>4. Numbering'
    <2>1. Taken' = Taken
      BY <1>1 DEF Taken
    <2> QED BY <1>1, <2>1, SameNumbering
  <1>5. Normal' <=> Normal
    BY <1>1 DEF Normal
  <1>6. Requests' /\ Answers'
    BY <1>1, <1>5, KeepMessages DEF srvVars, Written
  <1>7. Waiting' /\ Reading'
    BY <1>1, <1>5 DEF Waiting, Outstanding, Reading, OfCall, InClnt
  <1>8. Failing'
    BY <1>1, <1>2, <1>5 DEF Failing
  <1> QED BY <1>3, <1>4, <1>6, <1>7, <1>8 DEF IInv

LEMMA BreakInv ==
    ASSUME IInv, Break
    PROVE  IInv'
  <1>1. /\ TypeOK /\ Numbering /\ Waiting /\ Reading /\ Failing /\ Answers
        /\ conn' = "broken" /\ toSrv' = <<>> /\ srvReader' = "over" /\ serving' = {}
        /\ UNCHANGED <<nextTag, pc, tag, writer, callmap, closed, result, reader, closer,
                       toClnt, executed>>
        /\ BufLen \in Nat \ {0}
    BY Types DEF IInv, Break, callVars
  <1>2. TypeOK'
    <2>1. toSrv' \in Seq(Msg) /\ Len(toSrv') <= BufLen
      BY <1>1
    <2> QED BY <1>1, <2>1 DEF TypeOK
  <1>3. Numbering'
    <2>1. Taken' = Taken
      BY <1>1 DEF Taken
    <2> QED BY <1>1, <2>1, SameNumbering
  <1>4. Normal' <=> Normal
    BY <1>1 DEF Normal
  <1>5. Requests'
    BY <1>1 DEF Requests
  <1>6. Answers'
    BY <1>1, <1>4 DEF Answers, OfCall, Finds, InClnt
  <1>7. Waiting' /\ Reading' /\ Failing'
    BY <1>1, <1>4 DEF Waiting, Outstanding, Reading, Failing, OfCall, InClnt
  <1> QED BY <1>2, <1>3, <1>5, <1>6, <1>7 DEF IInv

LEMMA NewSrvInv ==
    ASSUME IInv, NewDemuxSrv, toSrv # <<>>
    PROVE  IInv'
  <1>1. /\ TypeOK /\ Numbering /\ Waiting /\ Reading /\ Failing /\ Answers /\ Requests
        /\ srvReader = "name" /\ srvReader' = "read" /\ toSrv' = Tail(toSrv)
        /\ UNCHANGED <<nextTag, pc, tag, writer, callmap, closed, result, reader, closer,
                       conn, toClnt, serving, executed>>
        /\ toSrv \in Seq(Msg) /\ Len(toSrv) <= BufLen /\ BufLen \in Nat
    BY Types DEF IInv, NewDemuxSrv, callVars, TypeOK
  <1>2. /\ toSrv' \in Seq(Msg) /\ Len(toSrv) \in Nat \ {0}
        /\ Len(toSrv') = Len(toSrv) - 1
        /\ \A i \in DOMAIN toSrv' :
              i \in Nat \ {0} /\ i + 1 \in DOMAIN toSrv /\ toSrv'[i] = toSrv[i + 1]
    BY <1>1, TailFacts
  <1>3. TypeOK'
    BY <1>1, <1>2 DEF TypeOK
  <1>4. Numbering'
    <2>1. Taken' = Taken
      BY <1>1 DEF Taken
    <2> QED BY <1>1, <2>1, SameNumbering
  <1>5. Normal' <=> Normal
    BY <1>1 DEF Normal
  <1>6. Requests'
    <2>1. ASSUME NEW i \in DOMAIN toSrv'
          PROVE  /\ toSrv'[i].call # NoCall /\ OfCall(toSrv[i])' /\ Finds(toSrv[i])'
                 /\ executed[toSrv'[i].call] = 0
      <3>1. i + 1 # 1 /\ i + 1 \in DOMAIN toSrv /\ toSrv'[i] = toSrv[i + 1]
        BY <1>2
      <3>2. PICK x : /\ x = toSrv[i + 1] /\ x.call # NoCall /\ OfCall(x) /\ Finds(x)
                     /\ executed[x.call] = 0
        BY <1>1, <3>1 DEF Requests
      <3> QED BY <1>1, <1>5, <3>1, <3>2 DEF OfCall, Finds
    <2>2. ASSUME NEW i \in DOMAIN toSrv', NEW j \in DOMAIN toSrv',
                 toSrv'[i].call = toSrv'[j].call
          PROVE  i = j
      <3>1. i + 1 = j + 1
        BY <1>1, <1>2, <2>2 DEF Requests
      <3> QED BY <1>2, <3>1
    <2> QED BY <1>1, <2>1, <2>2 DEF Requests
  <1>7. Answers'
    BY <1>1, <1>5 DEF Answers, OfCall, Finds, InClnt
  <1>8. Waiting' /\ Reading' /\ Failing'
    BY <1>1, <1>5 DEF Waiting, Outstanding, Reading, Failing, OfCall, InClnt
  <1> QED BY <1>3, <1>4, <1>6, <1>7, <1>8 DEF IInv

LEMMA NoNameInv ==
    ASSUME IInv, NewDemuxSrv, toSrv = <<>>
    PROVE  IInv'
  <1>1. /\ TypeOK /\ Numbering /\ Waiting /\ Reading /\ Failing /\ Answers /\ Requests
        /\ srvReader' = "fatal" /\ conn' = "broken"
        /\ UNCHANGED <<nextTag, pc, tag, writer, callmap, closed, result, reader, closer,
                       toSrv, toClnt, serving, executed>>
    BY DEF IInv, NewDemuxSrv, callVars
  <1>2. TypeOK'
    BY <1>1 DEF TypeOK
  <1>3. Numbering'
    <2>1. Taken' = Taken
      BY <1>1 DEF Taken
    <2> QED BY <1>1, <2>1, SameNumbering
  <1>4. Normal' <=> Normal
    BY <1>1 DEF Normal
  <1>5. Requests'
    BY <1>1 DEF Requests
  <1>6. Answers'
    BY <1>1, <1>4 DEF Answers, OfCall, Finds, InClnt
  <1>7. Waiting' /\ Reading' /\ Failing'
    BY <1>1, <1>4 DEF Waiting, Outstanding, Reading, Failing, OfCall, InClnt
  <1> QED BY <1>2, <1>3, <1>5, <1>6, <1>7 DEF IInv

LEMMA SrvReadInv ==
    ASSUME IInv, SrvRead
    PROVE  IInv'
  <1>1. /\ TypeOK /\ Numbering /\ Waiting /\ Reading /\ Failing /\ Answers /\ Requests
        /\ srvReader = "read"
        /\ UNCHANGED <<nextTag, pc, tag, writer, callmap, closed, result, reader, closer,
                       conn, toClnt>>
        /\ toSrv \in Seq(Msg) /\ Len(toSrv) <= BufLen /\ BufLen \in Nat
        /\ serving \subseteq Msg /\ executed \in [Calls -> {0, 1}]
    BY Types DEF IInv, SrvRead, callVars, TypeOK, Answers
  <1>2. Numbering'
    <2>1. Taken' = Taken
      BY <1>1 DEF Taken
    <2> QED BY <1>1, <2>1, SameNumbering
  <1>3. Normal' <=> Normal
    BY <1>1 DEF Normal
  <1>4. Waiting' /\ Failing'
    BY <1>1, <1>3 DEF Waiting, Outstanding, Failing
  <1>5. CASE toSrv = <<>> /\ srvReader' = "over" /\ UNCHANGED <<toSrv, serving, executed>>
    <2>1. TypeOK'
      BY <1>1, <1>5 DEF TypeOK
    <2>2. Requests'
      BY <1>1, <1>5 DEF Requests
    <2>3. Answers' /\ Reading'
      BY <1>1, <1>3, <1>5 DEF Answers, OfCall, Finds, InClnt, Reading, Outstanding
    <2> QED BY <1>2, <1>4, <2>1, <2>2, <2>3 DEF IInv
  <1>6. CASE /\ toSrv # <<>>
             /\ serving' = serving \cup {Head(toSrv)}
             /\ executed' = [executed EXCEPT ![Head(toSrv).call] = @ + 1]
             /\ toSrv' = Tail(toSrv) /\ UNCHANGED srvReader
    <2>1. /\ toSrv' \in Seq(Msg) /\ Len(toSrv) \in Nat \ {0}
          /\ Len(toSrv') = Len(toSrv) - 1
          /\ Head(toSrv) = toSrv[1] /\ toSrv[1] \in Msg /\ 1 \in DOMAIN toSrv
          /\ \A i \in DOMAIN toSrv' :
                i \in Nat \ {0} /\ i + 1 \in DOMAIN toSrv /\ toSrv'[i] = toSrv[i + 1]
      BY <1>1, <1>6, TailFacts
    <2>2. PICK m \in Msg : /\ m = toSrv[1] /\ OfCall(m) /\ Finds(m) /\ executed[m.call] = 0
                           /\ m.call \in Calls /\ m.call # NoCall
      BY <1>1, <2>1, Types DEF Requests, OfCall
    <2>3. /\ serving' = serving \cup {m} /\ executed' \in [Calls -> {0, 1}]
          /\ executed'[m.call] = 1
          /\ \A id \in Calls : id # m.call => executed'[id] = executed[id]
      <3>1. PICK id \in Calls : id = m.call /\ id = Head(toSrv).call /\ executed[id] = 0
        BY <2>1, <2>2
      <3>2. executed' = [executed EXCEPT ![id] = executed[id] + 1]
        BY <1>6, <3>1
      <3>3. executed' = [executed EXCEPT ![id] = 1]
        BY <3>1, <3>2
      <3> QED BY <1>1, <1>6, <2>1, <2>2, <3>1, <3>3
    <2>4. TypeOK'
      BY <1>1, <1>6, <2>1, <2>2, <2>3 DEF TypeOK
    <2>5. Requests'
      <3>1. ASSUME NEW i \in DOMAIN toSrv'
            PROVE  /\ toSrv'[i].call # NoCall /\ OfCall(toSrv[i])' /\ Finds(toSrv[i])'
                   /\ executed'[toSrv'[i].call] = 0
        <4>1. i + 1 # 1 /\ i + 1 \in DOMAIN toSrv /\ toSrv'[i] = toSrv[i + 1]
          BY <2>1
        <4>2. PICK x : /\ x = toSrv[i + 1] /\ x.call # NoCall /\ OfCall(x) /\ Finds(x)
                       /\ executed[x.call] = 0 /\ x.call # m.call
          BY <1>1, <2>1, <2>2, <4>1 DEF Requests
        <4> QED BY <1>1, <1>3, <2>3, <4>1, <4>2 DEF OfCall, Finds
      <3>2. ASSUME NEW i \in DOMAIN toSrv', NEW j \in DOMAIN toSrv',
                   toSrv'[i].call = toSrv'[j].call
            PROVE  i = j
        <4>1. i + 1 = j + 1
          BY <1>1, <2>1, <3>2 DEF Requests
        <4> QED BY <2>1, <4>1
      <3> QED BY <1>1, <1>6, <3>1, <3>2 DEF Requests
    <2>6. m.call \notin InClnt
      BY <1>1, <2>2 DEF Answers, InClnt
    <2>7. Answers'
      <3>1. ASSUME NEW x \in serving'
            PROVE  /\ OfCall(x)' /\ Finds(x)' /\ executed'[x.call] = 1
                   /\ x.call \notin InClnt'
        BY <1>1, <1>3, <2>2, <2>3, <2>6 DEF Answers, OfCall, Finds, InClnt
      <3>2. \A id \in Calls : executed'[id] # 0 => pc'[id] \in {"waiting", "returned"}
        BY <1>1, <2>2, <2>3 DEF Answers, OfCall
      <3> QED BY <1>1, <1>3, <2>3, <3>1, <3>2 DEF Answers, OfCall, Finds
    <2>8. Reading'
      BY <1>1, <1>3, <2>2, <2>3 DEF Reading, OfCall, InClnt, Outstanding
    <2> QED BY <1>2, <1>4, <2>4, <2>5, <2>7, <2>8 DEF IInv
  <1> QED BY <1>5, <1>6 DEF SrvRead

LEMMA SrvWriteInv ==
    ASSUME IInv, NEW m \in serving, SrvWrite(m)
    PROVE  IInv'
  <1>1. /\ TypeOK /\ Numbering /\ Waiting /\ Reading /\ Failing /\ Answers /\ Requests
        /\ serving' = serving \ {m}
        /\ UNCHANGED <<nextTag, pc, tag, writer, callmap, closed, result, reader, closer,
                       conn, toSrv, srvReader, executed>>
        /\ toClnt \in Seq(Msg) /\ Len(toClnt) <= BufLen /\ BufLen \in Nat
        /\ serving \subseteq Msg /\ m \in Msg
    BY Types DEF IInv, SrvWrite, callVars, TypeOK
  <1>2. \/ UNCHANGED toClnt
        \/ Len(toClnt) < BufLen /\ toClnt' = Append(toClnt, m)
    BY DEF SrvWrite
  <1>3. /\ Len(toClnt) \in Nat /\ DOMAIN toClnt = 1..Len(toClnt)
        /\ toClnt' \in Seq(Msg) /\ Len(toClnt') <= BufLen
        /\ \A i \in DOMAIN toClnt' :
              \/ i \in DOMAIN toClnt /\ toClnt'[i] = toClnt[i]
              \/ i = Len(toClnt) + 1 /\ toClnt'[i] = m
    <2>1. CASE UNCHANGED toClnt
      BY <1>1, <2>1
    <2>2. CASE Len(toClnt) < BufLen /\ toClnt' = Append(toClnt, m)
      BY <1>1, <2>2
    <2> QED BY <1>2, <2>1, <2>2
  <1>4. /\ OfCall(m) /\ Finds(m) /\ executed[m.call] = 1 /\ m.call \notin InClnt
    BY <1>1 DEF Answers
  <1>5. \A x \in serving' : x.call # m.call
    BY <1>1, <1>4 DEF Answers, OfCall, Msg
  <1>6. TypeOK'
    BY <1>1, <1>3 DEF TypeOK
  <1>7. Numbering'
    <2>1. Taken' = Taken
      BY <1>1 DEF Taken
    <2> QED BY <1>1, <2>1, SameNumbering
  <1>8. Normal' <=> Normal
    BY <1>1 DEF Normal
  <1>9. Requests'
    BY <1>1, <1>8, SameRequests
  <1>10. Waiting' /\ Failing'
    BY <1>1, <1>8 DEF Waiting, Outstanding, Failing
  <1>11. InClnt' \subseteq InClnt \cup {m.call}
    BY <1>3 DEF InClnt
  <1>12. Answers'
    <2>1. \A x \in serving' : /\ OfCall(x)' /\ Finds(x)' /\ executed[x.call] = 1
                              /\ x.call \notin InClnt'
      BY <1>1, <1>5, <1>8, <1>11 DEF Answers, OfCall, Finds
    <2>2. ASSUME NEW i \in DOMAIN toClnt'
          PROVE  OfCall(toClnt[i])' /\ Finds(toClnt[i])' /\ executed[toClnt'[i].call] = 1
      <3>1. PICK x : x = toClnt'[i] /\ OfCall(x) /\ Finds(x) /\ executed[x.call] = 1
        BY <1>1, <1>3, <1>4 DEF Answers
      <3> QED BY <1>1, <1>8, <3>1 DEF OfCall, Finds
    <2>3. ASSUME NEW i \in DOMAIN toClnt', NEW j \in DOMAIN toClnt',
                 toClnt'[i].call = toClnt'[j].call
          PROVE  i = j
      <3>1. \A n \in DOMAIN toClnt : toClnt[n].call # m.call
        BY <1>4 DEF InClnt
      <3> QED BY <1>1, <1>3, <2>3, <3>1 DEF Answers
    <2> QED BY <1>1, <2>1, <2>2, <2>3 DEF Answers
  <1>13. Reading'
    BY <1>1, <1>4, <1>8, <1>11 DEF Reading, OfCall, Outstanding
  <1> QED BY <1>6, <1>7, <1>9, <1>10, <1>12, <1>13 DEF IInv

\* The connection begins.
LEMMA NewClntInv ==
    ASSUME IInv, Start, NewDemuxClnt \/ Quit
    PROVE  IInv'
  <1> DEFINE name == [tag |-> 0, call |-> NoCall]
  <1>1. /\ TypeOK /\ Numbering /\ Waiting /\ Reading /\ Failing /\ Answers /\ Requests
        /\ reader.at = "dialed" /\ ~Made
        /\ UNCHANGED <<pc, tag, writer, callmap, closed, result, closer, toClnt, srvReader,
                       serving, executed>>
        /\ toSrv' = toSrv \/ (toSrv' = <<name>> /\ srvReader = "name")
        /\ nextTag' = nextTag \/ nextTag' = 1 % TagSpace
        /\ conn' = conn \/ conn' = "closed"
        /\ reader' = [reader EXCEPT !.at = "read"] \/ reader' = [reader EXCEPT !.at = "exited"]
        /\ TagSpace \in Nat \ {0} /\ BufLen \in Nat \ {0} /\ reader \in Reader
    BY Types DEF IInv, Start, Made, NewDemuxClnt, Quit, callVars, srvVars
  <1>2. 0 \in Tags /\ 1 % TagSpace \in Tags
    BY <1>1 DEF Tags
  <1>3. name \in Msg
    BY <1>2 DEF Msg
  <1>4. /\ reader' \in Reader /\ reader'.at \in {"read", "exited"}
        /\ reader'.left = reader.left /\ reader'.msg = reader.msg /\ reader'.to = reader.to
    BY <1>1 DEF Reader
  <1>5. /\ toSrv' \in Seq(Msg) /\ Len(toSrv') <= BufLen
        /\ toSrv' = toSrv \/ (toSrv' = <<name>> /\ DOMAIN toSrv' = {1} /\ toSrv'[1].call = NoCall)
    <2>1. CASE toSrv' = toSrv
      BY <1>1, <2>1 DEF TypeOK
    <2>2. CASE toSrv' = <<name>>
      <3>1. /\ <<name>> \in Seq(Msg) /\ Len(<<name>>) = 1 /\ DOMAIN <<name>> = {1}
            /\ <<name>>[1] = name /\ name.call = NoCall
        BY <1>3
      <3>2. 1 <= BufLen
        BY <1>1
      <3> HIDE DEF name
      <3> QED BY <2>2, <3>1, <3>2
    <2> QED BY <1>1, <2>1, <2>2
  <1> HIDE DEF name
  <1>6. TypeOK'
    BY <1>1, <1>2, <1>4, <1>5 DEF TypeOK
  <1>7. Numbering'
    <2>1. Taken' = Taken
      BY <1>1 DEF Taken
    <2> QED BY <1>1, <2>1 DEF Numbering
  <1>8. Normal /\ Normal'
    BY <1>1, <1>4 DEF Normal
  <1>9. Requests'
    <2>1. CASE toSrv' = toSrv
      BY <1>1, <1>8, <2>1, SameRequests
    <2>2. CASE toSrv' = <<name>>
      BY <1>1, <1>5, <2>2 DEF Requests, Start
    <2> QED BY <1>1, <2>1, <2>2
  <1>10. Answers'
    BY <1>1, <1>8 DEF Answers, OfCall, Finds, InClnt
  <1>11. Waiting' /\ Reading' /\ Failing'
    BY <1>1, <1>4, <1>8 DEF Waiting, Outstanding, Reading, Failing
  <1> QED BY <1>6, <1>7, <1>9, <1>10, <1>11 DEF IInv

LEMMA NextInv ==
    ASSUME IInv, Start, [Next]_vars
    PROVE  IInv'
  <1>1. CASE UNCHANGED vars
    <2>1. UNCHANGED <<nextTag, pc, tag, writer, callmap, closed, result, reader, closer,
                      conn, toSrv, toClnt, srvReader, serving, executed>>
      BY <1>1 DEF vars, callVars, srvVars
    <2>2. TypeOK /\ Numbering /\ Requests /\ Answers /\ Waiting /\ Reading /\ Failing
      BY DEF IInv
    <2>3. TypeOK'
      BY <2>1, <2>2 DEF TypeOK
    <2>4. Numbering'
      BY <2>1, <2>2, SameNumbering DEF Taken
    <2>5. Normal' <=> Normal
      BY <2>1 DEF Normal
    <2>6. Requests' /\ Answers'
      BY <2>1, <2>5, KeepMessages DEF srvVars, Written
    <2>7. Waiting' /\ Reading' /\ Failing'
      BY <2>1, <2>2, <2>5 DEF Waiting, Outstanding, Reading, Failing, OfCall, InClnt
    <2> QED BY <2>3, <2>4, <2>6, <2>7 DEF IInv
  <1> QED
    BY <1>1, TakeTagInv, PutInv, LockInv, WriteInv, ReadCallInv, ReadErrorInv, FailInv,
       RemoveInv, DeliverInv, CloseInv, BreakInv, NewSrvInv, NoNameInv, SrvReadInv, SrvWriteInv,
       NewClntInv
    DEF Next, SendReceive, ReaderStep, Over

LEMMA InitInv == Init => IInv /\ Start /\ Outcomes
  <1> SUFFICES ASSUME Init PROVE IInv /\ Start /\ Outcomes
    OBVIOUS
  <1>1. /\ TagSpace \in Nat \ {0} /\ BufLen \in Nat \ {0} /\ NoCall \notin Calls
    BY DemuxAssumption
  <1>2. 0 \in Tags
    BY <1>1 DEF Tags
  <1>3. [tag |-> 0, call |-> NoCall] \in Msg
    BY <1>2 DEF Msg
  <1>4. /\ toSrv = <<>> /\ toSrv \in Seq(Msg) /\ Len(toSrv) = 0 /\ DOMAIN toSrv = {}
        /\ toClnt = <<>> /\ toClnt \in Seq(Msg) /\ Len(toClnt) = 0 /\ DOMAIN toClnt = {}
    BY DEF Init
  <1>5. /\ reader \in Reader /\ reader.at = "dialed" /\ ~Made
    BY <1>3 DEF Init, Reader, Made
  <1>6. TypeOK
    <2>1. /\ nextTag \in Tags /\ callmap \in [Tags -> Calls \cup {NoCall}]
          /\ closed \in BOOLEAN /\ tag \in [Calls -> Tags]
          /\ result \in [Calls -> Calls \cup {"none", "failed"}]
      BY <1>2 DEF Init
    <2>2. /\ pc \in [Calls -> {"new", "tagged", "put", "writing", "waiting", "returned"}]
          /\ closer \in {"idle", "checked", "transport", "over"}
          /\ conn \in {"open", "closed", "broken"}
          /\ srvReader \in {"name", "read", "over", "fatal"}
          /\ serving \subseteq Msg /\ executed \in [Calls -> Nat]
          /\ writer \in Calls \cup {NoCall}
      BY DEF Init
    <2>3. Len(toSrv) <= BufLen /\ Len(toClnt) <= BufLen
      BY <1>1, <1>4
    <2> QED BY <1>4, <1>5, <2>1, <2>2, <2>3 DEF TypeOK
  <1>7. Taken = {}
    BY DEF Init, Taken
  <1>8. Numbering
    <2>1. [id \in Calls |-> 0] \in [Calls -> Nat]
      OBVIOUS
    <2> QED BY <1>7, <2>1 DEF Numbering
  <1>9. Requests /\ Answers
    BY <1>4 DEF Init, Requests, Answers, InClnt
  <1>10. Waiting /\ Reading /\ Failing
    BY <1>5 DEF Init, Waiting, Reading, Failing, Normal
  <1>11. Start
    BY <1>4, <1>5, <1>7 DEF Init, Start
  <1>12. Outcomes
    BY DEF Init, Outcomes
  <1> QED BY <1>6, <1>8, <1>9, <1>10, <1>11, <1>12 DEF IInv

LEMMA StartNext ==
    ASSUME IInv, Start, [Next]_vars
    PROVE  Start'
  <1>1. TypeOK /\ Requests /\ Answers /\ Waiting /\ TagSpace \in Nat \ {0} /\ reader \in Reader
    BY Types DEF IInv
  <1>2. ASSUME Made, Made', UNCHANGED nextTag, Taken' = Taken, srvReader' # "fatal",
               srvReader' = "name" => srvReader = "name" /\ (toSrv' = toSrv \/ toSrv' # <<>>)
        PROVE  Start'
    BY <1>2 DEF Start, Made
  <1>3. CASE NewDemuxClnt
    <2>1. /\ reader.at = "dialed" /\ nextTag' = 1 % TagSpace /\ Taken' = Taken /\ Taken = {}
          /\ UNCHANGED <<conn, toClnt, srvReader, serving>>
          /\ srvReader # "read" /\ srvReader # "fatal" /\ (conn # "broken" => srvReader = "name")
          /\ toClnt = <<>> /\ serving = {} /\ toSrv = <<>>
      BY <1>3 DEF NewDemuxClnt, Start, Made, Taken, srvVars
    <2>2. CASE conn = "open"
      <3>1. toSrv' # <<>> /\ reader' = [reader EXCEPT !.at = "read"]
        BY <1>3, <2>2 DEF NewDemuxClnt
      <3>2. reader'.at = "read" /\ Made'
        BY <1>1, <3>1 DEF Reader, Made
      <3>3. Cardinality(Taken') = 0
        BY <2>1, FS_EmptySet
      <3>4. nextTag' = Nth(0)
        <4>1. CASE TagSpace = 1
          BY <2>1, <4>1 DEF Nth
        <4>2. CASE TagSpace > 1
          <5>1. 1 % TagSpace = 1
            BY <1>1, <4>2
          <5> QED BY <1>1, <2>1, <4>2, <5>1 DEF Nth
        <4> QED BY <1>1, <4>1, <4>2
      <3> QED BY <2>1, <3>1, <3>2, <3>3, <3>4 DEF Start
    <2>3. CASE conn # "open"
      <3>1. reader' = [reader EXCEPT !.at = "exited"] /\ UNCHANGED toSrv
        BY <1>3, <2>3 DEF NewDemuxClnt
      <3>2. reader'.at = "exited" /\ ~Made'
        BY <1>1, <3>1 DEF Reader, Made
      <3> QED BY <2>1, <3>1, <3>2 DEF Start
    <2> QED BY <2>2, <2>3
  <1>4. CASE Quit
    <2>1. /\ reader.at = "dialed" /\ reader' = [reader EXCEPT !.at = "exited"] /\ ~Made
          /\ UNCHANGED <<nextTag, pc, toSrv, toClnt, srvReader, serving>> /\ conn = "open"
      BY <1>4 DEF Quit, Made, callVars, srvVars
    <2>2. reader'.at = "exited" /\ ~Made'
      BY <1>1, <2>1 DEF Reader, Made
    <2>3. Taken' = Taken
      BY <2>1 DEF Taken
    <2> QED BY <2>1, <2>2, <2>3 DEF Start
  <1>5. ASSUME NEW id \in Calls, takeTag(id) PROVE Start'
    <2>1. Made /\ Made' /\ UNCHANGED <<reader, toSrv, srvReader>>
      BY <1>5 DEF takeTag, Made, srvVars
    <2>2. Cardinality(Taken') < TagSpace => nextTag' = Nth(Cardinality(Taken'))
      BY <1>5, NumberingStep DEF IInv
    <2>3. reader'.at # "dialed"
      BY <2>1 DEF Made
    <2> QED BY <2>1, <2>2, <2>3 DEF Start
  <1>6. CASE Break
    <2>1. /\ UNCHANGED <<reader, pc, nextTag, toClnt>> /\ toSrv' = <<>> /\ serving' = {}
          /\ srvReader' = "over" /\ conn' = "broken"
      BY <1>6 DEF Break, callVars
    <2>2. Taken' = Taken /\ (Made' <=> Made)
      BY <2>1 DEF Taken, Made
    <2> QED BY <2>1, <2>2 DEF Start
  <1>7. CASE NewDemuxSrv
    <2>1. /\ UNCHANGED <<reader, pc, nextTag, toClnt, serving>> /\ srvReader = "name"
      BY <1>7 DEF NewDemuxSrv, callVars
    <2>2. Taken' = Taken /\ (Made' <=> Made)
      BY <2>1 DEF Taken, Made
    <2>3. CASE toSrv # <<>>
      <3>1. Made /\ srvReader' = "read"
        BY <1>7, <2>3 DEF NewDemuxSrv, Start
      <3> QED BY <1>2, <2>1, <2>2, <3>1
    <2>4. CASE toSrv = <<>>
      <3>1. /\ ~Made /\ conn = "closed" /\ conn' = "broken" /\ srvReader' = "fatal"
            /\ UNCHANGED toSrv /\ reader.at # "dialed"
        BY <1>7, <2>1, <2>4 DEF NewDemuxSrv, Start
      <3> QED BY <2>1, <2>2, <3>1 DEF Start
    <2> QED BY <2>3, <2>4
  <1>8. ASSUME NEW id \in Calls, put(id) \/ lockToWrite(id) \/ WriteCall(id) PROVE Start'
    <2>1. /\ UNCHANGED <<reader, nextTag, srvReader>> /\ pc[id] # "new"
          /\ toSrv' = toSrv \/ toSrv' = Append(toSrv, [tag |-> tag[id], call |-> id])
          /\ pc' \in {[pc EXCEPT ![id] = s] : s \in {"put", "writing", "waiting", "returned"}}
      BY <1>8 DEF put, lockToWrite, WriteCall, At, srvVars
    <2>2. Taken' = Taken /\ id \in Taken
      BY <1>1, <2>1 DEF Taken, TypeOK
    <2>3. Made /\ Made'
      BY <2>1, <2>2 DEF Start, Made
    <2>4. toSrv' = toSrv \/ toSrv' # <<>>
      <3>1. toSrv \in Seq(Msg) /\ [tag |-> tag[id], call |-> id] \in Msg
        BY <1>1 DEF TypeOK, Msg
      <3> QED BY <2>1, <3>1
    <2> QED BY <1>2, <2>1, <2>2, <2>3, <2>4 DEF Start
  <1>9. CASE ReaderStep
    <2>1. /\ Made /\ reader'.at \in {"read", "reply", "send", "closed", "failing", "over", "fatal"}
          /\ UNCHANGED <<nextTag, toSrv, srvReader>>
      BY <1>1, <1>9
      DEF ReaderStep, ReadCall, ReadError, outstanding, FailNext, remove, deliver, Made, Reader,
          callVars, srvVars
    <2>2. Taken' = Taken
      <3>1. CASE deliver
        <4>1. reader.to \in Calls /\ pc[reader.to] = "waiting"
              /\ pc' = [pc EXCEPT ![reader.to] = "returned"]
          BY <3>1 DEF deliver, At, IInv, Reading
        <4> QED BY <1>1, <4>1 DEF Taken, TypeOK
      <3>2. CASE UNCHANGED pc
        BY <3>2 DEF Taken
      <3> QED BY <1>9, <3>1, <3>2
          DEF ReaderStep, ReadCall, ReadError, outstanding, FailNext, remove, callVars
    <2>3. Made'
      BY <2>1 DEF Made
    <2> QED BY <1>2, <2>1, <2>2, <2>3 DEF Start
  <1>10. CASE Close \/ SrvRead \/ \E m \in serving : SrvWrite(m)
    <2>1. /\ UNCHANGED <<reader, pc, nextTag>> /\ Made
          /\ (UNCHANGED <<toSrv, srvReader>> \/ (srvReader = "read" /\ srvReader' \in {"read", "over"}))
      BY <1>10 DEF Close, SrvRead, SrvWrite, callVars, srvVars, Start
    <2>2. Taken' = Taken /\ Made'
      BY <2>1 DEF Taken, Made
    <2> QED BY <1>2, <2>1, <2>2 DEF Start
  <1>11. CASE Over \/ UNCHANGED vars
    <2>1. UNCHANGED <<reader, pc, nextTag, toSrv, toClnt, srvReader, serving, conn>>
      BY <1>11 DEF Over, vars, callVars, srvVars
    <2>2. Taken' = Taken /\ (Made' <=> Made)
      BY <2>1 DEF Taken, Made
    <2> QED BY <2>1, <2>2 DEF Start
  <1> QED BY <1>3, <1>4, <1>5, <1>6, <1>7, <1>8, <1>9, <1>10, <1>11 DEF Next, SendReceive

\* A request is in one place, its tag its own, and the reader's call is there.
THEOREM Invariance == Spec => [](IInv /\ Start)
  <1>1. Init => IInv /\ Start
    BY InitInv
  <1>2. IInv /\ Start /\ [Next]_vars => IInv' /\ Start'
    BY NextInv, StartNext
  <1> QED BY <1>1, <1>2, PTL DEF Spec

\* Every variable of the two ends and the connection has its type.
THEOREM TypeCorrect == Spec => []TypeOK
  <1>1. IInv => TypeOK
    BY DEF IInv
  <1> QED BY <1>1, Invariance, PTL

\* The client never exits over a reply no call waits for (reply, dmxclnt.go), and the
\* server only over a client that ended before it had sent its name (NewDemuxSrv).
THEOREM NeverFatal == Spec => []NoFatal
  <1>1. IInv /\ Start => NoFatal
    BY DEF IInv, Reading, Start, Made, NoFatal
  <1> QED BY <1>1, Invariance, PTL

-----------------------------------------------------------------------------
\* The promise.

LEMMA PromiseInit == Init => Promise!Init
  BY DEF Init, Promise!Init, Stage

\* Steps a caller of RPC does not see.
LEMMA UnseenByCaller ==
    ASSUME \A x \in Calls : Stage(x)' = Stage(x), UNCHANGED executed,
           conn' = conn \/ conn' # "open"
    PROVE  [Promise!Next]_(Promise!vars)
  <1>1. [x \in Calls |-> Stage(x)]' = [x \in Calls |-> Stage(x)]
    OBVIOUS
  <1>2. CASE conn' = conn
    BY <1>1, <1>2 DEF Promise!vars
  <1>3. CASE conn' # "open"
    BY <1>1, <1>3 DEF Promise!Next, Promise!GoDown
  <1> QED BY <1>2, <1>3

\* Steps in which one call gets further.
LEMMA SeenByCaller ==
    ASSUME NEW id \in Calls, UNCHANGED <<conn, executed>>,
           \A x \in Calls \ {id} : Stage(x)' = Stage(x),
           \/ Stage(id) = "new" /\ Stage(id)' = "called"
           \/ Stage(id) = "called" /\ Stage(id)' = "answered" /\ executed[id] = 1
           \/ Stage(id) = "called" /\ Stage(id)' = "failed" /\ conn # "open"
    PROVE  [Promise!Next]_(Promise!vars)
  <1> DEFINE st == [x \in Calls |-> Stage(x)]
  <1>1. st' = [st EXCEPT ![id] = Stage(id)'] /\ st[id] = Stage(id)
    OBVIOUS
  <1>2. Promise!Begin(id) \/ Promise!Answer(id) \/ Promise!FailCall(id)
    BY <1>1 DEF Promise!Begin, Promise!Answer, Promise!FailCall, Promise!Move
  <1> QED BY <1>2 DEF Promise!Next

\* A request is read, and executed for the first time.
LEMMA ExecutedOnce ==
    ASSUME IInv, SrvRead, executed' # executed
    PROVE  \E id \in Calls :
              /\ executed[id] = 0 /\ executed' = [executed EXCEPT ![id] = 1]
              /\ pc[id] \in {"waiting", "returned"}
  <1>1. /\ TypeOK /\ Requests /\ Answers /\ srvReader = "read" /\ toSrv # <<>>
        /\ executed' = [executed EXCEPT ![Head(toSrv).call] = @ + 1]
    BY DEF IInv, SrvRead
  <1>2. Head(toSrv) = toSrv[1] /\ 1 \in DOMAIN toSrv
    BY <1>1, TailFacts DEF TypeOK
  <1>3. PICK id \in Calls : /\ id = Head(toSrv).call /\ executed[id] = 0
                            /\ pc[id] \in {"waiting", "returned"}
    BY <1>1, <1>2 DEF Requests, OfCall
  <1>4. executed' = [executed EXCEPT ![id] = 1]
    BY <1>1, <1>3 DEF Answers
  <1> QED BY <1>3, <1>4

LEMMA OutcomesNext ==
    ASSUME IInv, Outcomes, [Next]_vars
    PROVE  Outcomes'
  <1>1. /\ TypeOK /\ Answers /\ Reading /\ executed \in [Calls -> {0, 1}]
        /\ pc \in [Calls -> {"new", "tagged", "put", "writing", "waiting", "returned"}]
        /\ result \in [Calls -> Calls \cup {"none", "failed"}]
    BY DEF IInv, TypeOK, Answers
  <1>2. CASE UNCHANGED <<pc, result, executed>>
    BY <1>2 DEF Outcomes
  <1>3. ASSUME NEW id \in Calls, UNCHANGED executed,
               \/ pc' = [pc EXCEPT ![id] = "returned"] /\ result' = [result EXCEPT ![id] = "failed"]
               \/ /\ pc' = [pc EXCEPT ![id] = "returned"] /\ result' = [result EXCEPT ![id] = id]
                  /\ executed[id] = 1
               \/ /\ UNCHANGED result
                  /\ pc' \in {[pc EXCEPT ![id] = s] : s \in {"tagged", "put", "writing", "waiting"}}
        PROVE  Outcomes'
    BY <1>1, <1>3 DEF Outcomes
  <1>4. ASSUME NEW id \in Calls, SendReceive(id) PROVE Outcomes'
    BY <1>3, <1>4 DEF SendReceive, takeTag, put, lockToWrite, WriteCall, At, srvVars
  <1>5. CASE deliver
    <2>1. PICK id \in Calls : /\ id = reader.to
                              /\ Normal => id = reader.msg.call /\ executed[id] = 1
      BY <1>1, <1>5 DEF deliver, Reading
    <2>2. pc' = [pc EXCEPT ![id] = "returned"] /\ UNCHANGED executed /\ reader.at = "send"
      BY <1>5, <2>1 DEF deliver, At, srvVars
    <2>3. \/ result' = [result EXCEPT ![id] = "failed"]
          \/ result' = [result EXCEPT ![id] = id] /\ executed[id] = 1
      BY <1>5, <2>1, <2>2 DEF deliver, Normal
    <2> QED BY <1>3, <2>2, <2>3
  <1>6. CASE SrvRead
    <2>1. UNCHANGED <<pc, result>>
      BY <1>6 DEF SrvRead, callVars
    <2>2. CASE executed' # executed
      BY <1>1, <1>6, <2>1, <2>2, ExecutedOnce DEF Outcomes
    <2> QED BY <1>2, <2>1, <2>2
  <1>7. CASE \/ ReadCall \/ ReadError \/ outstanding \/ FailNext \/ remove \/ NewDemuxSrv
             \/ Close \/ Break \/ NewDemuxClnt \/ Quit \/ \E m \in serving : SrvWrite(m)
    BY <1>2, <1>7
    DEF ReadCall, ReadError, outstanding, FailNext, remove, NewDemuxSrv, SrvWrite, Close, Break,
        NewDemuxClnt, Quit, callVars, srvVars
  <1>8. CASE Over \/ UNCHANGED vars
    BY <1>2, <1>8 DEF Over, vars, callVars, srvVars
  <1> QED BY <1>4, <1>5, <1>6, <1>7, <1>8 DEF Next, ReaderStep

LEMMA PromiseNext ==
    ASSUME IInv, Outcomes, [Next]_vars
    PROVE  [Promise!Next]_(Promise!vars)
  <1>1. /\ TypeOK /\ Answers /\ Requests /\ Waiting /\ Reading /\ Failing
        /\ pc \in [Calls -> {"new", "tagged", "put", "writing", "waiting", "returned"}]
        /\ result \in [Calls -> Calls \cup {"none", "failed"}]
        /\ Calls \cap {NoCall, "none", "failed"} = {}
    BY Types DEF IInv, TypeOK
  <1>2. CASE UNCHANGED <<pc, result, executed>> /\ (conn' = conn \/ conn' # "open")
    BY <1>2, UnseenByCaller DEF Stage
  <1>3. ASSUME NEW id \in Calls, takeTag(id) PROVE [Promise!Next]_(Promise!vars)
    <2>1. /\ pc[id] = "new" /\ pc' = [pc EXCEPT ![id] = "tagged"]
          /\ UNCHANGED <<result, executed, conn>>
      BY <1>1, <1>3 DEF takeTag, At, srvVars
    <2>2. \A x \in Calls \ {id} : Stage(x)' = Stage(x)
      BY <1>1, <2>1 DEF Stage
    <2>3. Stage(id) = "new" /\ Stage(id)' = "called"
      BY <1>1, <2>1 DEF Stage
    <2> QED BY <2>1, <2>2, <2>3, SeenByCaller
  <1>4. ASSUME NEW id \in Calls, put(id) PROVE [Promise!Next]_(Promise!vars)
    <2>1. pc[id] = "tagged" /\ UNCHANGED <<executed, conn>>
      BY <1>1, <1>4 DEF put, srvVars
    <2>2. CASE closed
      <3>1. /\ pc' = [pc EXCEPT ![id] = "returned"]
            /\ result' = [result EXCEPT ![id] = "failed"] /\ conn # "open"
        BY <1>1, <1>4, <2>2 DEF put, Failing
      <3>2. \A x \in Calls \ {id} : Stage(x)' = Stage(x)
        BY <1>1, <2>1, <3>1 DEF Stage
      <3>3. Stage(id) = "called" /\ Stage(id)' = "failed"
        BY <1>1, <2>1, <3>1 DEF Stage
      <3> QED BY <2>1, <3>1, <3>2, <3>3, SeenByCaller
    <2>3. CASE ~closed
      <3>1. pc' = [pc EXCEPT ![id] = "put"] /\ UNCHANGED result
        BY <1>4, <2>3 DEF put
      <3>2. \A x \in Calls : Stage(x)' = Stage(x)
        BY <1>1, <2>1, <3>1 DEF Stage
      <3> QED BY <2>1, <3>2, UnseenByCaller
    <2> QED BY <2>2, <2>3
  <1>5. ASSUME NEW id \in Calls, lockToWrite(id) \/ WriteCall(id)
        PROVE  [Promise!Next]_(Promise!vars)
    <2>1. PICK s \in {"writing", "waiting"} :
            /\ pc[id] \in {"put", "writing"} /\ pc' = [pc EXCEPT ![id] = s]
            /\ UNCHANGED <<result, executed, conn>>
      BY <1>5 DEF lockToWrite, WriteCall, At, srvVars
    <2>2. \A x \in Calls : Stage(x)' = Stage(x)
      BY <1>1, <2>1 DEF Stage
    <2> QED BY <2>1, <2>2, UnseenByCaller
  <1>6. CASE deliver
    <2>1. PICK id \in Calls : /\ id = reader.to
                              /\ Normal => id = reader.msg.call /\ executed[id] = 1
      BY <1>1, <1>6 DEF deliver, Reading
    <2>2. /\ pc[id] = "waiting" /\ pc' = [pc EXCEPT ![id] = "returned"]
          /\ UNCHANGED <<executed, conn>> /\ reader.at = "send"
      BY <1>6, <2>1 DEF deliver, At, srvVars
    <2>3. CASE reader.msg.call = NoCall
      <3>1. result' = [result EXCEPT ![id] = "failed"] /\ conn # "open"
        BY <1>1, <1>6, <2>1, <2>2, <2>3 DEF deliver, Failing, Normal
      <3>2. \A x \in Calls \ {id} : Stage(x)' = Stage(x)
        BY <1>1, <2>2, <3>1 DEF Stage
      <3>3. Stage(id) = "called" /\ Stage(id)' = "failed"
        BY <1>1, <2>2, <3>1 DEF Stage
      <3> QED BY <2>2, <3>1, <3>2, <3>3, SeenByCaller
    <2>4. CASE reader.msg.call # NoCall
      <3>1. result' = [result EXCEPT ![id] = id] /\ executed[id] = 1
        BY <1>6, <2>1, <2>2, <2>4 DEF deliver, Normal
      <3>2. \A x \in Calls \ {id} : Stage(x)' = Stage(x)
        BY <1>1, <2>2, <3>1 DEF Stage
      <3>3. Stage(id) = "called" /\ Stage(id)' = "answered"
        BY <1>1, <2>2, <3>1 DEF Stage
      <3> QED BY <2>2, <3>1, <3>2, <3>3, SeenByCaller
    <2> QED BY <2>3, <2>4
  <1>7. CASE SrvRead
    <2>1. UNCHANGED <<pc, result, conn>>
      BY <1>7 DEF SrvRead, callVars
    <2>2. CASE UNCHANGED executed
      BY <1>2, <2>1, <2>2
    <2>3. CASE executed' # executed
      <3>1. PICK id \in Calls : /\ executed[id] = 0 /\ executed' = [executed EXCEPT ![id] = 1]
                                /\ pc[id] \in {"waiting", "returned"}
        BY <1>7, <2>3, ExecutedOnce
      <3>2. Stage(id) \in {"called", "failed"}
        BY <1>1, <3>1 DEF Stage, Outcomes
      <3>3. [x \in Calls |-> Stage(x)]' = [x \in Calls |-> Stage(x)]
            /\ [x \in Calls |-> Stage(x)][id] = Stage(id)
        BY <2>1 DEF Stage
      <3>4. Promise!Execute(id)
        BY <2>1, <3>1, <3>2, <3>3 DEF Promise!Execute
      <3> QED BY <3>4 DEF Promise!Next
    <2> QED BY <2>2, <2>3
  <1>8. CASE \/ ReadCall \/ ReadError \/ outstanding \/ FailNext \/ remove \/ NewDemuxClnt
             \/ \E m \in serving : SrvWrite(m)
    BY <1>2, <1>8
    DEF ReadCall, ReadError, outstanding, FailNext, remove, NewDemuxClnt, SrvWrite, callVars,
        srvVars
  <1>9. CASE Close \/ Break \/ Quit \/ NewDemuxSrv
    BY <1>2, <1>9 DEF Close, CloseStep, Break, Quit, NewDemuxSrv, callVars, srvVars
  <1>10. CASE Over \/ UNCHANGED vars
    BY <1>2, <1>10 DEF Over, vars, callVars, srvVars
  <1> QED
    BY <1>3, <1>4, <1>5, <1>6, <1>7, <1>8, <1>9, <1>10
    DEF Next, SendReceive, ReaderStep

\* SendReceive, reader and DemuxSrv implement RPC: a call is executed at most
\* once, also after it has failed, returns the answer to its own request, and fails
\* only after the connection went down.
THEOREM PromiseKept == Spec => KeepsPromise
  <1>1. Init => Promise!Init
    BY PromiseInit
  <1>2. Init => Outcomes
    BY InitInv
  <1>3. IInv /\ Outcomes /\ [Next]_vars => Outcomes'
    BY OutcomesNext
  <1>4. IInv /\ Outcomes /\ [Next]_vars => [Promise!Next]_(Promise!vars)
    BY PromiseNext
  <1> QED BY <1>1, <1>2, <1>3, <1>4, Invariance, PTL DEF Spec, KeepsPromise, Promise!Spec
=============================================================================
