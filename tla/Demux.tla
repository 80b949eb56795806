------------------------------- MODULE Demux -------------------------------
(***************************************************************************)
(* RPC between the tester and a daemon: tester1/sockrpc and tester1/demux. *)
(* Concurrent calls share one connection; a reader at the caller's side    *)
(* hands each reply to the call with its tag, and fails the outstanding    *)
(* calls when the connection is gone.                                      *)
(***************************************************************************)
EXTENDS Naturals, Sequences, FiniteSets

CONSTANTS Calls,        \* SendReceive calls, each made once
          TagSpace,     \* how many values a Ttag has (2^32)
          BufLen        \* messages a socket holds in one direction

NoCall == "noCall"

ASSUME DemuxAssumption ==
    /\ TagSpace \in Nat \ {0} /\ BufLen \in Nat \ {0}
    /\ Calls \cap {NoCall, "none", "failed"} = {}
\* A connection sees at most 2^32 calls, a tag being a uint32: no tag is given twice.
ASSUME TagAssumption == IsFiniteSet(Calls) /\ Cardinality(Calls) <= TagSpace

VARIABLES nextTag,      \* dmx.nextTag
          callmap,      \* callmap[t]: the call that waits for tag t, or NoCall
          closed,       \* callmap.closed
          pc,           \* pc[id]: where SendReceive is
          tag,          \* tag[id]: its variable t
          writer,       \* who holds dmx.mu around WriteCall
          result,       \* result[id]: whose answer SendReceive returned; or a failure
          reader,       \* the client's reader
          closer,       \* DemuxClnt.Close
          conn,         \* the connection: "open", "closed" here, "broken" by the peer
          toSrv,        \* messages to the server
          toClnt,       \* messages to the client
          srvReader,    \* the server's reader
          serving,      \* requests whose goroutine runs ServeRequest
          executed      \* history, executed[id]: how often ServeRequest was called for it

callVars == <<nextTag, pc, tag, writer>>
srvVars  == <<srvReader, serving, executed>>
vars     == <<callVars, callmap, closed, result, reader, closer, conn, toSrv, toClnt, srvVars>>

Tags == 0 .. TagSpace - 1
Msg  == [tag : Tags, call : Calls \cup {NoCall}]

\* The reader is not there yet, its process having dialed only, or exited at that; in
\* ReadCall; in reply, about to look up the tag of msg or at the channel of call to;
\* in the loop that fails the calls left; or gone.
Reader == [at : {"dialed", "exited", "read", "reply", "send", "closed", "failing", "over",
                 "fatal"},
           msg : Msg, to : Calls \cup {NoCall}, left : SUBSET Tags]

\* dial has connected the two ends.
Init ==
    /\ nextTag = 0
    /\ toSrv = <<>>
    /\ toClnt = <<>>
    /\ callmap = [t \in Tags |-> NoCall]
    /\ closed = FALSE
    /\ pc = [id \in Calls |-> "new"]
    /\ tag = [id \in Calls |-> 0]
    /\ writer = NoCall
    /\ result = [id \in Calls |-> "none"]
    /\ reader = [at |-> "dialed", msg |-> [tag |-> 0, call |-> NoCall],
                 to |-> NoCall, left |-> {}]
    /\ closer = "idle"
    /\ conn = "open"
    /\ srvReader = "name"
    /\ serving = {}
    /\ executed = [id \in Calls |-> 0]

At(id, from, to) == pc[id] = from /\ pc' = [pc EXCEPT ![id] = to]

-----------------------------------------------------------------------------
\* NewDemuxClnt: the client's name is written as the first message; the process exits
\* if that fails (getDmx).
NewDemuxClnt ==
    /\ reader.at = "dialed"
    /\ nextTag' = 1 % TagSpace
    /\ IF conn = "open"
       THEN /\ toSrv' = <<[tag |-> 0, call |-> NoCall]>>
            /\ reader' = [reader EXCEPT !.at = "read"]
       ELSE /\ reader' = [reader EXCEPT !.at = "exited"]
            /\ UNCHANGED toSrv
    /\ UNCHANGED <<pc, tag, writer, callmap, closed, result, closer, conn, toClnt, srvVars>>

\* The client's process ends before it has sent its name.  When it ends later it is, to
\* the server, a client that closes the connection.
Quit ==
    /\ reader.at = "dialed" /\ conn = "open"
    /\ conn' = "closed"
    /\ reader' = [reader EXCEPT !.at = "exited"]
    /\ UNCHANGED <<callVars, callmap, closed, result, closer, toSrv, toClnt, srvVars>>

\* NewDemuxClnt has returned.
Made == reader.at \notin {"dialed", "exited"}

-----------------------------------------------------------------------------
\* SendReceive.

\* Mutant: a tag is not cut to its width.
takeTagUncut(id) ==
    /\ Made /\ writer = NoCall
    /\ At(id, "new", "tagged")
    /\ tag' = [tag EXCEPT ![id] = nextTag]
    /\ nextTag' = nextTag + 1
    /\ UNCHANGED <<writer, callmap, closed, result, reader, closer, conn, toSrv, toClnt, srvVars>>

takeTag(id) ==
    /\ Made /\ writer = NoCall
    /\ At(id, "new", "tagged")
    /\ tag' = [tag EXCEPT ![id] = nextTag]
    /\ nextTag' = (nextTag + 1) % TagSpace
    /\ UNCHANGED <<writer, callmap, closed, result, reader, closer, conn, toSrv, toClnt, srvVars>>

\* callmap.put, refused once the map is closed.
put(id) ==
    /\ pc[id] = "tagged"
    /\ IF closed
       THEN /\ pc' = [pc EXCEPT ![id] = "returned"]
            /\ result' = [result EXCEPT ![id] = "failed"]
            /\ UNCHANGED callmap
       ELSE /\ pc' = [pc EXCEPT ![id] = "put"]
            /\ callmap' = [callmap EXCEPT ![tag[id]] = id]
            /\ UNCHANGED result
    /\ UNCHANGED <<nextTag, tag, writer, closed, reader, closer, conn, toSrv, toClnt, srvVars>>

lockToWrite(id) ==
    /\ writer = NoCall
    /\ At(id, "put", "writing")
    /\ writer' = id
    /\ UNCHANGED <<nextTag, tag, callmap, closed, result, reader, closer, conn, toSrv, toClnt, srvVars>>

\* Mutant: SendReceive returns when the write fails.
WriteCallOrReturn(id) ==
    /\ writer = id
    /\ \/ /\ conn = "open" /\ Len(toSrv) < BufLen
          /\ toSrv' = Append(toSrv, [tag |-> tag[id], call |-> id])
          /\ At(id, "writing", "waiting")
          /\ UNCHANGED result
       \/ /\ conn # "open"
          /\ At(id, "writing", "returned")
          /\ result' = [result EXCEPT ![id] = "failed"]
          /\ UNCHANGED toSrv
    /\ writer' = NoCall
    /\ UNCHANGED <<nextTag, tag, callmap, closed, reader, closer, conn, toClnt, srvVars>>

\* Mutant: a request may be written again.
WriteCallAgain(id) ==
    /\ writer = id
    /\ pc[id] = "writing"
    /\ \/ /\ conn = "open" /\ Len(toSrv) < BufLen
          /\ toSrv' = Append(toSrv, [tag |-> tag[id], call |-> id])
       \/ conn # "open" /\ UNCHANGED toSrv
    /\ \/ pc' = [pc EXCEPT ![id] = "waiting"] /\ writer' = NoCall
       \/ UNCHANGED <<pc, writer>>
    /\ UNCHANGED <<nextTag, tag, callmap, closed, result, reader, closer, conn, toClnt, srvVars>>

\* WriteCall waits, with the lock held, while the socket is full.  Its error is
\* ignored: the caller waits for the reader's verdict.
WriteCall(id) ==
    /\ writer = id
    /\ At(id, "writing", "waiting")
    /\ \/ /\ conn = "open" /\ Len(toSrv) < BufLen
          /\ toSrv' = Append(toSrv, [tag |-> tag[id], call |-> id])
       \/ conn # "open" /\ UNCHANGED toSrv
    /\ writer' = NoCall
    /\ UNCHANGED <<nextTag, tag, callmap, closed, result, reader, closer, conn, toClnt, srvVars>>

SendReceive(id) == takeTag(id) \/ put(id) \/ lockToWrite(id) \/ WriteCall(id)

-----------------------------------------------------------------------------
\* DemuxClnt.reader.

\* What was received before the connection ended may still be read.
ReadCall ==
    /\ reader.at = "read"
    /\ toClnt # <<>>
    /\ reader' = [reader EXCEPT !.at = "reply", !.msg = Head(toClnt)]
    /\ toClnt' = Tail(toClnt)
    /\ UNCHANGED <<callVars, callmap, closed, result, closer, conn, toSrv, srvVars>>

ReadError ==
    /\ reader.at = "read"
    /\ conn # "open"
    /\ closed' = TRUE
    /\ reader' = [reader EXCEPT !.at = "closed"]
    /\ UNCHANGED <<callVars, callmap, result, closer, conn, toSrv, toClnt, srvVars>>

outstanding ==
    /\ reader.at = "closed"
    /\ reader' = [reader EXCEPT !.at = "failing", !.left = {t \in Tags : callmap[t] # NoCall}]
    /\ UNCHANGED <<callVars, callmap, closed, result, closer, conn, toSrv, toClnt, srvVars>>

\* The loop over what was outstanding: a reply without an answer.
FailNext ==
    /\ reader.at = "failing"
    /\ reader' \in IF reader.left = {}
                   THEN {[reader EXCEPT !.at = "over"]}
                   ELSE {[reader EXCEPT !.at = "reply", !.left = @ \ {t},
                                        !.msg = [tag |-> t, call |-> NoCall]] : t \in reader.left}
    /\ UNCHANGED <<callVars, callmap, closed, result, closer, conn, toSrv, toClnt, srvVars>>

\* reply: callmap.remove; the process exits if no call has the tag.
remove ==
    /\ reader.at = "reply"
    /\ LET id == callmap[reader.msg.tag] IN
       /\ reader' = [reader EXCEPT !.at = IF id = NoCall THEN "fatal" ELSE "send", !.to = id]
       /\ callmap' = [callmap EXCEPT ![reader.msg.tag] = NoCall]
    /\ UNCHANGED <<callVars, closed, result, closer, conn, toSrv, toClnt, srvVars>>

\* reply: the send on the call's channel, which waits for the call to listen.
\* Only failures carry no answer.
deliver ==
    /\ reader.at = "send"
    /\ At(reader.to, "waiting", "returned")
    /\ IF reader.msg.call = NoCall
       THEN /\ result' = [result EXCEPT ![reader.to] = "failed"]
            /\ reader' = [reader EXCEPT !.at = "failing"]
       ELSE /\ result' = [result EXCEPT ![reader.to] = reader.msg.call]
            /\ reader' = [reader EXCEPT !.at = "read"]
    /\ UNCHANGED <<nextTag, tag, writer, callmap, closed, closer, conn, toSrv, toClnt, srvVars>>

ReaderStep == ReadCall \/ ReadError \/ outstanding \/ FailNext \/ remove \/ deliver

-----------------------------------------------------------------------------
\* DemuxClnt.Close looks at closed, closes the connection and then the map.
CloseStep(from, to) == closer = from /\ closer' = to

Close ==
    /\ Made
    /\ \/ CloseStep("idle", IF closed THEN "over" ELSE "checked") /\ UNCHANGED <<conn, closed>>
       \/ /\ CloseStep("checked", "transport")
          /\ conn' = IF conn = "open" THEN "closed" ELSE conn
          /\ UNCHANGED closed
       \/ CloseStep("transport", "over") /\ closed' = TRUE /\ UNCHANGED conn
    /\ UNCHANGED <<callVars, callmap, result, reader, toSrv, toClnt, srvVars>>

\* The server's process is killed.
Break ==
    /\ conn # "broken" /\ conn' = "broken"
    /\ toSrv' = <<>>
    /\ srvReader' = "over"
    /\ serving' = {}
    /\ UNCHANGED <<callVars, callmap, closed, result, reader, closer, toClnt, executed>>

-----------------------------------------------------------------------------
\* DemuxSrv.  Its end of the connection stays open until the process ends.

\* Mutant: the message with the client's name is served like a request.
NewDemuxSrvUnread ==
    /\ srvReader = "name"
    /\ srvReader' = "read"
    /\ UNCHANGED <<callVars, callmap, closed, result, reader, closer, conn, toSrv, toClnt, serving, executed>>

\* NewDemuxSrv takes the message with the client's name before the reader starts; the
\* process exits if there is none.
NewDemuxSrv ==
    /\ srvReader = "name"
    /\ \/ /\ toSrv # <<>>
          /\ srvReader' = "read"
          /\ toSrv' = Tail(toSrv)
          /\ UNCHANGED conn
       \/ /\ toSrv = <<>> /\ conn = "closed"
          /\ srvReader' = "fatal"
          /\ conn' = "broken"
          /\ UNCHANGED toSrv
    /\ UNCHANGED <<callVars, callmap, closed, result, reader, closer, toClnt, serving, executed>>

SrvRead ==
    /\ srvReader = "read"
    /\ \/ /\ toSrv # <<>>
          /\ serving' = serving \cup {Head(toSrv)}
          /\ executed' = [executed EXCEPT ![Head(toSrv).call] = @ + 1]
          /\ toSrv' = Tail(toSrv)
          /\ UNCHANGED srvReader
       \/ /\ toSrv = <<>> /\ conn = "closed"
          /\ srvReader' = "over"
          /\ UNCHANGED <<toSrv, serving, executed>>
    /\ UNCHANGED <<callVars, callmap, closed, result, reader, closer, conn, toClnt>>

\* The goroutine of a request: ServeRequest returns, and WriteCall waits for room.
SrvWrite(m) ==
    /\ m \in serving
    /\ serving' = serving \ {m}
    /\ \/ conn = "open" /\ Len(toClnt) < BufLen /\ toClnt' = Append(toClnt, m)
       \/ conn = "closed" /\ UNCHANGED toClnt
    /\ UNCHANGED <<callVars, callmap, closed, result, reader, closer, conn, toSrv, srvReader, executed>>

\* Nothing is left to do, at either side.
Over ==
    /\ conn = "broken"
    /\ \/ reader.at = "exited"
       \/ /\ \A id \in Calls : pc[id] = "returned"
          /\ reader.at = "over" /\ closer = "over"
    /\ UNCHANGED vars

Next ==
    \/ NewDemuxClnt
    \/ Quit
    \/ \E id \in Calls : SendReceive(id)
    \/ ReaderStep
    \/ Close
    \/ Break
    \/ NewDemuxSrv
    \/ SrvRead
    \/ \E m \in serving : SrvWrite(m)
    \/ Over

Spec == Init /\ [][Next]_vars

\* Goroutines that can run do; nothing is assumed of handlers.
FairSpec ==
    /\ Spec
    /\ \A id \in Calls : WF_vars(put(id) \/ WriteCall(id)) /\ SF_vars(lockToWrite(id))
    /\ WF_vars(ReaderStep)
    /\ WF_vars(NewDemuxSrv) /\ WF_vars(SrvRead)

-----------------------------------------------------------------------------
TypeOK ==
    /\ nextTag \in Tags
    /\ callmap \in [Tags -> Calls \cup {NoCall}]
    /\ closed \in BOOLEAN
    /\ pc \in [Calls -> {"new", "tagged", "put", "writing", "waiting", "returned"}]
    /\ tag \in [Calls -> Tags]
    /\ writer \in Calls \cup {NoCall}
    /\ result \in [Calls -> Calls \cup {"none", "failed"}]
    /\ reader \in Reader
    /\ closer \in {"idle", "checked", "transport", "over"}
    /\ conn \in {"open", "closed", "broken"}
    /\ toSrv \in Seq(Msg) /\ Len(toSrv) <= BufLen
    /\ toClnt \in Seq(Msg) /\ Len(toClnt) <= BufLen
    /\ srvReader \in {"name", "read", "over", "fatal"}
    /\ serving \subseteq Msg
    /\ executed \in [Calls -> Nat]

\* The client's process never exits over a reply that no call waits for: the first
\* message is not answered, and no reply comes after its call was failed (reply,
\* dmxclnt.go).  The server's exits only over a client that ended before it had sent
\* its name, not over one that closes the connection right after (NewDemuxSrv).
NoFatal ==
    /\ reader.at # "fatal"
    /\ srvReader = "fatal" => reader.at = "exited"

Outstanding(id) == pc[id] \in {"put", "writing", "waiting"}

\* An answer that is on its way arrives, and with the connection gone every call
\* returns, although the reader waits at the channel of one call after the other
\* (SendReceive listens even when its write failed: the comment at dmxclnt.go:96).
CallsReturn ==
    \A id \in Calls :
        (Outstanding(id) /\ (conn # "open" \/ \E k \in 1 .. Len(toClnt) : toClnt[k].call = id))
            ~> (pc[id] = "returned")

\* What a caller of RPC sees of it.
Stage(id) ==
    IF pc[id] = "returned"
    THEN IF result[id] = id THEN "answered"
         ELSE IF result[id] = "failed" THEN "failed" ELSE "wrong"
    ELSE IF pc[id] = "new" THEN "new" ELSE "called"

Promise == INSTANCE RPC WITH
    stage <- [id \in Calls |-> Stage(id)],
    down <- conn # "open"

\* SendReceive, reader and DemuxSrv keep RPC's promise: ServeRequest runs at most once
\* for a call, also after the call has failed, a call that returns an answer has its
\* own, and calls fail only after the connection went down.
KeepsPromise == Promise!Spec
=============================================================================
