------------------------------ MODULE KVModel ------------------------------
(***************************************************************************)
(* What the key/value service promises: the sequential specification       *)
(* KvModel of models1/kv.go, as an object several clients use at once.     *)
(*                                                                         *)
(* An operation takes effect between its invocation and its return.  The   *)
(* step Evaluate is KvModel.Step; it may be repeated until the operation   *)
(* has changed the state, and the last evaluation is the one that counts,  *)
(* so every history is a sequential history of KvModel in an order that    *)
(* respects real time.                                                     *)
(***************************************************************************)
EXTENDS Naturals

CONSTANTS Keys, Values, Empty, Clients

VARIABLES state, input, output, result

vars == <<state, input, output, result>>

ZeroOutput == [err |-> "noErr", value |-> Empty, version |-> 0]

\* A key starts as KvModel.Init has it, or as the first Put of a test left it.
Init ==
    /\ \A k \in Keys : state[k].version = 1 \/ state[k] = [value |-> Empty, version |-> 0]
    /\ \A c \in Clients : input[c].op = "none"
    /\ output = [c \in Clients |-> ZeroOutput]
    /\ result = [c \in Clients |-> ZeroOutput]

Pending(c) == input[c].op # "none"

\* A client invokes its next operation once the one before has returned.
Invoke(c) ==
    /\ input[c].op = "none"
    /\ input'[c].op \in {"Get", "Put"}
    /\ input'[c].key \in Keys
    /\ input' = [input EXCEPT ![c] = input'[c]]
    /\ result' = [result EXCEPT ![c] = ZeroOutput]
    /\ UNCHANGED <<state, output>>

\* case 0 of KvModel.Step; KvModel compares the value, this one the version too.
EvaluateGet(c) ==
    LET st == state[input[c].key] IN
    /\ Pending(c)
    /\ input[c].op = "Get"
    /\ output'[c].value = st.value
    /\ output'[c].version = st.version
    /\ output'[c].err = IF st.version = 0 THEN "ErrNoKey" ELSE "OK"
    /\ output' = [output EXCEPT ![c] = output'[c]]
    /\ UNCHANGED <<state, input, result>>

\* case 1 of KvModel.Step.
EvaluatePut(c) ==
    LET inp == input[c]
        st  == state[inp.key]
    IN
    /\ Pending(c)
    /\ inp.op = "Put"
    /\ output[c].err # "OK"
    /\ IF st.version = inp.version
       THEN /\ output' = [output EXCEPT ![c].err = "OK"]
            /\ state' = [state EXCEPT ![inp.key] = [value |-> inp.value,
                                                    version |-> st.version + 1]]
       ELSE /\ output' = [output EXCEPT ![c].err = "ErrVersion"]
            /\ UNCHANGED state
    /\ UNCHANGED <<input, result>>

\* A Put may always answer ErrMaybe; every other answer is the evaluation's.
ReturnOp(c) ==
    /\ Pending(c)
    /\ output[c].err # "noErr"
    /\ \/ result' = [result EXCEPT ![c] = output[c]]
       \/ /\ input[c].op = "Put"
          /\ result' = [result EXCEPT ![c] = [output[c] EXCEPT !.err = "ErrMaybe"]]
    /\ input'[c].op = "none"
    /\ input' = [input EXCEPT ![c] = input'[c]]
    /\ output' = [output EXCEPT ![c] = ZeroOutput]
    /\ UNCHANGED state

Next == \E c \in Clients :
            Invoke(c) \/ EvaluateGet(c) \/ EvaluatePut(c) \/ ReturnOp(c)

Spec == Init /\ [][Next]_vars
=============================================================================
