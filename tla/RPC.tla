-------------------------------- MODULE RPC --------------------------------
(***************************************************************************)
(* What RPCClnt.RPC promises the tester and the daemons: a call is executed *)
(* at most once, returns the answer to its own request, and fails only     *)
(* after the connection went down.  A call that has failed may still be    *)
(* executed, once.                                                         *)
(***************************************************************************)
EXTENDS Naturals

CONSTANT Calls

VARIABLES stage,        \* stage[id]: how far call id is
          executed,     \* executed[id]: how often it has been executed
          down          \* the connection is gone

vars == <<stage, executed, down>>

Init ==
    /\ stage = [id \in Calls |-> "new"]
    /\ executed = [id \in Calls |-> 0]
    /\ down = FALSE

Move(id, from, to) == stage[id] = from /\ stage' = [stage EXCEPT ![id] = to]

Begin(id)   == Move(id, "new", "called") /\ UNCHANGED <<executed, down>>
Answer(id)  == executed[id] = 1 /\ Move(id, "called", "answered") /\ UNCHANGED <<executed, down>>
FailCall(id) == down /\ Move(id, "called", "failed") /\ UNCHANGED <<executed, down>>
GoDown      == down' = TRUE /\ UNCHANGED <<stage, executed>>

Execute(id) ==
    /\ stage[id] \in {"called", "failed"}
    /\ executed[id] = 0
    /\ executed' = [executed EXCEPT ![id] = 1]
    /\ UNCHANGED <<stage, down>>

Next == GoDown \/ \E id \in Calls : Begin(id) \/ Execute(id) \/ Answer(id) \/ FailCall(id)

Spec == Init /\ [][Next]_vars
=============================================================================
