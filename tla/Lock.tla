-------------------------------- MODULE Lock --------------------------------
(***************************************************************************)
(* The distributed lock of kvsrv1/lock/lock.go: a key of the key/value     *)
(* server holds the Id of the lock's owner, "" when the lock is free.      *)
(*                                                                         *)
(* Each member of Clients is one Lock object, made by MakeLock with a Clerk *)
(* of its own; its random 12-character Id is the member itself, so two     *)
(* objects never share one.  The application calls Acquire and Release in  *)
(* any order.                                                              *)
(***************************************************************************)
EXTENDS KVClerk

CONSTANTS LockName,      \* LockName[c]: the key lock object c was made with
          MaxCalls       \* bound on the calls the application makes on an object

ASSUME LockNameAssumption == LockName \in [Clients -> Keys]
ASSUME IdAssumption       == Clients \subseteq Values \ {Empty}
ASSUME MaxCallsAssumption == MaxCalls \in Nat

VARIABLES pc,            \* pc[c]: where object c is in Acquire or Release
          calls,         \* calls[c]: how often the application called object c
          holding        \* the objects whose Acquire returned and whose Release
                         \* was not called since: the application owns the lock

vars == <<KeyValueItems, call, late, pc, calls, holding>>

\* "acqSleep" is the pause of Acquire after it found the lock taken.
AcquirePcs == {"acqGet", "acqSleep", "acqPut"}
ReleasePcs == {"relGet", "relPut"}

Init ==
    /\ ClerkInit
    /\ pc = [c \in Clients |-> "out"]
    /\ calls = [c \in Clients |-> 0]
    /\ holding = {}

Goto(c, l) == pc' = [pc EXCEPT ![c] = l]

GetOf(c)      == NewCall("Get", LockName[c], Empty, 0)
PutOf(c, v)   == NewCall("Put", LockName[c], v, call[c].reply.version)

-----------------------------------------------------------------------------
AcquireCalled(c) ==
    /\ pc[c] = "out"
    /\ calls[c] < MaxCalls
    /\ calls' = [calls EXCEPT ![c] = @ + 1]
    /\ BeginGet(c, LockName[c])
    /\ Goto(c, "acqGet")
    /\ UNCHANGED holding

\* Mutant: Acquire does not recognise its own Id on the server.
AcquireGotNotOwn(c) ==
    /\ pc[c] = "acqGet"
    /\ \/ /\ call[c].reply.value # Empty
          /\ Return(c)
          /\ Goto(c, "acqSleep")
       \/ /\ call[c].reply.value = Empty
          /\ ReturnThen(c, PutOf(c, c))
          /\ Goto(c, "acqPut")
    /\ UNCHANGED <<calls, holding>>

\* The Get of Acquire returned.  ErrNoKey carries the zero value and version,
\* which is what Acquire substitutes for them.
AcquireGot(c) ==
    /\ pc[c] = "acqGet"
    /\ \/ /\ call[c].reply.value = c
          /\ Return(c)
          /\ Goto(c, "out")
          /\ holding' = holding \cup {c}
       \/ /\ call[c].reply.value \notin {c, Empty}
          /\ Return(c)
          /\ Goto(c, "acqSleep")
          /\ UNCHANGED holding
       \/ /\ call[c].reply.value = Empty
          /\ ReturnThen(c, PutOf(c, c))
          /\ Goto(c, "acqPut")
          /\ UNCHANGED holding
    /\ UNCHANGED calls

AcquireAgain(c) ==
    /\ pc[c] = "acqSleep"
    /\ BeginGet(c, LockName[c])
    /\ Goto(c, "acqGet")
    /\ UNCHANGED <<calls, holding>>

\* Mutant: Acquire takes ErrMaybe for success.
AcquirePutDoneMaybe(c) ==
    /\ pc[c] = "acqPut"
    /\ \/ /\ ClerkErr(c) \in {OK, ErrMaybe}
          /\ Return(c)
          /\ Goto(c, "out")
          /\ holding' = holding \cup {c}
       \/ /\ ClerkErr(c) \notin {OK, ErrMaybe}
          /\ ReturnThen(c, GetOf(c))
          /\ Goto(c, "acqGet")
          /\ UNCHANGED holding
    /\ UNCHANGED calls

\* The Put of Acquire returned: OK ends Acquire, anything else is a new turn.
AcquirePutDone(c) ==
    /\ pc[c] = "acqPut"
    /\ \/ /\ ClerkErr(c) = OK
          /\ Return(c)
          /\ Goto(c, "out")
          /\ holding' = holding \cup {c}
       \/ /\ ClerkErr(c) # OK
          /\ ReturnThen(c, GetOf(c))
          /\ Goto(c, "acqGet")
          /\ UNCHANGED holding
    /\ UNCHANGED calls

ReleaseCalled(c) ==
    /\ pc[c] = "out"
    /\ calls[c] < MaxCalls
    /\ calls' = [calls EXCEPT ![c] = @ + 1]
    /\ holding' = holding \ {c}
    /\ BeginGet(c, LockName[c])
    /\ Goto(c, "relGet")

\* Mutant: Release of a lock that is somebody else's asks again.
ReleaseGotWaits(c) ==
    /\ pc[c] = "relGet"
    /\ \/ /\ call[c].reply.err # OK
          /\ Return(c)
          /\ Goto(c, "out")
       \/ /\ call[c].reply.err = OK /\ call[c].reply.value # c
          /\ ReturnThen(c, GetOf(c))
          /\ UNCHANGED pc
       \/ /\ call[c].reply.err = OK /\ call[c].reply.value = c
          /\ ReturnThen(c, PutOf(c, Empty))
          /\ Goto(c, "relPut")
    /\ UNCHANGED <<calls, holding>>

ReleaseGot(c) ==
    /\ pc[c] = "relGet"
    /\ \/ /\ call[c].reply.err # OK \/ call[c].reply.value # c
          /\ Return(c)
          /\ Goto(c, "out")
       \/ /\ call[c].reply.err = OK /\ call[c].reply.value = c
          /\ ReturnThen(c, PutOf(c, Empty))
          /\ Goto(c, "relPut")
    /\ UNCHANGED <<calls, holding>>

ReleasePutDone(c) ==
    /\ pc[c] = "relPut"
    /\ \/ /\ ClerkErr(c) \in {OK, ErrMaybe}
          /\ Return(c)
          /\ Goto(c, "out")
       \/ /\ ClerkErr(c) \notin {OK, ErrMaybe}
          /\ ReturnThen(c, GetOf(c))
          /\ Goto(c, "relGet")
    /\ UNCHANGED <<calls, holding>>

Network(c) == NetworkStep(c) /\ UNCHANGED <<pc, calls, holding>>
Handle(c)  == Execute(c) /\ UNCHANGED <<pc, calls, holding>>
HandleLate(r) == ExecuteLate(r) /\ UNCHANGED <<pc, calls, holding>>

\* The steps of Acquire and Release after the application has called them.
Proceed(c) == \/ AcquireGot(c) \/ AcquireAgain(c) \/ AcquirePutDone(c)
              \/ ReleaseGot(c) \/ ReleasePutDone(c)

Next ==
    \/ \E c \in Clients :
          \/ AcquireCalled(c) \/ ReleaseCalled(c)
          \/ Proceed(c)
          \/ Network(c) \/ Handle(c)
    \/ \E r \in late : HandleLate(r)

Spec == Init /\ [][Next]_vars

\* Calls fail at random and are repeated until one succeeds, so the steps a
\* failure disables are strongly fair.  The application is not obliged to call
\* anything.
Fairness ==
    \A c \in Clients :
        /\ WF_vars(Retry(c) /\ UNCHANGED <<pc, calls, holding>>)
        /\ SF_vars(Handle(c))
        /\ SF_vars(Proceed(c))

FairSpec == Spec /\ Fairness

-----------------------------------------------------------------------------
TypeOK ==
    /\ ClerkTypeOK
    /\ pc \in [Clients -> {"out"} \cup AcquirePcs \cup ReleasePcs]
    /\ calls \in [Clients -> 0..MaxCalls]
    /\ holding \subseteq Clients

\* Two applications never own locks of the same name at the same time, with
\* Puts resent, abandoned and executed late (Acquire, and "two clients acquired
\* lock" of lock_test.go).
MutualExclusion ==
    \A c, d \in holding : LockName[c] = LockName[d] => c = d

\* An application owns the lock only while the server says so: no request of
\* another object, resent or left over from a finished call, takes the key from
\* its owner.
OwnerOnServer == \A c \in holding : CurValue(LockName[c]) = c

\* When Release has returned the lock is not the object's own, and stays so
\* until it calls Acquire: ErrMaybe does mean that the releasing Put happened,
\* and no abandoned Put of Acquire takes the lock for an application that is
\* not waiting for it.
NoGhostOwner ==
    \A c \in Clients :
        pc[c] = "out" /\ c \notin holding => CurValue(LockName[c]) # c

\* A lock somebody is waiting for in Acquire is owned by somebody eventually:
\* no combination of lost replies leaves it taken by nobody.
LockNotStuck ==
    \A k \in Keys :
        (\E c \in Clients : LockName[c] = k /\ pc[c] \in AcquirePcs)
            ~> (\E c \in holding : LockName[c] = k)

\* Release returns: its loop ends although its Put may be answered ErrVersion.
ReleaseReturns ==
    \A c \in Clients : (pc[c] \in ReleasePcs) ~> (pc[c] = "out")
=============================================================================
