------------------------------ MODULE KVServer ------------------------------
(***************************************************************************)
(* The versioned key/value server of kvsrv1/server.go.  A handler runs     *)
(* under kv.mu from its first to its last line, so each one is a single    *)
(* atomic step on KeyValueItems.                                           *)
(***************************************************************************)
EXTENDS Naturals

CONSTANTS Keys,         \* the strings used as keys
          Values,       \* the strings stored
          Empty         \* Go's zero string ""

ASSUME EmptyAssumption == Empty \in Values

VARIABLE KeyValueItems  \* map[string]KeyValueItem: its domain is the keys present

\* Tversion is a uint64: a version grows by one per successful Put and 2^64
\* of them are out of reach, so it is a natural number here.
KeyValueItem == [value : Values, version : Nat]

\* Err's returned by server and Clerk (ErrMaybe: by Clerk only); NoErr is the
\* zero value of a reply nobody filled in.
NoErr      == "noErr"
OK         == "OK"
ErrNoKey   == "ErrNoKey"
ErrVersion == "ErrVersion"
ErrMaybe   == "ErrMaybe"
Err        == {NoErr, OK, ErrNoKey, ErrVersion, ErrMaybe}

Present(k) == k \in DOMAIN KeyValueItems

MakeKVServer == KeyValueItems = [k \in {} |-> [value |-> Empty, version |-> 0]]

\* The reply of the Get handler; an absent key leaves the zero value and version.
GetReply(k) ==
    IF Present(k)
    THEN [err |-> OK, value |-> KeyValueItems[k].value,
                      version |-> KeyValueItems[k].version]
    ELSE [err |-> ErrNoKey, value |-> Empty, version |-> 0]

\* Mutant: the version of a present key is not compared.
PutErrUnversioned(k, ver) == IF ~Present(k) /\ ver # 0 THEN ErrNoKey ELSE OK

\* Mutant: a wrong version is answered with a code the Clerk does not know.
PutErrUnknownCode(k, ver) ==
    IF ~Present(k)
    THEN IF ver # 0 THEN ErrNoKey ELSE OK
    ELSE IF KeyValueItems[k].version # ver THEN "ErrWrongLeader" ELSE OK

\* What handlePut returns for a Put with version ver.
PutErr(k, ver) ==
    IF ~Present(k)
    THEN IF ver # 0 THEN ErrNoKey ELSE OK
    ELSE IF KeyValueItems[k].version # ver THEN ErrVersion ELSE OK

\* The reply of the Put handler, in the shape of a Get's.
PutReply(k, ver) == [err |-> PutErr(k, ver), value |-> Empty, version |-> 0]

\* Mutant: a new key starts one version too high.
NewItemOffByOne(k, v) ==
    [value |-> v,
     version |-> IF Present(k) THEN KeyValueItems[k].version + 1 ELSE 2]

\* The item a successful Put stores: version 1 for a new key, else one more.
NewItem(k, v) ==
    [value |-> v,
     version |-> IF Present(k) THEN KeyValueItems[k].version + 1 ELSE 1]

\* The effect of handlePut on the map.
handlePut(k, v, ver) ==
    KeyValueItems' =
        IF PutErr(k, ver) = OK
        THEN [x \in DOMAIN KeyValueItems \cup {k} |->
                IF x = k THEN NewItem(k, v) ELSE KeyValueItems[x]]
        ELSE KeyValueItems

ServerTypeOK ==
    /\ DOMAIN KeyValueItems \subseteq Keys
    /\ KeyValueItems \in [DOMAIN KeyValueItems -> KeyValueItem]

\* The version of a key as a client sees it: 0 while the key is absent.
CurVersion(k) == GetReply(k).version
CurValue(k)   == GetReply(k).value
=============================================================================
