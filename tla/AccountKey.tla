----------------------------- MODULE AccountKey -----------------------------
(***************************************************************************)
(* Manager.acmeClient and accountKey: the calls of a Manager take turns,   *)
(* under clientMu, to make its ACME client, with the account key that is   *)
(* stored in the cache or a new one that they store, and to register it.   *)
(* All Managers use the same cache.  The CA is external.                   *)
(***************************************************************************)
EXTENDS Naturals, FiniteSets

CONSTANTS
  Manager,
  Call,           \* goroutines that run acmeClient
  ManagerOf,
  Key,            \* account keys, enough of them for FreshKey
  None, Invalid,  \* nil, and data that is not a key
  Old,            \* what earlier processes may have left in the cache
  ReadMayFail, WriteMayFail, CAMayFail,
  MaxLate         \* bound on the writes that go on after their contexts have ended

ASSUME AccountConstants ==
  /\ ManagerOf \in [Call -> Manager]
  /\ None \notin Key \union Call \union {Invalid} /\ Invalid \notin Key
  /\ Old \subseteq Key \union {Invalid} /\ MaxLate \in Nat
  /\ {ReadMayFail, WriteMayFail, CAMayFail} \subseteq BOOLEAN

VARIABLES
  stored, legacy, \* what the cache has under keyName and legacyKeyName
  client,         \* m.client's key
  holder,         \* the call that has locked m.clientMu
  pc, live,       \* where each call is, and whether its context has not ended
  key,            \* the key it has got
  late,           \* keys whose writes go on after their context has ended
  delayed,        \* history: keys of such writes
  registered      \* accounts of the CA

callVars == <<pc, live, key>>
storeVars == <<stored, legacy, late, delayed>>
vars == <<storeVars, callVars, client, holder, registered>>

\* A call has a key where it uses it, and clientMu while it makes the client.
PlaceOK(c) ==
  /\ pc[c] \in {"put", "register"} <=> key[c] # None
  /\ pc[c] \notin {"idle", "lock"} <=> holder[ManagerOf[c]] = c

CallsOK ==
  /\ holder \in [Manager -> Call \union {None}]
  /\ pc \in [Call -> {"idle", "lock", "get", "legacy", "put", "register"}]
  /\ live \in [Call -> BOOLEAN]
  /\ key \in [Call -> Key \union {None}]
  /\ \A c \in Call : PlaceOK(c)

TypeOK ==
  /\ stored \in Key \union {None, Invalid} /\ legacy \in Key \union {None, Invalid}
  /\ client \in [Manager -> Key \union {None}]
  /\ late \subseteq Key /\ delayed \subseteq Key /\ registered \subseteq Key
  /\ CallsOK

Init ==
  /\ stored \in Old \union {None} /\ legacy \in Old \union {None}
  /\ client = [m \in Manager |-> None] /\ holder = [m \in Manager |-> None]
  /\ pc = [c \in Call |-> "idle"] /\ live = [c \in Call |-> FALSE]
  /\ key = [c \in Call |-> None]
  /\ late = {} /\ delayed = {} /\ registered = {}

Goto(c, label) == pc' = [pc EXCEPT ![c] = label]

Invoke(c) ==
  /\ pc[c] = "idle"
  /\ Goto(c, "lock")
  /\ live' = [live EXCEPT ![c] = TRUE]
  /\ UNCHANGED <<key, storeVars, client, holder, registered>>

EndContext(c) ==
  /\ pc[c] # "idle" /\ live[c]
  /\ live' = [live EXCEPT ![c] = FALSE]
  /\ UNCHANGED <<pc, key, storeVars, client, holder, registered>>

\* The call has clientMu; if there is a client already that is all it needs.
Lock(c) ==
  LET m == ManagerOf[c] IN
  /\ pc[c] = "lock" /\ holder[m] = None
  /\ \/ /\ client[m] # None
        /\ Goto(c, "idle")
        /\ live' = [live EXCEPT ![c] = FALSE]
        /\ UNCHANGED holder
     \/ /\ client[m] = None
        /\ Goto(c, "get")
        /\ holder' = [holder EXCEPT ![m] = c]
        /\ UNCHANGED live
  /\ UNCHANGED <<key, storeVars, client, registered>>

\* The deferred Unlock.
Return(c) ==
  /\ Goto(c, "idle")
  /\ holder' = [holder EXCEPT ![ManagerOf[c]] = None]
  /\ live' = [live EXCEPT ![c] = FALSE]
  /\ key' = [key EXCEPT ![c] = None]

\* Mutant: accountKey returns early and leaves clientMu locked.
ReturnError_Locked(c) ==
  /\ Goto(c, "idle")
  /\ live' = [live EXCEPT ![c] = FALSE]
  /\ key' = [key EXCEPT ![c] = None]
  /\ UNCHANGED holder

ReturnError(c) == Return(c)

\* dbCertCache.Get: a file that cannot be read is a miss, as one that is absent.
Read(c, value) == {value} \union (IF ReadMayFail \/ ~live[c] THEN {None} ELSE {})

\* What a call does with data it has found: go on with a key, fail without.
Parse(c, data) ==
  IF data = Invalid
    THEN ReturnError(c)
    ELSE /\ Goto(c, "register")
         /\ key' = [key EXCEPT ![c] = data]
         /\ UNCHANGED <<live, holder>>

Get(c) ==
  /\ pc[c] = "get"
  /\ \E data \in Read(c, stored) :
       IF data # None THEN Parse(c, data)
                      ELSE Goto(c, "legacy") /\ UNCHANGED <<live, key, holder>>
  /\ UNCHANGED <<storeVars, client, registered>>

\* Keys that nobody knows.
FreshKey == Key \ ({stored, legacy} \union delayed \union registered
                     \union {key[c] : c \in Call})

\* The key of previous versions is used, or a new one made.
GetLegacy(c) ==
  /\ pc[c] = "legacy"
  /\ \E data \in Read(c, legacy) :
       IF data # None
         THEN Parse(c, data)
         ELSE /\ FreshKey # {}
              /\ key' = [key EXCEPT ![c] = CHOOSE k \in FreshKey : TRUE]
              /\ Goto(c, "put")
              /\ UNCHANGED <<live, holder>>
  /\ UNCHANGED <<storeVars, client, registered>>

\* Mutant: putFile does not look at the context.
Put_AnyContext(c) ==
  /\ pc[c] = "put"
  /\ stored' = key[c]
  /\ Goto(c, "register") /\ UNCHANGED <<live, key, holder>>
  /\ UNCHANGED <<legacy, late, delayed, client, registered>>

\* The new key is stored; on an error, which does not say whether it is or will
\* be, the call fails.  A context that has ended before makes putFile write
\* nothing, of which the call may not be told.
Put(c) ==
  /\ pc[c] = "put"
  /\ \/ /\ IF live[c] THEN stored' = key[c] ELSE UNCHANGED stored
        /\ Goto(c, "register")
        /\ UNCHANGED <<live, key, holder, late, delayed>>
     \/ /\ WriteMayFail \/ ~live[c]
        /\ UNCHANGED stored \/ (live[c] /\ stored' = key[c])
        /\ ReturnError(c)
        /\ UNCHANGED <<late, delayed>>
     \/ /\ live[c] /\ Cardinality(delayed) < MaxLate
        /\ late' = late \union {key[c]}
        /\ delayed' = delayed \union {key[c]}
        /\ ReturnError(c)
        /\ UNCHANGED stored
  /\ UNCHANGED <<legacy, client, registered>>

LateWrite(k) ==
  /\ k \in late
  /\ late' = late \ {k}
  /\ stored' = k \/ UNCHANGED stored
  /\ UNCHANGED <<legacy, delayed, callVars, client, holder, registered>>

\* Register succeeds also when the account exists already.  An answer that is lost
\* leaves an account without client.
Register(c) ==
  LET account == registered \union {key[c]} IN
  /\ pc[c] = "register"
  /\ \/ /\ live[c]
        /\ registered' = account
        /\ client' = [client EXCEPT ![ManagerOf[c]] = key[c]]
     \/ /\ CAMayFail \/ ~live[c]
        /\ UNCHANGED registered \/ (live[c] /\ registered' = account)
        /\ UNCHANGED client
  /\ Return(c)
  /\ UNCHANGED storeVars

\* The process is started again.
Crash ==
  /\ client' = [m \in Manager |-> None] /\ holder' = [m \in Manager |-> None]
  /\ pc' = [c \in Call |-> "idle"] /\ live' = [c \in Call |-> FALSE]
  /\ key' = [c \in Call |-> None]
  /\ late' = {}
  /\ UNCHANGED <<stored, legacy, delayed, registered>>

CallStep(c) == Lock(c) \/ Get(c) \/ GetLegacy(c) \/ Put(c) \/ Register(c)

Next ==
  \/ \E c \in Call : Invoke(c) \/ EndContext(c) \/ CallStep(c)
  \/ \E k \in Key : LateWrite(k)
  \/ Crash

Spec == Init /\ [][Next]_vars

\* Calls run, their contexts put an end to requests, and sync.Mutex starves nobody.
Fairness == \A c \in Call : WF_vars(CallStep(c)) /\ SF_vars(Lock(c))
FairSpec == Spec /\ Fairness

---------------------------------------------------------------------------
(* What acmeClient promises.                                               *)

\* Every account has its key stored: it is not lost with the process.
RegisteredIsStored == registered \subseteq {stored, legacy}

\* Managers that race for the key may lose an account each, but one of them keeps
\* its own, however often they are started again, calls are repeated and writes or
\* registrations fail; a Manager by itself loses none.  Only a write that has
\* outlived its context costs one more.  This takes a disk that can be read.
FewAccountsLost ==
  Cardinality(registered \ {stored, legacy}) < Cardinality(Manager) + Cardinality(delayed)

\* Every call gets its client or an error, although it waits for other calls of
\* its Manager that talk to the CA.
CallReturns == \A c \in Call : pc[c] # "idle" ~> pc[c] = "idle"

---------------------------------------------------------------------------
(* Inductive strengthenings of FewAccountsLost.                            *)

\* Keys that are or may come to be those of accounts, and that are not stored.
Forsaken ==
  (registered \union {key[c] : c \in {d \in Call : pc[d] = "register" /\ live[d]}})
    \ {stored, legacy}

\* Managers in which a call believes that no key is stored, and may store its own.
Unaware ==
  {m \in Manager : \E c \in Call : /\ ManagerOf[c] = m /\ live[c]
                                   /\ pc[c] \in {"legacy", "put"}}

\* New keys are unlike each other and unlike those whose writes are delayed.
NewKeysOK ==
  /\ late \subseteq delayed
  /\ \A c \in Call : pc[c] = "put" =>
       /\ key[c] \notin delayed
       /\ \A d \in Call \ {c} : pc[d] = "put" => key[d] # key[c]

\* Every key that is given up has been overwritten, by a call that was unaware of it
\* or by a delayed write: each of them does so once, and nobody begins to believe
\* that no key is stored after one is.
FewForsaken ==
  IF stored = None
    THEN Forsaken = {}
    ELSE Cardinality(Forsaken) + Cardinality(Unaware) + Cardinality(late)
           < Cardinality(Manager) + Cardinality(delayed)

KeysInv == NewKeysOK /\ FewForsaken

---------------------------------------------------------------------------
(* What the documentation says, and the code does not keep.                *)

\* Cache.Get: "If there's no such key, Get returns ErrCacheMiss", the answer upon
\* which a new account key is made.
MissIsAbsent == \A c \in Call : pc[c] = "put" => stored = None /\ legacy = None
=============================================================================
