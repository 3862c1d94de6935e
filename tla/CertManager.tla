---------------------------- MODULE CertManager ----------------------------
(***************************************************************************)
(* The certificate Managers of alley-oop (src/src/autocert): concurrent    *)
(* GetCertificate calls, the m.state maps of certState objects and their   *)
(* locks, removal of failed objects, the renewal loop of every             *)
(* certificate, and the persistent cache the Managers share.               *)
(*                                                                         *)
(* A "slot" is one entry of one Manager's state map: a (Manager, certKey)  *)
(* pair.  Slots of different Managers may share a cache file (KeyOf).      *)
(* Critical sections under stateMu and renewalMu are single actions; a     *)
(* certState's own lock, held across the conversation with the CA, is a    *)
(* field of the object.                                                    *)
(***************************************************************************)
EXTENDS Integers, FiniteSets

CONSTANTS
  Slot,           \* entries of the Managers' state and renewal maps
  CertKey,        \* names under which certificates are cached
  KeyOf,          \* the cache name of a slot, certKey.String
  Permitted,      \* slots whose Manager's HostPolicy accepts the host
  Call,           \* goroutines that run GetCertificate
  State,          \* addresses of certState objects
  PrivKey,        \* private keys
  None, Failed,   \* nil, and an error that is not ErrCacheMiss
  Lifetimes,      \* validities of the certificates the CA issues
  RenewBefore,    \* Manager.renewBefore()
  RenewJitter,    \* renewJitter
  CacheMayFail,   \* whether cache reads and writes may fail
  MaxLate,        \* bound on writes that go on after their contexts have ended
  MaxTime         \* bound on the clock

Leaf == [pub : PrivKey, exp : Nat]          \* x509 leaf: public key, NotAfter
Pair == [key : PrivKey, leaf : Leaf]        \* tls.Certificate
Object == [key : PrivKey \union {None}, leaf : Leaf \union {None},
           wlock : BOOLEAN, locked : BOOLEAN]                   \* certState

ASSUME ConstantsOK ==
  /\ KeyOf \in [Slot -> CertKey]
  /\ Permitted \subseteq Slot
  /\ None \notin State /\ None \notin PrivKey /\ None \notin Leaf
  /\ None \notin Pair /\ Failed \notin Pair /\ Failed # None
  /\ Lifetimes \subseteq Nat /\ RenewBefore \in Nat
  /\ RenewJitter \in Nat \ {0} /\ RenewBefore > RenewJitter
  /\ CacheMayFail \in BOOLEAN /\ MaxLate \in Nat /\ MaxTime \in Nat

VARIABLES
  now,        \* the clock
  cache,      \* the certificate files, which survive a crash
  late,       \* cache writes that go on after their contexts have ended
  state,      \* m.state: the object each slot points to
  heap,       \* the certState objects
  pc,         \* where each call is
  tgt,        \* the slot a call is about
  ptr,        \* the certState a call holds a pointer to
  resp,       \* the certificate a call has obtained, None for an error
  removals,   \* pending createCertRetryAfter timers of each slot
  spawned,    \* goroutines started by "go m.renew" that have not run yet
  renewal     \* m.renewal: the domainRenewal of each slot

callVars == <<pc, tgt, ptr, resp>>
vars == <<now, cache, late, state, heap, callVars, removals, spawned, renewal>>

CallPC == {"idle", "lookup", "read", "miss", "check", "wait", "lead",
           "authorize", "unlock", "put"}
RenewalPhase == {"none", "armed", "get", "adopt", "authorize", "put", "update"}
Renewal == [phase : RenewalPhase, key : PrivKey \union {None}, due : Nat,
            cand : Pair \union {None}, next : Nat, asof : Nat]
NoRenewal == [phase |-> "none", key |-> None, due |-> 0, cand |-> None,
              next |-> 0, asof |-> 0]
LateWrites == [name : CertKey, pair : Pair]
NewObject == [key |-> None, leaf |-> None, wlock |-> FALSE, locked |-> FALSE]

TypeOK ==
  /\ now \in Nat
  /\ cache \in [CertKey -> Pair \union {None}]
  /\ late \subseteq LateWrites
  /\ state \in [Slot -> State \union {None}]
  /\ heap \in [State -> Object]
  /\ pc \in [Call -> CallPC]
  /\ tgt \in [Call -> Slot]
  /\ ptr \in [Call -> State \union {None}]
  /\ resp \in [Call -> Pair \union {None}]
  /\ removals \in [Slot -> Nat]
  /\ spawned \subseteq [slot : Slot, key : PrivKey, exp : Nat]
  /\ renewal \in [Slot -> Renewal]

---------------------------------------------------------------------------
(* Certificates and the cache.                                             *)

\* validCert: the leaf belongs to the key and has not expired.
ValidCert(key, leaf) ==
  /\ leaf # None
  /\ leaf.pub = key
  /\ now <= leaf.exp

\* What the CA may issue for a key.  validCert, authorizedCert's last step, takes
\* every certificate that has not expired, however short its validity.
Issued(key) == {[pub |-> key, exp |-> now + l] : l \in Lifetimes}

PairOf(o) == [key |-> o.key, leaf |-> o.leaf]

\* Mutant: certState.tlscert without its error for a missing certificate.
TLSCert_Unchecked(o) == PairOf(o)

\* certState.tlscert: an error when the object has no certificate.
TLSCert(o) == IF o.leaf = None THEN None ELSE PairOf(o)

\* The results m.cacheGet may have: the stored pair, None for ErrCacheMiss,
\* Failed for another error.  dbCertCache.Get answers ErrCacheMiss both for an
\* absent file and for a file it could not read.
CacheGet(k) ==
  {IF cache[k] # None /\ ValidCert(cache[k].key, cache[k].leaf)
     THEN cache[k] ELSE None}
  \union (IF CacheMayFail THEN {None, Failed} ELSE {})

\* The outcomes of m.cachePut.  It returns nil when the file is written, and may
\* do so when nothing is (the race of AckedIsWritten in FileDatabase); it returns
\* an error when nothing is written, when the file is written all the same, or
\* while the write goes on (its context ended first).
CachePut(k, pair, ok) ==
  \/ /\ ok \/ CacheMayFail
     /\ cache' = [cache EXCEPT ![k] = pair]
     /\ UNCHANGED late
  \/ /\ CacheMayFail
     /\ UNCHANGED <<cache, late>>
  \/ /\ ~ok /\ CacheMayFail /\ Cardinality(late) < MaxLate
     /\ late' = late \union {[name |-> k, pair |-> pair]}
     /\ UNCHANGED cache

\* Mutant: next forgets RenewBefore.
NextDelay_NoMargin(exp) ==
  {IF exp - now - n < 0 THEN 0 ELSE exp - now - n : n \in 0 .. RenewJitter - 1}

\* Delays domainRenewal.next may return: until RenewBefore ahead of expiry, less
\* a random part of renewJitter, and never negative.
NextDelay(exp) ==
  {IF exp - now - RenewBefore - n < 0 THEN 0 ELSE exp - now - RenewBefore - n :
     n \in 0 .. RenewJitter - 1}

\* Delays after a failed renewal: renewJitter/2 plus at most as much again.
RetryDelay == RenewJitter \div 2 .. RenewJitter

---------------------------------------------------------------------------
(* Memory: an address is free when neither a map nor a call refers to it.  *)

Referenced == {state[s] : s \in Slot} \union {ptr[c] : c \in Call}
FreeState == State \ Referenced

KeysInUse ==
  {heap[a].key : a \in State \ FreeState}
  \union {cache[k].key : k \in {j \in CertKey : cache[j] # None}}
  \union {resp[c].key : c \in {d \in Call : pc[d] # "idle" /\ resp[d] # None}}
  \union {w.pair.key : w \in late}
  \union {renewal[s].key : s \in Slot}
  \union {g.key : g \in spawned}

Init ==
  /\ now = 0
  /\ cache = [k \in CertKey |-> None]
  /\ late = {}
  /\ state = [s \in Slot |-> None]
  /\ heap = [a \in State |-> NewObject]
  /\ pc = [c \in Call |-> "idle"]
  /\ tgt \in [Call -> Slot]
  /\ ptr = [c \in Call |-> None]
  /\ resp = [c \in Call |-> None]
  /\ removals = [s \in Slot |-> 0]
  /\ spawned = {}
  /\ renewal = [s \in Slot |-> NoRenewal]

---------------------------------------------------------------------------
(* GetCertificate.                                                         *)

\* Leave a call with an answer (None for an error), dropping its pointer.
Return(c, answer) ==
  /\ pc' = [pc EXCEPT ![c] = "idle"]
  /\ ptr' = [ptr EXCEPT ![c] = None]
  /\ resp' = [resp EXCEPT ![c] = answer]
  /\ UNCHANGED tgt

Goto(c, label) == pc' = [pc EXCEPT ![c] = label]

Begin(c, s) ==
  /\ pc[c] = "idle"
  /\ Goto(c, "lookup")
  /\ tgt' = [tgt EXCEPT ![c] = s]
  /\ resp' = [resp EXCEPT ![c] = None]
  /\ UNCHANGED <<now, cache, late, state, heap, ptr, removals, spawned, renewal>>

\* m.cert finds an entry in m.state.
LookupEntry(c) ==
  /\ pc[c] = "lookup"
  /\ state[tgt[c]] # None
  /\ Goto(c, "read")
  /\ ptr' = [ptr EXCEPT ![c] = state[tgt[c]]]
  /\ UNCHANGED <<now, cache, late, state, heap, tgt, resp, removals, spawned, renewal>>

\* Mutant: an entry loaded from the cache is not scheduled for renewal.
LookupCacheHit_NoRenewal(c) ==
  /\ pc[c] = "lookup"
  /\ state[tgt[c]] = None
  /\ \E pair \in CacheGet(KeyOf[tgt[c]]) \ {None, Failed}, a \in FreeState :
       /\ heap' = [heap EXCEPT ![a] = [key |-> pair.key, leaf |-> pair.leaf,
                                       wlock |-> FALSE, locked |-> FALSE]]
       /\ state' = [state EXCEPT ![tgt[c]] = a]
       /\ Return(c, pair)
  /\ UNCHANGED <<now, cache, late, removals, spawned, renewal>>

\* m.cert has no entry and fills it from the cache.
LookupCacheHit(c) ==
  /\ pc[c] = "lookup"
  /\ state[tgt[c]] = None
  /\ \E pair \in CacheGet(KeyOf[tgt[c]]) \ {None, Failed}, a \in FreeState :
       /\ heap' = [heap EXCEPT ![a] = [key |-> pair.key, leaf |-> pair.leaf,
                                       wlock |-> FALSE, locked |-> FALSE]]
       /\ state' = [state EXCEPT ![tgt[c]] = a]
       /\ spawned' = spawned \union {[slot |-> tgt[c], key |-> pair.key,
                                      exp |-> pair.leaf.exp]}
       /\ Return(c, pair)
  /\ UNCHANGED <<now, cache, late, removals, renewal>>

\* m.cert has no entry and no usable cached certificate.
LookupCacheMiss(c) ==
  /\ pc[c] = "lookup"
  /\ state[tgt[c]] = None
  /\ \/ None \in CacheGet(KeyOf[tgt[c]]) /\ Goto(c, "miss")
                                         /\ UNCHANGED <<tgt, ptr, resp>>
     \/ Failed \in CacheGet(KeyOf[tgt[c]]) /\ Return(c, None)
  /\ UNCHANGED <<now, cache, late, state, heap, removals, spawned, renewal>>

\* m.cert waits for the object's read lock, then answers with what it holds.
ReadEntry(c) ==
  /\ pc[c] = "read"
  /\ ~heap[ptr[c]].wlock
  /\ Return(c, TLSCert(heap[ptr[c]]))
  /\ UNCHANGED <<now, cache, late, state, heap, removals, spawned, renewal>>

\* The host policy rejects a name that has no certificate yet.
RejectHost(c) ==
  /\ pc[c] = "miss"
  /\ tgt[c] \notin Permitted
  /\ Return(c, None)
  /\ UNCHANGED <<now, cache, late, state, heap, removals, spawned, renewal>>

\* m.certState returns the entry another call has made meanwhile.
FindState(c) ==
  /\ pc[c] = "miss"
  /\ tgt[c] \in Permitted
  /\ state[tgt[c]] # None
  /\ Goto(c, "check")
  /\ ptr' = [ptr EXCEPT ![c] = state[tgt[c]]]
  /\ UNCHANGED <<now, cache, late, state, heap, tgt, resp, removals, spawned, renewal>>

\* Mutant: the host policy is not asked before an object is made.
MakeState_AnyHost(c) ==
  /\ pc[c] = "miss"
  /\ state[tgt[c]] = None
  /\ \E a \in FreeState, key \in PrivKey \ KeysInUse :
       /\ heap' = [heap EXCEPT ![a] = [key |-> key, leaf |-> None,
                                       wlock |-> TRUE, locked |-> TRUE]]
       /\ state' = [state EXCEPT ![tgt[c]] = a]
       /\ ptr' = [ptr EXCEPT ![c] = a]
  /\ Goto(c, "check")
  /\ UNCHANGED <<now, cache, late, tgt, resp, removals, spawned, renewal>>

\* m.certState makes a new object, with a new key, locked for writing.
MakeState(c) ==
  /\ pc[c] = "miss"
  /\ tgt[c] \in Permitted
  /\ state[tgt[c]] = None
  /\ \E a \in FreeState, key \in PrivKey \ KeysInUse :
       /\ heap' = [heap EXCEPT ![a] = [key |-> key, leaf |-> None,
                                       wlock |-> TRUE, locked |-> TRUE]]
       /\ state' = [state EXCEPT ![tgt[c]] = a]
       /\ ptr' = [ptr EXCEPT ![c] = a]
  /\ Goto(c, "check")
  /\ UNCHANGED <<now, cache, late, tgt, resp, removals, spawned, renewal>>

\* createCert reads state.locked, holding neither stateMu nor the object's lock.
CheckLocked(c) ==
  /\ pc[c] = "check"
  /\ Goto(c, IF heap[ptr[c]].locked THEN "lead" ELSE "wait")
  /\ UNCHANGED <<now, cache, late, state, heap, tgt, ptr, resp,
                 removals, spawned, renewal>>

\* The call that saw locked = TRUE takes the lead and clears the flag.
TakeLead(c) ==
  /\ pc[c] = "lead"
  /\ heap' = [heap EXCEPT ![ptr[c]].locked = FALSE]
  /\ Goto(c, "authorize")
  /\ UNCHANGED <<now, cache, late, state, tgt, ptr, resp, removals, spawned, renewal>>

\* A follower of createCert waits for the read lock.
ReadCreated(c) ==
  /\ pc[c] = "wait"
  /\ ~heap[ptr[c]].wlock
  /\ IF heap[ptr[c]].leaf = None
       THEN Return(c, None)
       ELSE /\ Goto(c, "put")
            /\ ptr' = [ptr EXCEPT ![c] = None]
            /\ resp' = [resp EXCEPT ![c] = PairOf(heap[ptr[c]])]
            /\ UNCHANGED tgt
  /\ UNCHANGED <<now, cache, late, state, heap, removals, spawned, renewal>>

\* authorizedCert succeeds: the object gets its certificate, a renewal goroutine
\* is started, and the answer is read from the object.
Authorized(c) ==
  /\ pc[c] = "authorize"
  /\ LET key == heap[ptr[c]].key
     IN \E leaf \in Issued(key) :
          /\ heap' = [heap EXCEPT ![ptr[c]].leaf = leaf]
          /\ spawned' = spawned \union {[slot |-> tgt[c], key |-> key,
                                         exp |-> leaf.exp]}
          /\ resp' = [resp EXCEPT ![c] = [key |-> key, leaf |-> leaf]]
  /\ Goto(c, "unlock")
  /\ UNCHANGED <<now, cache, late, state, tgt, ptr, removals, renewal>>

\* Mutant: a failed leader returns without unlocking the object.
AuthorizeFailed_NoUnlock(c) ==
  /\ pc[c] = "authorize"
  /\ removals' = [removals EXCEPT ![tgt[c]] = @ + 1]
  /\ Return(c, None)
  /\ UNCHANGED <<now, cache, late, state, heap, spawned, renewal>>

\* Mutant: a failed leader sets no timer.
AuthorizeFailed_NoTimer(c) ==
  /\ pc[c] = "authorize"
  /\ Goto(c, "unlock")
  /\ UNCHANGED <<now, cache, late, state, heap, tgt, ptr, resp, removals, spawned,
                 renewal>>

\* authorizedCert fails: the object is left without certificate and a timer is
\* set to remove it.
AuthorizeFailed(c) ==
  /\ pc[c] = "authorize"
  /\ removals' = [removals EXCEPT ![tgt[c]] = @ + 1]
  /\ Goto(c, "unlock")
  /\ UNCHANGED <<now, cache, late, state, heap, tgt, ptr, resp, spawned, renewal>>

\* createCert's deferred Unlock; only a call with a certificate goes on to
\* m.cachePut.
Unlock(c) ==
  /\ pc[c] = "unlock"
  /\ heap[ptr[c]].wlock
  /\ heap' = [heap EXCEPT ![ptr[c]].wlock = FALSE]
  /\ ptr' = [ptr EXCEPT ![c] = None]
  /\ Goto(c, IF resp[c] = None THEN "idle" ELSE "put")
  /\ UNCHANGED <<now, cache, late, state, tgt, resp, removals, spawned, renewal>>

\* GetCertificate stores what createCert returned and ignores an error.
PutAndReturn(c) ==
  /\ pc[c] = "put"
  /\ \E ok \in BOOLEAN : CachePut(KeyOf[tgt[c]], resp[c], ok)
  /\ Goto(c, "idle")
  /\ UNCHANGED <<now, state, heap, tgt, ptr, resp, removals, spawned, renewal>>

---------------------------------------------------------------------------
(* The timer that removes a failed entry, and the process itself.          *)

\* Mutant: the timer's test of the certificate is inverted.
RemoveFailed_Inverted(s) ==
  /\ removals[s] > 0
  /\ removals' = [removals EXCEPT ![s] = @ - 1]
  /\ state' = IF state[s] # None
                 /\ ValidCert(heap[state[s]].key, heap[state[s]].leaf)
                THEN [state EXCEPT ![s] = None] ELSE state
  /\ UNCHANGED <<now, cache, late, heap, callVars, spawned, renewal>>

\* The createCertRetryAfter callback: it looks the slot up anew, and deletes the
\* entry unless its certificate is valid.
RemoveFailed(s) ==
  /\ removals[s] > 0
  /\ removals' = [removals EXCEPT ![s] = @ - 1]
  /\ state' = IF state[s] = None
                 \/ ValidCert(heap[state[s]].key, heap[state[s]].leaf)
                THEN state ELSE [state EXCEPT ![s] = None]
  /\ UNCHANGED <<now, cache, late, heap, callVars, spawned, renewal>>

\* The process ends and is started again: only the cache files remain.
Restart ==
  /\ state' = [s \in Slot |-> None]
  /\ heap' = [a \in State |-> NewObject]
  /\ pc' = [c \in Call |-> "idle"]
  /\ ptr' = [c \in Call |-> None]
  /\ resp' = [c \in Call |-> None]
  /\ removals' = [s \in Slot |-> 0]
  /\ spawned' = {}
  /\ renewal' = [s \in Slot |-> NoRenewal]
  /\ late' = {}
  /\ UNCHANGED <<now, cache, tgt>>

\* RWMutex.Unlock of an unlocked RWMutex is a fatal error of the Go runtime.
FatalUnlock(c) ==
  /\ pc[c] = "unlock"
  /\ ~heap[ptr[c]].wlock
  /\ Restart

---------------------------------------------------------------------------
(* Renewal: m.renew and the timer loop of a domainRenewal.                 *)

Armed(key, due) == [phase |-> "armed", key |-> key, due |-> due, cand |-> None,
                    next |-> 0, asof |-> 0]

\* A goroutine started by "go m.renew" runs: it starts the slot's timer unless
\* the slot has a domainRenewal already.
StartRenewal(g) ==
  /\ g \in spawned
  /\ spawned' = spawned \ {g}
  /\ IF renewal[g.slot].phase # "none"
       THEN UNCHANGED renewal
       ELSE \E d \in NextDelay(g.exp) :
              renewal' = [renewal EXCEPT ![g.slot] = Armed(g.key, now + d)]
  /\ UNCHANGED <<now, cache, late, state, heap, callVars, removals>>

\* The timer fires.
FireRenewal(s) ==
  /\ renewal[s].phase = "armed"
  /\ now >= renewal[s].due
  /\ renewal' = [renewal EXCEPT ![s].phase = "get"]
  /\ UNCHANGED <<now, cache, late, state, heap, callVars, removals, spawned>>

\* Mutant: any valid cached certificate is adopted.
RenewalGet_AnyValid(s) ==
  /\ renewal[s].phase = "get"
  /\ \E found \in CacheGet(KeyOf[s]) :
       IF found \in {None, Failed}
         THEN renewal' = [renewal EXCEPT ![s].phase = "authorize"]
         ELSE \E d \in NextDelay(found.leaf.exp) :
                renewal' = [renewal EXCEPT ![s] =
                  [@ EXCEPT !.phase = "adopt", !.cand = found,
                            !.next = d, !.asof = now]]
  /\ UNCHANGED <<now, cache, late, state, heap, callVars, removals, spawned>>

\* domainRenewal.do looks for a certificate that another process or Manager has
\* renewed; it takes it when its own renewal lies far enough ahead.  The delay of
\* the next renewal is computed now (asof) and used when updateState is done.
RenewalGet(s) ==
  /\ renewal[s].phase = "get"
  /\ \E found \in CacheGet(KeyOf[s]) :
       IF found \in {None, Failed}
         THEN renewal' = [renewal EXCEPT ![s].phase = "authorize"]
         ELSE \E d \in NextDelay(found.leaf.exp) :
                IF d > RenewBefore + RenewJitter
                  THEN renewal' = [renewal EXCEPT ![s] =
                         [@ EXCEPT !.phase = "adopt", !.cand = found,
                                   !.next = d, !.asof = now]]
                  ELSE renewal' = [renewal EXCEPT ![s].phase = "authorize"]
  /\ UNCHANGED <<now, cache, late, state, heap, callVars, removals, spawned>>

\* Mutant: a renewal uses a new key.
RenewalAuthorized_NewKey(s) ==
  /\ renewal[s].phase = "authorize"
  /\ \E key \in PrivKey \ KeysInUse : \E leaf \in Issued(key) :
       renewal' = [renewal EXCEPT ![s].phase = "put",
                                  ![s].cand = [key |-> key, leaf |-> leaf]]
  /\ UNCHANGED <<now, cache, late, state, heap, callVars, removals, spawned>>

\* Otherwise it asks the CA for a new certificate for the key it has.
RenewalAuthorized(s) ==
  /\ renewal[s].phase = "authorize"
  /\ \E leaf \in Issued(renewal[s].key) :
       renewal' = [renewal EXCEPT ![s] =
         [@ EXCEPT !.phase = "put",
                   !.cand = [key |-> renewal[s].key, leaf |-> leaf]]]
  /\ UNCHANGED <<now, cache, late, state, heap, callVars, removals, spawned>>

RetryRenewal(s) ==
  \E d \in RetryDelay :
    renewal' = [renewal EXCEPT ![s] = Armed(renewal[s].key, now + d)]

RenewalFailed(s) ==
  /\ renewal[s].phase = "authorize"
  /\ RetryRenewal(s)
  /\ UNCHANGED <<now, cache, late, state, heap, callVars, removals, spawned>>

RenewalPut(s) ==
  /\ renewal[s].phase = "put"
  /\ \/ /\ CachePut(KeyOf[s], renewal[s].cand, TRUE)
        /\ renewal' = [renewal EXCEPT ![s].phase = "update"]
     \/ /\ CachePut(KeyOf[s], renewal[s].cand, FALSE)
        /\ RetryRenewal(s)
  /\ UNCHANGED <<now, state, heap, callVars, removals, spawned>>

\* Mutant: updateState pairs an adopted certificate with the renewal's own key.
RenewalUpdate_OwnKey(s) ==
  /\ renewal[s].phase \in {"adopt", "update"}
  /\ \E a \in FreeState, d \in NextDelay(renewal[s].cand.leaf.exp) :
       /\ heap' = [heap EXCEPT ![a] = [key    |-> renewal[s].key,
                                       leaf   |-> renewal[s].cand.leaf,
                                       wlock  |-> FALSE, locked |-> FALSE]]
       /\ state' = [state EXCEPT ![s] = a]
       /\ renewal' = [renewal EXCEPT ![s] = Armed(renewal[s].key, now + d)]
  /\ UNCHANGED <<now, cache, late, callVars, removals, spawned>>

\* updateState gets stateMu, for which it may have waited long (m.cert holds it
\* while it reads the cache): a new object replaces the entry, the loop goes on
\* with its key, and the timer is set with the delay of an adopted certificate
\* as it was computed before, or with one computed now.
RenewalUpdate(s) ==
  /\ renewal[s].phase \in {"adopt", "update"}
  /\ LET cand == renewal[s].cand
     IN /\ \E a \in FreeState :
             /\ heap' = [heap EXCEPT ![a] = [key |-> cand.key, leaf |-> cand.leaf,
                                             wlock |-> FALSE, locked |-> FALSE]]
             /\ state' = [state EXCEPT ![s] = a]
        /\ IF renewal[s].phase = "adopt"
             THEN renewal' = [renewal EXCEPT ![s] =
                                Armed(cand.key, now + renewal[s].next)]
             ELSE \E d \in NextDelay(cand.leaf.exp) :
                    renewal' = [renewal EXCEPT ![s] = Armed(cand.key, now + d)]
  /\ UNCHANGED <<now, cache, late, callVars, removals, spawned>>

---------------------------------------------------------------------------
\* A write that its caller has given up takes effect.
LateWrite(w) ==
  /\ w \in late
  /\ late' = late \ {w}
  /\ cache' = [cache EXCEPT ![w.name] = w.pair]
  /\ UNCHANGED <<now, state, heap, callVars, removals, spawned, renewal>>

Tick ==
  /\ now < MaxTime
  /\ now' = now + 1
  /\ UNCHANGED <<cache, late, state, heap, callVars, removals, spawned, renewal>>

CallStep(c) ==
  \/ LookupEntry(c) \/ LookupCacheHit(c) \/ LookupCacheMiss(c) \/ ReadEntry(c)
  \/ RejectHost(c) \/ FindState(c) \/ MakeState(c) \/ CheckLocked(c)
  \/ TakeLead(c) \/ ReadCreated(c) \/ Authorized(c) \/ AuthorizeFailed(c)
  \/ Unlock(c) \/ FatalUnlock(c) \/ PutAndReturn(c)

RenewalStep(s) ==
  \/ FireRenewal(s) \/ RenewalGet(s) \/ RenewalAuthorized(s)
  \/ RenewalFailed(s) \/ RenewalPut(s) \/ RenewalUpdate(s)

Next ==
  \/ \E c \in Call : \/ \E s \in Slot : Begin(c, s)
                     \/ CallStep(c)
  \/ \E s \in Slot : RemoveFailed(s) \/ RenewalStep(s)
  \/ \E g \in spawned : StartRenewal(g)
  \/ \E w \in late : LateWrite(w)
  \/ Restart
  \/ Tick

Spec == Init /\ [][Next]_vars

\* Goroutines that can run do run, timers that are due fire, and a conversation
\* with the CA ends, by its context's deadline at the latest.  Calls are not
\* forced to begin, the process not to crash, the CA not to succeed.
Fairness ==
  /\ \A c \in Call : WF_vars(CallStep(c))
  /\ \A s \in Slot : WF_vars(RenewalStep(s)) /\ WF_vars(RemoveFailed(s))
  /\ WF_vars(\E g \in spawned : StartRenewal(g))

FairSpec == Spec /\ Fairness

---------------------------------------------------------------------------
(* What the Managers promise.                                              *)

Leading(c) == pc[c] \in {"lead", "authorize", "unlock"}
HasLeaf(s) == state[s] # None /\ heap[state[s]].leaf # None
EntryExp(s) == heap[state[s]].leaf.exp
EntryKey(s) == heap[state[s]].key

\* Two calls lead on one object, or did and one of them has unlocked it: the
\* process is certain to die in FatalUnlock (OneVerifier shows how this comes
\* about).  Some promises below are made only as long as this is not so.
Doomed ==
  \E c \in Call : /\ Leading(c)
                  /\ \/ ~heap[ptr[c]].wlock
                     \/ \E d \in Call \ {c} : Leading(d) /\ ptr[d] = ptr[c]

\* A certificate is never paired with a key it was not issued for: not in the
\* cache, not in an object, not in an answer, and not in a renewal's hands,
\* although the key of a slot's renewal changes when it adopts a certificate
\* that another Manager has stored (domainRenewal.updateState).
KeysMatch ==
  /\ \A k \in CertKey : cache[k] # None => cache[k].leaf.pub = cache[k].key
  /\ \A w \in late : w.pair.leaf.pub = w.pair.key
  /\ \A a \in State : heap[a].leaf # None => heap[a].leaf.pub = heap[a].key
  /\ \A c \in Call : resp[c] # None => resp[c].leaf.pub = resp[c].key
  /\ \A s \in Slot :
       renewal[s].cand # None => renewal[s].cand.leaf.pub = renewal[s].cand.key

\* Nobody waits for a lock without an owner: whoever holds a write-locked
\* certState is followed by a call that is bound to unlock it, or by the call
\* that made it and has yet to take the lead (createCert's deferred Unlock).
LockedHasOwner ==
  \A a \in State : heap[a].wlock =>
    \E c \in Call : /\ ptr[c] = a
                    /\ \/ Leading(c)
                       \/ pc[c] = "check" /\ heap[a].locked

\* A failed entry does not block its host for good: as long as an entry has no
\* certificate, either a call is working on it or a timer will remove it
\* (createCert's AfterFunc), whatever other calls do.
FailedIsScheduled ==
  \A s \in Slot : state[s] # None /\ ~HasLeaf(s) =>
    \/ removals[s] > 0
    \/ \E c \in Call : /\ ptr[c] = state[s]
                       /\ \/ pc[c] \in {"lead", "authorize"}
                          \/ pc[c] = "check" /\ heap[state[s]].locked

\* Every certificate that is served is renewed: whichever path put it in m.state,
\* a renewal loop runs for the slot or a goroutine is about to start one.
ServedIsRenewed ==
  \A s \in Slot : HasLeaf(s) =>
    \/ renewal[s].phase # "none"
    \/ \E g \in spawned : g.slot = s

\* How long ago the delay was computed with which a renewal sets its timer: the
\* time that updateState has waited for stateMu, or none.
Waited(s) == IF renewal[s].phase = "adopt" THEN now - renewal[s].asof ELSE 0

\* Whenever a timer of domainRenewal is set, by start, after a renewal, an adoption
\* or a failure, the slot serves a certificate, and the timer is due RenewBefore
\* ahead of that certificate's expiry at the latest, not counting the time that
\* updateState has waited for stateMu, or it is a retry within renewJitter.
RenewalInTime ==
  [][Doomed \/ \A s \in Slot :
       renewal[s].phase # "armed" /\ renewal'[s].phase = "armed" =>
         /\ HasLeaf(s)'
         /\ \/ renewal'[s].due - Waited(s) <= EntryExp(s)' - RenewBefore
            \/ renewal'[s].due <= now + RenewJitter]_vars

\* A valid certificate that is being served is never dropped while the process
\* runs, and nothing replaces it by one that expires earlier (the removal timer,
\* updateState and the completion of createCert all may replace it), with one
\* exception: a loop's own renewal takes what the CA issues.  Even so, what is lost
\* is less than that certificate's validity falls short of the renewal window,
\* and nothing when it does not.
NoDowngrade ==
  [][Restart \/ Doomed \/ \A s \in Slot :
       (HasLeaf(s) /\ now <= EntryExp(s)) =>
         /\ HasLeaf(s)'
         /\ \/ EntryExp(s)' >= EntryExp(s)
            \/ /\ renewal[s].phase = "update"
               /\ \E l \in Lifetimes :
                    EntryExp(s)' + RenewBefore + RenewJitter > EntryExp(s) + l]_vars

\* A slot that serves a certificate goes on serving the same key while the process
\* runs, whatever fails in between; only a renewal that adopts what another Manager
\* has stored under the same cache name may change it.
KeyStable ==
  [][Restart \/ Doomed \/ \A s \in Slot :
       HasLeaf(s) => /\ HasLeaf(s)'
                     /\ EntryKey(s)' = EntryKey(s) \/ renewal[s].phase = "adopt"]_vars

\* Every call of GetCertificate is answered, whether it leads, follows a leader,
\* or reads an entry that is being created.
CallReturns == \A c \in Call : pc[c] # "idle" ~> pc[c] = "idle"

\* An entry without certificate gets one or is forgotten, so that a later
\* handshake tries again.
FailedIsForgotten ==
  \A s \in Slot : (state[s] # None /\ ~HasLeaf(s)) ~> (state[s] = None \/ HasLeaf(s))

\* A Manager whose policy refuses a host never lets a handshake for it wait and
\* never remembers a failure for it: it serves what another Manager has stored
\* in the shared cache, or answers with the policy's error.
RefusedHostNeverBlocks ==
  \A s \in Slot \ Permitted :
    /\ removals[s] = 0
    /\ state[s] # None => HasLeaf(s) /\ ~heap[state[s]].wlock

---------------------------------------------------------------------------
(* Inductive strengthenings of the invariants.                             *)

\* A call holds a pointer exactly while it works on an object; objects in use
\* and renewals that run have a key; a certificate is at hand when it is needed.
Shape ==
  /\ \A c \in Call : ptr[c] # None <=>
       pc[c] \in {"read", "check", "wait", "lead", "authorize", "unlock"}
  /\ \A c \in Call : ptr[c] # None => heap[ptr[c]].key # None
  /\ \A s \in Slot : state[s] # None => heap[state[s]].key # None
  /\ \A c \in Call : pc[c] = "put" => resp[c] # None
  /\ \A s \in Slot : renewal[s].phase # "none" => renewal[s].key # None
  /\ \A s \in Slot :
       renewal[s].phase \in {"adopt", "put", "update"} => renewal[s].cand # None

TypeInv == TypeOK /\ Shape

\* An object belongs to one slot, and a call that works on a slot's entry is
\* about that slot.
OwnSlot ==
  /\ \A s, t \in Slot : state[s] = state[t] /\ state[s] # None => s = t
  /\ \A c \in Call, s \in Slot : ptr[c] = state[s] /\ ptr[c] # None => tgt[c] = s

\* A leader works on the entry of its slot, which has no certificate yet; whoever
\* still finds the entry's flag set will be the first leader.
CreationOK ==
  /\ \A a \in State : heap[a].locked => heap[a].leaf = None
  /\ \A c \in Call :
       /\ pc[c] \in {"lead", "authorize"}
            => state[tgt[c]] = ptr[c] /\ heap[ptr[c]].leaf = None
       /\ pc[c] = "check" /\ heap[ptr[c]].locked => state[tgt[c]] = ptr[c]
       /\ pc[c] = "lead" => heap[ptr[c]].locked
       /\ pc[c] \in {"authorize", "unlock"} => ~heap[ptr[c]].locked

\* A removal timer is set once, for an entry that has failed and stays as it is.
RemovalsOK ==
  \A s \in Slot : removals[s] > 0 =>
    /\ removals[s] = 1 /\ state[s] # None
    /\ heap[state[s]].leaf = None /\ ~heap[state[s]].locked
    /\ \A c \in Call : pc[c] \in {"lead", "authorize"} => ptr[c] # state[s]

\* A renewal loop, or a goroutine about to start one, is about the certificate that
\* its slot serves: it has that key, its timer is not set so early that another
\* Manager's certificate could be taken in exchange for a later one, what it adopts
\* expires no earlier and is renewed in time, and what the CA has issued to it
\* makes up for all but the renewal window.
LoopOK(s) ==
  LET r == renewal[s] IN
  /\ \A g \in spawned : g.slot = s =>
       /\ HasLeaf(s)
       /\ r.phase = "none" => g.key = EntryKey(s) /\ g.exp = EntryExp(s)
  /\ r.phase # "none" => HasLeaf(s) /\ r.key = EntryKey(s)
  /\ r.phase = "armed" => EntryExp(s) < r.due + RenewBefore + RenewJitter
  /\ r.phase \in {"get", "authorize", "put"} =>
       EntryExp(s) < now + RenewBefore + RenewJitter
  /\ r.phase = "adopt" =>
       /\ r.asof <= now
       /\ r.asof + r.next <= r.cand.leaf.exp - RenewBefore
       /\ r.cand.leaf.exp < r.asof + r.next + RenewBefore + RenewJitter
       /\ r.cand.leaf.exp >= EntryExp(s)
  /\ r.phase \in {"put", "update"} =>
       /\ r.cand.key = r.key
       /\ \E l \in Lifetimes :
            r.cand.leaf.exp + RenewBefore + RenewJitter > EntryExp(s) + l

Orderly == CreationOK /\ RemovalsOK /\ \A s \in Slot : LoopOK(s)
OrderlyOrDoomed == Doomed \/ Orderly

---------------------------------------------------------------------------
(* What the documentation says, and the code does not keep.                *)

\* createCert: "If the domain is already being verified, it waits for the
\* existing verification to complete."
OneVerifier ==
  \A c, d \in Call : pc[c] = "authorize" /\ pc[d] = "authorize" /\ ptr[c] = ptr[d]
                       => c = d
=============================================================================
