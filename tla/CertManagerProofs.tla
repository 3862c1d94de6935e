------------------------- MODULE CertManagerProofs -------------------------
(* Proofs about CertManager, for any numbers of slots, calls and addresses. *)
EXTENDS CertManager, TLAPS

\* Delays of the renewal timer are natural numbers.
LEMMA DelaysAreNat ==
  ASSUME NEW e \in Nat, now \in Nat
  PROVE  NextDelay(e) \subseteq Nat /\ RetryDelay \subseteq Nat
  BY ConstantsOK DEF NextDelay, RetryDelay

\* What the CA issues and what the cache returns have the right types.
LEMMA CertTypes ==
  ASSUME TypeOK
  PROVE  /\ \A key \in PrivKey : Issued(key) \subseteq Leaf
         /\ \A k \in CertKey : CacheGet(k) \ {None, Failed} \subseteq Pair
  BY ConstantsOK DEF TypeOK, Issued, Leaf, CacheGet

\* Initially every variable has its type, and nobody works.
LEMMA TypeInvInit == Init => TypeInv
<1> SUFFICES ASSUME Init PROVE TypeInv
  OBVIOUS
<1>1. TypeOK
  BY ConstantsOK DEF Init, TypeOK, NewObject, Object, NoRenewal, Renewal,
                     CallPC, RenewalPhase
<1>2. Shape
  BY DEF Init, Shape, Referenced, NoRenewal
<1> QED BY <1>1, <1>2 DEF TypeInv

\* The object a call holds, and the slots' objects, are objects with a key.
LEMMA HeldObject ==
  ASSUME TypeOK, Shape, NEW c \in Call,
         pc[c] \in {"read", "check", "wait", "lead", "authorize", "unlock"}
  PROVE  /\ ptr[c] \in State
         /\ ptr[c] \in Referenced \ {None}
         /\ heap[ptr[c]] \in Object
         /\ heap[ptr[c]].key \in PrivKey
         /\ heap[ptr[c]].leaf # None => PairOf(heap[ptr[c]]) \in Pair
<1>1. ptr[c] \in State /\ ptr[c] \in Referenced \ {None}
  BY ConstantsOK DEF TypeOK, Shape, Referenced
<1>2. heap[ptr[c]] \in Object /\ heap[ptr[c]].key \in PrivKey
  BY <1>1 DEF TypeOK, Shape, Object
<1> QED BY <1>1, <1>2 DEF Object, PairOf, Pair

\* What a renewal has when it is under way.
LEMMA RenewalAtHand ==
  ASSUME TypeOK, Shape, NEW s \in Slot
  PROVE  /\ renewal[s] \in Renewal
         /\ renewal[s].phase # "none" => renewal[s].key \in PrivKey
         /\ renewal[s].phase \in {"adopt", "put", "update"}
              => renewal[s].cand \in Pair
BY DEF TypeOK, Shape, Renewal

\* An object filled with a pair, as m.cert and updateState make it.
LEMMA FilledObject ==
  ASSUME NEW pair \in Pair
  PROVE  [key |-> pair.key, leaf |-> pair.leaf, wlock |-> FALSE,
          locked |-> FALSE] \in Object
BY DEF Pair, Object

\* An armed renewal is a renewal.
LEMMA ArmedType ==
  ASSUME NEW key \in PrivKey, NEW due \in Nat
  PROVE  Armed(key, due) \in Renewal
BY DEF Armed, Renewal, RenewalPhase

\* A renewal that is tried again keeps its type.
LEMMA RetryType ==
  ASSUME TypeOK, Shape, NEW s \in Slot, renewal[s].phase # "none", RetryRenewal(s)
  PROVE  renewal' \in [Slot -> Renewal]
BY RenewalAtHand, ArmedType, DelaysAreNat DEF RetryRenewal, TypeOK

\* A renewal that moves on keeps its type.
LEMMA PhaseType ==
  ASSUME TypeOK, NEW s \in Slot, NEW phase \in RenewalPhase,
         renewal' = [renewal EXCEPT ![s].phase = phase]
  PROVE  renewal' \in [Slot -> Renewal]
<1> DEFINE next == [renewal[s] EXCEPT !.phase = phase]
<1>1. next \in Renewal
  BY DEF TypeOK, Renewal
<1>2. renewal' = [renewal EXCEPT ![s] = next]
  BY DEF TypeOK
<1> HIDE DEF next
<1> QED BY <1>1, <1>2 DEF TypeOK

\* What domainRenewal.do makes of its look at the cache: it goes on to the CA, or
\* has a certificate to adopt and the delay that belongs to it.
LEMMA GetResult ==
  ASSUME TypeOK, NEW s \in Slot, RenewalGet(s)
  PROVE  /\ renewal' \in [Slot -> Renewal]
         /\ \A t \in Slot \ {s} : renewal'[t] = renewal[t]
         /\ renewal'[s].key = renewal[s].key
         /\ \/ renewal'[s].phase = "authorize" /\ renewal'[s].cand = renewal[s].cand
            \/ \E found \in CacheGet(KeyOf[s]) \ {None, Failed} :
                 /\ renewal'[s].phase = "adopt" /\ renewal'[s].cand = found
                 /\ renewal'[s].next \in NextDelay(found.leaf.exp)
                 /\ renewal'[s].next > RenewBefore + RenewJitter
                 /\ renewal'[s].asof = now
<1>1. PICK found \in CacheGet(KeyOf[s]) :
        \/ renewal' = [renewal EXCEPT ![s].phase = "authorize"]
        \/ /\ found \notin {None, Failed}
           /\ \E d \in NextDelay(found.leaf.exp) :
                /\ d > RenewBefore + RenewJitter
                /\ renewal' = [renewal EXCEPT ![s] =
                     [@ EXCEPT !.phase = "adopt", !.cand = found,
                               !.next = d, !.asof = now]]
  BY DEF RenewalGet
<1>2. renewal[s] \in Renewal
  BY DEF TypeOK
<1>3. CASE renewal' = [renewal EXCEPT ![s].phase = "authorize"]
  <2>1. renewal' \in [Slot -> Renewal]
    BY <1>3, PhaseType DEF RenewalPhase
  <2> QED BY <1>2, <1>3, <2>1 DEF TypeOK, Renewal
<1>4. ASSUME found \notin {None, Failed}, NEW d \in NextDelay(found.leaf.exp),
             d > RenewBefore + RenewJitter,
             renewal' = [renewal EXCEPT ![s] =
               [@ EXCEPT !.phase = "adopt", !.cand = found, !.next = d, !.asof = now]]
      PROVE  /\ renewal' \in [Slot -> Renewal]
             /\ \A t \in Slot \ {s} : renewal'[t] = renewal[t]
             /\ renewal'[s].key = renewal[s].key
             /\ renewal'[s].phase = "adopt" /\ renewal'[s].cand = found
             /\ renewal'[s].next = d /\ renewal'[s].asof = now
  <2> DEFINE r == [renewal[s] EXCEPT !.phase = "adopt", !.cand = found,
                                     !.next = d, !.asof = now]
  <2>1. found \in Pair /\ found.leaf.exp \in Nat
    <3>1. KeyOf[s] \in CertKey /\ found \in CacheGet(KeyOf[s]) \ {None, Failed}
      BY <1>1, <1>4, ConstantsOK
    <3>2. found \in Pair
      BY <3>1, CertTypes
    <3> QED BY <3>2 DEF Pair, Leaf
  <2>2. d \in Nat /\ now \in Nat
    BY <1>4, <2>1, DelaysAreNat DEF TypeOK
  <2>3. /\ r \in Renewal /\ r.key = renewal[s].key /\ r.phase = "adopt"
        /\ r.cand = found /\ r.next = d /\ r.asof = now
    BY <1>2, <2>1, <2>2 DEF Renewal, RenewalPhase
  <2>4. renewal' = [renewal EXCEPT ![s] = r]
    BY <1>4
  <2> HIDE DEF r
  <2> QED BY <2>3, <2>4 DEF TypeOK
<1> QED BY <1>1, <1>3, <1>4

\* What authorizedCert gives a renewal: a certificate for the key it has.
LEMMA IssueResult ==
  ASSUME TypeOK, Shape, NEW s \in Slot, RenewalAuthorized(s)
  PROVE  /\ renewal' \in [Slot -> Renewal]
         /\ \A t \in Slot \ {s} : renewal'[t] = renewal[t]
         /\ renewal'[s].key = renewal[s].key /\ renewal'[s].phase = "put"
         /\ \E leaf \in Issued(renewal[s].key) :
              /\ leaf \in Leaf
              /\ renewal'[s].cand = [key |-> renewal[s].key, leaf |-> leaf]
              /\ renewal'[s].cand \in Pair
<1>1. PICK leaf \in Issued(renewal[s].key) :
        renewal' = [renewal EXCEPT ![s] =
          [@ EXCEPT !.phase = "put",
                    !.cand = [key |-> renewal[s].key, leaf |-> leaf]]]
  BY DEF RenewalAuthorized
<1> DEFINE pair == [key |-> renewal[s].key, leaf |-> leaf]
           r == [renewal[s] EXCEPT !.phase = "put", !.cand = pair]
<1>2. leaf \in Leaf /\ pair \in Pair
  BY RenewalAtHand, CertTypes DEF RenewalAuthorized, Pair
<1>3. renewal[s] \in Renewal
  BY DEF TypeOK
<1> HIDE DEF pair
<1>4. r \in Renewal /\ r.key = renewal[s].key /\ r.phase = "put" /\ r.cand = pair
  BY <1>2, <1>3 DEF Renewal, RenewalPhase
<1>5. renewal' = [renewal EXCEPT ![s] = r]
  BY <1>1 DEF pair
<1> HIDE DEF r
<1>6. /\ renewal' \in [Slot -> Renewal] /\ renewal'[s] = r
      /\ \A t \in Slot \ {s} : renewal'[t] = renewal[t]
  BY <1>4, <1>5 DEF TypeOK
<1>7. renewal'[s].cand = [key |-> renewal[s].key, leaf |-> leaf]
  BY <1>4, <1>6 DEF pair
<1> QED BY <1>2, <1>4, <1>6, <1>7 DEF pair

\* An object keeps its type when its flag is cleared or its lock released.
LEMMA FlagType ==
  ASSUME TypeOK, NEW a \in State,
         \/ heap' = [heap EXCEPT ![a].locked = FALSE]
         \/ heap' = [heap EXCEPT ![a].wlock = FALSE]
  PROVE  heap' \in [State -> Object]
<1>1. heap[a] \in Object
  BY DEF TypeOK
<1>2. [heap[a] EXCEPT !.locked = FALSE] \in Object
  BY <1>1 DEF Object
<1>3. [heap[a] EXCEPT !.wlock = FALSE] \in Object
  BY <1>1 DEF Object
<1>4. \E o \in Object : heap' = [heap EXCEPT ![a] = o]
  BY <1>2, <1>3 DEF TypeOK
<1> QED BY <1>4 DEF TypeOK

\* Every step preserves the types, one action at a time.
LEMMA TypeOKStep == TypeInv /\ [Next]_vars => TypeOK'
<1> SUFFICES ASSUME TypeOK, Shape, [Next]_vars PROVE TypeOK'
  BY DEF TypeInv
<1>1. ASSUME NEW c \in Call, NEW s \in Slot, Begin(c, s)
      PROVE  TypeOK'
  BY <1>1, ConstantsOK DEF TypeOK, callVars, Begin, Goto, CallPC
<1>2. ASSUME NEW c \in Call, LookupEntry(c)
      PROVE  TypeOK'
  BY <1>2, ConstantsOK DEF TypeOK, callVars, LookupEntry, Goto, CallPC
<1>3. ASSUME NEW c \in Call, LookupCacheHit(c)
      PROVE  TypeOK'
  <2>1. PICK pair \in CacheGet(KeyOf[tgt[c]]) \ {None, Failed}, a \in FreeState :
          /\ heap' = [heap EXCEPT ![a] = [key |-> pair.key, leaf |-> pair.leaf,
                                          wlock |-> FALSE, locked |-> FALSE]]
          /\ state' = [state EXCEPT ![tgt[c]] = a]
          /\ spawned' = spawned \union {[slot |-> tgt[c], key |-> pair.key,
                                         exp |-> pair.leaf.exp]}
          /\ Return(c, pair)
    BY <1>3 DEF LookupCacheHit
  <2>2. pair \in Pair /\ a \in State
    BY CertTypes, ConstantsOK DEF TypeOK, FreeState
  <2>3. heap' \in [State -> Object]
    BY <2>1, <2>2, FilledObject DEF TypeOK
  <2>4. spawned' \subseteq [slot : Slot, key : PrivKey, exp : Nat]
    BY <2>1, <2>2 DEF TypeOK, Pair, Leaf
  <2> QED BY <1>3, <2>1, <2>2, <2>3, <2>4
          DEF LookupCacheHit, TypeOK, Return, CallPC
<1>4. ASSUME NEW c \in Call, LookupCacheMiss(c)
      PROVE  TypeOK'
  BY <1>4, ConstantsOK DEF TypeOK, callVars, LookupCacheMiss, Goto, Return, CallPC
<1>5. ASSUME NEW c \in Call, ReadEntry(c)
      PROVE  TypeOK'
  BY <1>5, HeldObject, ConstantsOK
     DEF ReadEntry, TypeOK, Return, CallPC, TLSCert
<1>6. ASSUME NEW c \in Call, RejectHost(c)
      PROVE  TypeOK'
  BY <1>6, ConstantsOK DEF TypeOK, callVars, RejectHost, Return, CallPC
<1>7. ASSUME NEW c \in Call, FindState(c)
      PROVE  TypeOK'
  BY <1>7, ConstantsOK DEF TypeOK, callVars, FindState, Goto, CallPC
<1>8. ASSUME NEW c \in Call, MakeState(c)
      PROVE  TypeOK'
  <2>1. PICK a \in FreeState, key \in PrivKey \ KeysInUse :
          /\ heap' = [heap EXCEPT ![a] = [key |-> key, leaf |-> None,
                                          wlock |-> TRUE, locked |-> TRUE]]
          /\ state' = [state EXCEPT ![tgt[c]] = a]
          /\ ptr' = [ptr EXCEPT ![c] = a]
    BY <1>8 DEF MakeState
  <2>2. [key |-> key, leaf |-> None, wlock |-> TRUE, locked |-> TRUE] \in Object
    BY DEF Object
  <2>3. heap' \in [State -> Object]
    BY <2>1, <2>2 DEF TypeOK
  <2> QED BY <1>8, <2>1, <2>3 DEF MakeState, TypeOK, Goto, CallPC, FreeState
<1>9. ASSUME NEW c \in Call, CheckLocked(c)
      PROVE  TypeOK'
  BY <1>9, ConstantsOK DEF TypeOK, callVars, CheckLocked, Goto, CallPC
<1>10. ASSUME NEW c \in Call, TakeLead(c)
      PROVE  TypeOK'
  <2>1. heap' \in [State -> Object]
    BY <1>10, HeldObject, FlagType DEF TakeLead
  <2> QED BY <1>10, <2>1 DEF TypeOK, TakeLead, Goto, CallPC
<1>11. ASSUME NEW c \in Call, ReadCreated(c)
      PROVE  TypeOK'
  BY <1>11, HeldObject, ConstantsOK
     DEF ReadCreated, TypeOK, Return, Goto, CallPC
<1>12. ASSUME NEW c \in Call, Authorized(c)
      PROVE  TypeOK'
  <2> DEFINE key == heap[ptr[c]].key
  <2>1. key \in PrivKey /\ ptr[c] \in State /\ heap[ptr[c]] \in Object
    BY <1>12, HeldObject DEF Authorized
  <2>0. PICK leaf \in Issued(key) :
          /\ heap' = [heap EXCEPT ![ptr[c]].leaf = leaf]
          /\ spawned' = spawned \union {[slot |-> tgt[c], key |-> key,
                                         exp |-> leaf.exp]}
          /\ resp' = [resp EXCEPT ![c] = [key |-> key, leaf |-> leaf]]
    BY <1>12 DEF Authorized
  <2>2. leaf \in Leaf /\ leaf.exp \in Nat
    BY <2>1, CertTypes DEF Leaf
  <2>4. heap' \in [State -> Object]
    BY <2>0, <2>1, <2>2 DEF TypeOK, Object
  <2>5. spawned' \subseteq [slot : Slot, key : PrivKey, exp : Nat]
    BY <2>0, <2>1, <2>2 DEF TypeOK
  <2>6. resp' \in [Call -> Pair \union {None}]
    BY <2>0, <2>1, <2>2 DEF TypeOK, Pair
  <2> QED BY <1>12, <2>4, <2>5, <2>6 DEF Authorized, TypeOK, Goto, CallPC
<1>13. ASSUME NEW c \in Call, AuthorizeFailed(c)
      PROVE  TypeOK'
  BY <1>13, ConstantsOK DEF TypeOK, callVars, AuthorizeFailed, Goto, CallPC
<1>14. ASSUME NEW c \in Call, Unlock(c)
      PROVE  TypeOK'
  <2>1. heap' \in [State -> Object]
    BY <1>14, HeldObject, FlagType DEF Unlock
  <2> QED BY <1>14, <2>1 DEF TypeOK, Unlock, Goto, CallPC
<1>15. ASSUME NEW c \in Call, FatalUnlock(c)
      PROVE  TypeOK'
  BY <1>15, ConstantsOK DEF TypeOK, callVars, FatalUnlock, Restart, CallPC, Object, NewObject, NoRenewal, Renewal, RenewalPhase
<1>16. ASSUME NEW c \in Call, PutAndReturn(c)
      PROVE  TypeOK'
  <2>1. resp[c] \in Pair /\ KeyOf[tgt[c]] \in CertKey
    BY <1>16, ConstantsOK DEF PutAndReturn, TypeOK, Shape
  <2> QED BY <1>16, <2>1 DEF TypeOK, PutAndReturn, Goto, CallPC, CachePut, LateWrites
<1>17. ASSUME NEW s \in Slot, RemoveFailed(s)
      PROVE  TypeOK'
  BY <1>17, ConstantsOK DEF TypeOK, callVars, RemoveFailed
<1>18. ASSUME NEW g \in spawned, StartRenewal(g)
      PROVE  TypeOK'
  <2>1. /\ g.slot \in Slot /\ g.key \in PrivKey /\ g.exp \in Nat
        /\ NextDelay(g.exp) \subseteq Nat
    BY DelaysAreNat DEF TypeOK
  <2>2. renewal' \in [Slot -> Renewal]
    BY <1>18, <2>1, ArmedType DEF StartRenewal, TypeOK
  <2> QED BY <1>18, <2>2 DEF StartRenewal, TypeOK, callVars
<1>19. ASSUME NEW s \in Slot, FireRenewal(s)
      PROVE  TypeOK'
  <2>1. renewal' \in [Slot -> Renewal]
    BY <1>19, PhaseType DEF FireRenewal, RenewalPhase
  <2> QED BY <1>19, <2>1 DEF TypeOK, callVars, FireRenewal
<1>20. ASSUME NEW s \in Slot, RenewalGet(s)
      PROVE  TypeOK'
  BY <1>20, GetResult DEF RenewalGet, TypeOK, callVars
<1>21. ASSUME NEW s \in Slot, RenewalAuthorized(s)
      PROVE  TypeOK'
  BY <1>21, IssueResult DEF RenewalAuthorized, TypeOK, callVars
<1>22. ASSUME NEW s \in Slot, RenewalFailed(s)
      PROVE  TypeOK'
  <2>1. renewal' \in [Slot -> Renewal]
    BY <1>22, RetryType DEF RenewalFailed
  <2> QED BY <1>22, <2>1 DEF RenewalFailed, TypeOK, callVars
<1>23. ASSUME NEW s \in Slot, RenewalPut(s)
      PROVE  TypeOK'
  <2>1. cache' \in [CertKey -> Pair \union {None}] /\ late' \subseteq LateWrites
    <3>1. renewal[s].cand \in Pair /\ KeyOf[s] \in CertKey
      BY <1>23, RenewalAtHand, ConstantsOK DEF RenewalPut
    <3> QED BY <1>23, <3>1 DEF RenewalPut, CachePut, TypeOK, LateWrites
  <2>2. renewal' \in [Slot -> Renewal]
    <3>1. CASE renewal' = [renewal EXCEPT ![s].phase = "update"]
      BY <3>1, PhaseType DEF RenewalPhase
    <3>2. CASE RetryRenewal(s)
      BY <1>23, <3>2, RetryType DEF RenewalPut
    <3> QED BY <1>23, <3>1, <3>2 DEF RenewalPut
  <2> QED BY <1>23, <2>1, <2>2 DEF RenewalPut, TypeOK, callVars
<1>24. ASSUME NEW s \in Slot, RenewalUpdate(s)
      PROVE  TypeOK'
  <2> DEFINE cand == renewal[s].cand
  <2>1. cand \in Pair /\ cand.key \in PrivKey /\ cand.leaf.exp \in Nat
    BY <1>24, RenewalAtHand DEF RenewalUpdate, Pair, Leaf
  <2>2. heap' \in [State -> Object] /\ state' \in [Slot -> State \union {None}]
    BY <1>24, <2>1, FilledObject DEF RenewalUpdate, TypeOK, FreeState
  <2>3. renewal' \in [Slot -> Renewal]
    <3>1. NextDelay(cand.leaf.exp) \subseteq Nat /\ renewal[s].next \in Nat
      BY <2>1, DelaysAreNat DEF TypeOK, Renewal
    <3> QED BY <1>24, <2>1, <3>1, ArmedType DEF RenewalUpdate, TypeOK
  <2> QED BY <1>24, <2>2, <2>3 DEF RenewalUpdate, TypeOK, callVars
<1>25. ASSUME Restart
      PROVE  TypeOK'
  BY <1>25, ConstantsOK DEF TypeOK, callVars, Restart, CallPC, Object, NewObject, NoRenewal, Renewal, RenewalPhase
<1>26. ASSUME Tick
      PROVE  TypeOK'
  BY <1>26, ConstantsOK DEF TypeOK, callVars, Tick
<1>27. ASSUME UNCHANGED vars
      PROVE  TypeOK'
  BY <1>27, ConstantsOK DEF TypeOK, callVars, vars
<1>28. ASSUME NEW w \in late, LateWrite(w)
      PROVE  TypeOK'
  BY <1>28 DEF TypeOK, callVars, LateWrite, LateWrites
<1> QED BY <1>1, <1>2, <1>3, <1>4, <1>5, <1>6, <1>7, <1>8, <1>9, <1>10, <1>11, <1>12, <1>13, <1>14, <1>15, <1>16, <1>17, <1>18, <1>19, <1>20, <1>21, <1>22, <1>23, <1>24, <1>25, <1>26, <1>27, <1>28
     DEF Next, CallStep, RenewalStep

\* A free address is not in use, and stays different from every address in use.
LEMMA FreeIsFresh ==
  ASSUME NEW a \in FreeState
  PROVE  /\ a \in State
         /\ \A s \in Slot : state[s] # a
         /\ \A c \in Call : ptr[c] # a
BY DEF FreeState, Referenced

\* Every step preserves the shape of calls and renewals.
LEMMA ShapeStep == TypeInv /\ [Next]_vars => Shape'
<1> SUFFICES ASSUME TypeOK, Shape, [Next]_vars PROVE Shape'
  BY DEF TypeInv
<1>1. ASSUME NEW c \in Call, NEW s \in Slot, Begin(c, s)
      PROVE  Shape'
  BY <1>1, ConstantsOK
     DEF TypeOK, Shape, callVars, Begin, Goto
<1>2. ASSUME NEW c \in Call, LookupEntry(c)
      PROVE  Shape'
  BY <1>2, ConstantsOK
     DEF TypeOK, Shape, callVars, LookupEntry, Goto
<1>3. ASSUME NEW c \in Call, LookupCacheHit(c)
      PROVE  Shape'
  <2>1. PICK pair \in CacheGet(KeyOf[tgt[c]]) \ {None, Failed}, a \in FreeState :
          /\ heap' = [heap EXCEPT ![a] = [key |-> pair.key, leaf |-> pair.leaf,
                                          wlock |-> FALSE, locked |-> FALSE]]
          /\ state' = [state EXCEPT ![tgt[c]] = a]
          /\ Return(c, pair)
    BY <1>3 DEF LookupCacheHit
  <2>2. pair.key # None /\ heap'[a].key = pair.key
    <3>1. pair \in Pair
      BY CertTypes, ConstantsOK DEF TypeOK
    <3>2. pair.key # None
      BY <3>1, ConstantsOK DEF Pair
    <3> QED BY <2>1, <3>2, FreeIsFresh DEF TypeOK
  <2>3. \A b \in State \ {a} : heap'[b] = heap[b]
    BY <2>1 DEF TypeOK
  <2>4. \A d \in Call : ptr'[d] # None => heap'[ptr'[d]].key # None
    BY <2>1, <2>3, FreeIsFresh, ConstantsOK DEF Return, TypeOK, Shape
  <2>5. \A s \in Slot : state'[s] # None => heap'[state'[s]].key # None
    BY <2>1, <2>2, <2>3, FreeIsFresh DEF TypeOK, Shape
  <2>6. \A d \in Call : /\ ptr'[d] # None <=> pc'[d] \in {"read", "check", "wait",
                                               "lead", "authorize", "unlock"}
                        /\ pc'[d] = "put" => resp'[d] # None
    BY <1>3, <2>1 DEF LookupCacheHit, Return, TypeOK, Shape
  <2> QED BY <1>3, <2>4, <2>5, <2>6 DEF LookupCacheHit, Shape
<1>4. ASSUME NEW c \in Call, LookupCacheMiss(c)
      PROVE  Shape'
  BY <1>4, ConstantsOK
     DEF TypeOK, Shape, callVars, LookupCacheMiss, Goto, Return
<1>5. ASSUME NEW c \in Call, ReadEntry(c)
      PROVE  Shape'
  BY <1>5, ConstantsOK
     DEF TypeOK, Shape, callVars, ReadEntry, Return
<1>6. ASSUME NEW c \in Call, RejectHost(c)
      PROVE  Shape'
  BY <1>6, ConstantsOK
     DEF TypeOK, Shape, callVars, RejectHost, Return
<1>7. ASSUME NEW c \in Call, FindState(c)
      PROVE  Shape'
  BY <1>7, ConstantsOK
     DEF TypeOK, Shape, callVars, FindState, Goto
<1>8. ASSUME NEW c \in Call, MakeState(c)
      PROVE  Shape'
  BY <1>8, ConstantsOK, FreeIsFresh
     DEF TypeOK, Shape, callVars, MakeState, Goto
<1>9. ASSUME NEW c \in Call, CheckLocked(c)
      PROVE  Shape'
  BY <1>9, ConstantsOK
     DEF TypeOK, Shape, callVars, CheckLocked, Goto
<1>10. ASSUME NEW c \in Call, TakeLead(c)
      PROVE  Shape'
  BY <1>10, ConstantsOK
     DEF TypeOK, Shape, callVars, TakeLead, Goto
<1>11. ASSUME NEW c \in Call, ReadCreated(c)
      PROVE  Shape'
  <2>1. CASE Return(c, None)
    BY <1>11, <2>1 DEF ReadCreated, Return, TypeOK, Shape
  <2>2. CASE /\ Goto(c, "put")
             /\ ptr' = [ptr EXCEPT ![c] = None]
             /\ resp' = [resp EXCEPT ![c] = PairOf(heap[ptr[c]])]
             /\ heap[ptr[c]].leaf # None
    <3>1. PairOf(heap[ptr[c]]) # None
      BY <1>11, <2>2, HeldObject, ConstantsOK DEF ReadCreated
    <3> QED BY <1>11, <2>2, <3>1 DEF ReadCreated, Goto, TypeOK, Shape
  <2> QED BY <1>11, <2>1, <2>2 DEF ReadCreated
<1>12. ASSUME NEW c \in Call, Authorized(c)
      PROVE  Shape'
  BY <1>12, ConstantsOK
     DEF TypeOK, Shape, callVars, Authorized, Goto
<1>13. ASSUME NEW c \in Call, AuthorizeFailed(c)
      PROVE  Shape'
  BY <1>13, ConstantsOK
     DEF TypeOK, Shape, callVars, AuthorizeFailed, Goto
<1>14. ASSUME NEW c \in Call, Unlock(c)
      PROVE  Shape'
  BY <1>14, ConstantsOK
     DEF TypeOK, Shape, callVars, Unlock, Goto
<1>15. ASSUME NEW c \in Call, FatalUnlock(c)
      PROVE  Shape'
  BY <1>15, ConstantsOK
     DEF TypeOK, Shape, callVars, FatalUnlock, Restart, NoRenewal
<1>16. ASSUME NEW c \in Call, PutAndReturn(c)
      PROVE  Shape'
  BY <1>16, ConstantsOK
     DEF TypeOK, Shape, callVars, PutAndReturn, Goto
<1>17. ASSUME NEW s \in Slot, RemoveFailed(s)
      PROVE  Shape'
  BY <1>17, ConstantsOK
     DEF TypeOK, Shape, callVars, RemoveFailed
<1>18. ASSUME NEW g \in spawned, StartRenewal(g)
      PROVE  Shape'
  <2>1. g.key # None /\ g.slot \in Slot
    BY ConstantsOK DEF TypeOK
  <2>2. \A s \in Slot : \/ renewal'[s] = renewal[s]
                        \/ /\ renewal'[s].phase = "armed"
                           /\ renewal'[s].key # None
    <3>1. CASE UNCHANGED renewal
      BY <3>1
    <3>2. CASE \E due : renewal' = [renewal EXCEPT ![g.slot] = Armed(g.key, due)]
      BY <2>1, <3>2 DEF TypeOK, Armed
    <3> QED BY <1>18, <3>1, <3>2 DEF StartRenewal
  <2> QED BY <1>18, <2>2 DEF StartRenewal, callVars, Shape
<1>19. ASSUME NEW s \in Slot, FireRenewal(s)
      PROVE  Shape'
  BY <1>19, ConstantsOK
     DEF TypeOK, Shape, callVars, FireRenewal
<1>20. ASSUME NEW s \in Slot, RenewalGet(s)
      PROVE  Shape'
  <2>1. renewal[s].key # None /\ UNCHANGED <<ptr, pc, heap, state, resp>>
    BY <1>20 DEF RenewalGet, Shape, callVars
  <2>2. /\ \A t \in Slot \ {s} : renewal'[t] = renewal[t]
        /\ renewal'[s].key = renewal[s].key
        /\ \/ renewal'[s].phase = "authorize"
           \/ renewal'[s].phase = "adopt" /\ renewal'[s].cand # None
    BY <1>20, GetResult
  <2> QED BY <2>1, <2>2 DEF Shape
<1>21. ASSUME NEW s \in Slot, RenewalAuthorized(s)
      PROVE  Shape'
  <2>1. renewal[s].key # None /\ UNCHANGED <<ptr, pc, heap, state, resp>>
    BY <1>21 DEF RenewalAuthorized, Shape, callVars
  <2>2. /\ \A t \in Slot \ {s} : renewal'[t] = renewal[t]
        /\ renewal'[s].key = renewal[s].key /\ renewal'[s].cand # None
    BY <1>21, IssueResult, ConstantsOK
  <2> QED BY <2>1, <2>2 DEF Shape
<1>22. ASSUME NEW s \in Slot, RenewalFailed(s)
      PROVE  Shape'
  BY <1>22, ConstantsOK
     DEF TypeOK, Shape, callVars, RenewalFailed, RetryRenewal, Armed
<1>23. ASSUME NEW s \in Slot, RenewalPut(s)
      PROVE  Shape'
  <2>1. \A t \in Slot \ {s} : renewal'[t] = renewal[t]
    BY <1>23 DEF RenewalPut, RetryRenewal, TypeOK
  <2>2. renewal[s].key # None /\ renewal[s].cand # None
    BY <1>23 DEF RenewalPut, Shape
  <2>3. /\ renewal'[s].key = renewal[s].key
        /\ \/ renewal'[s].phase = "armed"
           \/ renewal'[s].phase = "update" /\ renewal'[s].cand = renewal[s].cand
    <3>1. CASE renewal' = [renewal EXCEPT ![s].phase = "update"]
      BY <3>1, RenewalAtHand DEF TypeOK, Renewal
    <3>2. CASE RetryRenewal(s)
      BY <3>2 DEF RetryRenewal, TypeOK, Armed
    <3> QED BY <1>23, <3>1, <3>2 DEF RenewalPut
  <2> QED BY <1>23, <2>1, <2>2, <2>3 DEF RenewalPut, callVars, Shape
<1>24. ASSUME NEW s \in Slot, RenewalUpdate(s)
      PROVE  Shape'
  <2> DEFINE cand == renewal[s].cand
  <2>1. cand.key # None
    BY <1>24, RenewalAtHand, ConstantsOK DEF RenewalUpdate, Pair
  <2>2. PICK a \in FreeState :
          /\ heap' = [heap EXCEPT ![a] = [key |-> cand.key, leaf |-> cand.leaf,
                                          wlock |-> FALSE, locked |-> FALSE]]
          /\ state' = [state EXCEPT ![s] = a]
    BY <1>24 DEF RenewalUpdate
  <2>3. /\ heap'[a].key # None
        /\ \A b \in State \ {a} : heap'[b] = heap[b]
    BY <2>1, <2>2, FreeIsFresh DEF TypeOK
  <2>4. /\ \A c \in Call : ptr[c] # None => heap'[ptr[c]].key # None
        /\ \A t \in Slot : state'[t] # None => heap'[state'[t]].key # None
    BY <2>2, <2>3, FreeIsFresh DEF TypeOK, Shape
  <2>5. \A t \in Slot : \/ renewal'[t] = renewal[t]
                        \/ /\ renewal'[t].phase = "armed"
                           /\ renewal'[t].key # None
    BY <1>24, <2>1 DEF RenewalUpdate, TypeOK, Armed
  <2> QED BY <1>24, <2>4, <2>5 DEF RenewalUpdate, callVars, Shape
<1>25. ASSUME Restart
      PROVE  Shape'
  BY <1>25, ConstantsOK
     DEF TypeOK, Shape, callVars, Restart, NoRenewal
<1>26. ASSUME Tick
      PROVE  Shape'
  BY <1>26, ConstantsOK
     DEF TypeOK, Shape, callVars, Tick
<1>27. ASSUME UNCHANGED vars
      PROVE  Shape'
  BY <1>27, ConstantsOK
     DEF TypeOK, Shape, callVars, vars
<1>28. ASSUME NEW w \in late, LateWrite(w)
      PROVE  Shape'
  BY <1>28 DEF TypeOK, Shape, callVars, LateWrite
<1> QED BY <1>1, <1>2, <1>3, <1>4, <1>5, <1>6, <1>7, <1>8, <1>9, <1>10, <1>11, <1>12, <1>13, <1>14, <1>15, <1>16, <1>17, <1>18, <1>19, <1>20, <1>21, <1>22, <1>23, <1>24, <1>25, <1>26, <1>27, <1>28
     DEF Next, CallStep, RenewalStep

\* Every variable keeps its type, and the calls and renewals keep the shape their
\* program counters promise.
THEOREM TypeCorrect == Spec => []TypeInv
<1>1. TypeInv /\ [Next]_vars => TypeInv'
  BY TypeOKStep, ShapeStep DEF TypeInv
<1> QED BY TypeInvInit, <1>1, PTL DEF Spec

\* m.cacheGet finds nothing but certificates that belong to their keys.
LEMMA CacheGetMatches ==
  ASSUME NEW k \in CertKey, NEW pair \in CacheGet(k) \ {None, Failed}
  PROVE  pair.leaf.pub = pair.key
BY DEF CacheGet, ValidCert

\* A goroutine that runs m.renew leaves the slot with a renewal loop.
LEMMA StartedRenewal ==
  ASSUME TypeOK, NEW g \in spawned, StartRenewal(g)
  PROVE  /\ renewal'[g.slot].phase # "none"
         /\ \A s \in Slot : \/ renewal'[s] = renewal[s]
                            \/ renewal'[s].phase = "armed" /\ renewal'[s].cand = None
<1>1. g.slot \in Slot
  BY DEF TypeOK
<1>2. CASE renewal[g.slot].phase # "none"
  BY <1>2 DEF StartRenewal
<1>3. CASE renewal[g.slot].phase = "none"
  <2>1. PICK due : renewal' = [renewal EXCEPT ![g.slot] = Armed(g.key, due)]
    BY <1>3 DEF StartRenewal
  <2> QED BY <1>1, <2>1 DEF Armed, TypeOK
<1> QED BY <1>2, <1>3

\* Every step preserves KeysMatch.
LEMMA KeysMatchStep ==
  ASSUME TypeOK, Shape, KeysMatch, [Next]_vars
  PROVE  KeysMatch'
<1>1. ASSUME NEW c \in Call, NEW s \in Slot, Begin(c, s)
      PROVE  KeysMatch'
  BY <1>1
     DEF TypeOK, KeysMatch, callVars, Begin, Goto
<1>2. ASSUME NEW c \in Call, LookupEntry(c)
      PROVE  KeysMatch'
  BY <1>2
     DEF TypeOK, KeysMatch, callVars, LookupEntry, Goto
<1>3. ASSUME NEW c \in Call, LookupCacheHit(c)
      PROVE  KeysMatch'
  BY <1>3, ConstantsOK
     DEF TypeOK, KeysMatch, callVars, LookupCacheHit, Return, CacheGet, ValidCert
<1>4. ASSUME NEW c \in Call, LookupCacheMiss(c)
      PROVE  KeysMatch'
  BY <1>4
     DEF TypeOK, KeysMatch, callVars, LookupCacheMiss, Goto, Return
<1>5. ASSUME NEW c \in Call, ReadEntry(c)
      PROVE  KeysMatch'
  <2> DEFINE answer == TLSCert(heap[ptr[c]])
  <2>1. answer # None => answer.leaf.pub = answer.key
    BY <1>5, HeldObject DEF ReadEntry, TLSCert, PairOf, KeysMatch
  <2> QED BY <1>5, <2>1 DEF ReadEntry, Return, KeysMatch, TypeOK
<1>6. ASSUME NEW c \in Call, RejectHost(c)
      PROVE  KeysMatch'
  BY <1>6
     DEF TypeOK, KeysMatch, callVars, RejectHost, Return
<1>7. ASSUME NEW c \in Call, FindState(c)
      PROVE  KeysMatch'
  BY <1>7
     DEF TypeOK, KeysMatch, callVars, FindState, Goto
<1>8. ASSUME NEW c \in Call, MakeState(c)
      PROVE  KeysMatch'
  BY <1>8
     DEF TypeOK, KeysMatch, callVars, MakeState, Goto
<1>9. ASSUME NEW c \in Call, CheckLocked(c)
      PROVE  KeysMatch'
  BY <1>9
     DEF TypeOK, KeysMatch, callVars, CheckLocked, Goto
<1>10. ASSUME NEW c \in Call, TakeLead(c)
      PROVE  KeysMatch'
  BY <1>10
     DEF TypeOK, KeysMatch, callVars, TakeLead, Goto
<1>11. ASSUME NEW c \in Call, ReadCreated(c)
      PROVE  KeysMatch'
  <2> DEFINE answer == PairOf(heap[ptr[c]])
  <2>1. heap[ptr[c]].leaf # None => answer.leaf.pub = answer.key
    BY <1>11, HeldObject DEF ReadCreated, PairOf, KeysMatch
  <2>2. \/ resp' = [resp EXCEPT ![c] = None]
        \/ heap[ptr[c]].leaf # None /\ resp' = [resp EXCEPT ![c] = answer]
    <3>1. CASE heap[ptr[c]].leaf = None
      BY <1>11, <3>1 DEF ReadCreated, Return
    <3>2. CASE heap[ptr[c]].leaf # None
      BY <1>11, <3>2 DEF ReadCreated
    <3> QED BY <3>1, <3>2
  <2> HIDE DEF answer
  <2>3. \A d \in Call : resp'[d] # None => resp'[d].leaf.pub = resp'[d].key
    BY <2>1, <2>2 DEF TypeOK, KeysMatch
  <2> QED BY <1>11, <2>3 DEF ReadCreated, KeysMatch
<1>12. ASSUME NEW c \in Call, Authorized(c)
      PROVE  KeysMatch'
  BY <1>12
     DEF TypeOK, KeysMatch, callVars, Authorized, Goto, Issued
<1>13. ASSUME NEW c \in Call, AuthorizeFailed(c)
      PROVE  KeysMatch'
  BY <1>13
     DEF TypeOK, KeysMatch, callVars, AuthorizeFailed, Goto
<1>14. ASSUME NEW c \in Call, Unlock(c)
      PROVE  KeysMatch'
  BY <1>14
     DEF TypeOK, KeysMatch, callVars, Unlock, Goto
<1>15. ASSUME NEW c \in Call, FatalUnlock(c)
      PROVE  KeysMatch'
  BY <1>15, ConstantsOK
     DEF TypeOK, KeysMatch, callVars, FatalUnlock, Restart, NewObject, NoRenewal
<1>16. ASSUME NEW c \in Call, PutAndReturn(c)
      PROVE  KeysMatch'
  <2>1. resp[c].leaf.pub = resp[c].key
    BY <1>16 DEF PutAndReturn, Shape, KeysMatch
  <2>2. /\ \A k \in CertKey : cache'[k] = cache[k] \/ cache'[k] = resp[c]
        /\ \A w \in late' : w \in late \/ w.pair = resp[c]
    BY <1>16 DEF PutAndReturn, CachePut, TypeOK
  <2> QED BY <1>16, <2>1, <2>2 DEF PutAndReturn, KeysMatch
<1>17. ASSUME NEW s \in Slot, RemoveFailed(s)
      PROVE  KeysMatch'
  BY <1>17
     DEF TypeOK, KeysMatch, callVars, RemoveFailed
<1>18. ASSUME NEW g \in spawned, StartRenewal(g)
      PROVE  KeysMatch'
  BY <1>18, StartedRenewal DEF StartRenewal, callVars, KeysMatch
<1>19. ASSUME NEW s \in Slot, FireRenewal(s)
      PROVE  KeysMatch'
  BY <1>19
     DEF TypeOK, KeysMatch, callVars, FireRenewal
<1>20. ASSUME NEW s \in Slot, RenewalGet(s)
      PROVE  KeysMatch'
  <2>1. \A t \in Slot :
          \/ renewal'[t].cand = renewal[t].cand
          \/ \E found \in CacheGet(KeyOf[s]) \ {None, Failed} : renewal'[t].cand = found
    BY <1>20, GetResult
  <2>2. \A found \in CacheGet(KeyOf[s]) \ {None, Failed} : found.leaf.pub = found.key
    BY CacheGetMatches, ConstantsOK
  <2> QED BY <1>20, <2>1, <2>2 DEF RenewalGet, callVars, KeysMatch
<1>21. ASSUME NEW s \in Slot, RenewalAuthorized(s)
      PROVE  KeysMatch'
  <2>1. \A t \in Slot \ {s} : renewal'[t] = renewal[t]
    BY <1>21, IssueResult
  <2>2. renewal'[s].cand.leaf.pub = renewal'[s].cand.key
    <3>1. PICK leaf \in Issued(renewal[s].key) :
            renewal'[s].cand = [key |-> renewal[s].key, leaf |-> leaf]
      BY <1>21, IssueResult
    <3>2. leaf.pub = renewal[s].key
      BY DEF Issued
    <3> QED BY <3>1, <3>2
  <2> QED BY <1>21, <2>1, <2>2 DEF RenewalAuthorized, callVars, KeysMatch
<1>22. ASSUME NEW s \in Slot, RenewalFailed(s)
      PROVE  KeysMatch'
  BY <1>22
     DEF TypeOK, KeysMatch, callVars, RenewalFailed, RetryRenewal, Armed
<1>23. ASSUME NEW s \in Slot, RenewalPut(s)
      PROVE  KeysMatch'
  <2>1. /\ \A k \in CertKey : cache'[k] = cache[k] \/ cache'[k] = renewal[s].cand
        /\ \A w \in late' : w \in late \/ w.pair = renewal[s].cand
    BY <1>23 DEF RenewalPut, CachePut, TypeOK
  <2>2. renewal[s].cand.leaf.pub = renewal[s].cand.key
    BY <1>23 DEF RenewalPut, Shape, KeysMatch
  <2>3. \A t \in Slot : renewal'[t].cand = renewal[t].cand \/ renewal'[t].cand = None
    <3>1. CASE renewal' = [renewal EXCEPT ![s].phase = "update"]
      BY <3>1, RenewalAtHand DEF TypeOK, Renewal
    <3>2. CASE RetryRenewal(s)
      BY <3>2 DEF RetryRenewal, Armed, TypeOK
    <3> QED BY <1>23, <3>1, <3>2 DEF RenewalPut
  <2> QED BY <1>23, <2>1, <2>2, <2>3 DEF RenewalPut, callVars, KeysMatch
<1>24. ASSUME NEW s \in Slot, RenewalUpdate(s)
      PROVE  KeysMatch'
  <2> DEFINE cand == renewal[s].cand
  <2>1. cand.leaf.pub = cand.key
    BY <1>24 DEF RenewalUpdate, Shape, KeysMatch
  <2>2. \A a \in State : \/ heap'[a] = heap[a]
                         \/ heap'[a].leaf = cand.leaf /\ heap'[a].key = cand.key
    <3>1. PICK b \in FreeState :
            heap' = [heap EXCEPT ![b] = [key |-> cand.key, leaf |-> cand.leaf,
                                         wlock |-> FALSE, locked |-> FALSE]]
      BY <1>24 DEF RenewalUpdate
    <3> QED BY <3>1 DEF TypeOK
  <2>3. \A t \in Slot : renewal'[t].cand = renewal[t].cand \/ renewal'[t].cand = None
    BY <1>24 DEF RenewalUpdate, Armed, TypeOK
  <2> QED BY <1>24, <2>1, <2>2, <2>3 DEF RenewalUpdate, callVars, KeysMatch
<1>25. ASSUME Restart
      PROVE  KeysMatch'
  BY <1>25, ConstantsOK
     DEF TypeOK, KeysMatch, callVars, Restart, NewObject, NoRenewal
<1>26. ASSUME Tick
      PROVE  KeysMatch'
  BY <1>26
     DEF TypeOK, KeysMatch, callVars, Tick
<1>27. ASSUME UNCHANGED vars
      PROVE  KeysMatch'
  BY <1>27
     DEF TypeOK, KeysMatch, callVars, vars
<1>28. ASSUME NEW w \in late, LateWrite(w)
      PROVE  KeysMatch'
  BY <1>28 DEF TypeOK, KeysMatch, LateWrites, callVars, LateWrite
<1> QED BY <1>1, <1>2, <1>3, <1>4, <1>5, <1>6, <1>7, <1>8, <1>9, <1>10, <1>11, <1>12, <1>13, <1>14, <1>15, <1>16, <1>17, <1>18, <1>19, <1>20, <1>21, <1>22, <1>23, <1>24, <1>25, <1>26, <1>27, <1>28
     DEF Next, CallStep, RenewalStep

\* Every step preserves LockedHasOwner.
LEMMA LockedStep ==
  ASSUME TypeOK, Shape, LockedHasOwner, [Next]_vars
  PROVE  LockedHasOwner'
<1>1. ASSUME NEW c \in Call, NEW s \in Slot, Begin(c, s)
      PROVE  LockedHasOwner'
  BY <1>1
     DEF TypeOK, LockedHasOwner, Leading, callVars, Begin, Goto
<1>2. ASSUME NEW c \in Call, LookupEntry(c)
      PROVE  LockedHasOwner'
  BY <1>2
     DEF TypeOK, LockedHasOwner, Leading, callVars, LookupEntry, Goto
<1>3. ASSUME NEW c \in Call, LookupCacheHit(c)
      PROVE  LockedHasOwner'
  BY <1>3, FreeIsFresh
     DEF TypeOK, LockedHasOwner, Leading, callVars, LookupCacheHit, Return
<1>4. ASSUME NEW c \in Call, LookupCacheMiss(c)
      PROVE  LockedHasOwner'
  BY <1>4
     DEF TypeOK, LockedHasOwner, Leading, callVars, LookupCacheMiss, Goto, Return
<1>5. ASSUME NEW c \in Call, ReadEntry(c)
      PROVE  LockedHasOwner'
  BY <1>5
     DEF TypeOK, LockedHasOwner, Leading, callVars, ReadEntry, Return
<1>6. ASSUME NEW c \in Call, RejectHost(c)
      PROVE  LockedHasOwner'
  BY <1>6
     DEF TypeOK, LockedHasOwner, Leading, callVars, RejectHost, Return
<1>7. ASSUME NEW c \in Call, FindState(c)
      PROVE  LockedHasOwner'
  BY <1>7
     DEF TypeOK, LockedHasOwner, Leading, callVars, FindState, Goto
<1>8. ASSUME NEW c \in Call, MakeState(c)
      PROVE  LockedHasOwner'
  BY <1>8, FreeIsFresh
     DEF TypeOK, LockedHasOwner, Leading, callVars, MakeState, Goto
<1>9. ASSUME NEW c \in Call, CheckLocked(c)
      PROVE  LockedHasOwner'
  BY <1>9
     DEF TypeOK, LockedHasOwner, Leading, callVars, CheckLocked, Goto
<1>10. ASSUME NEW c \in Call, TakeLead(c)
      PROVE  LockedHasOwner'
  BY <1>10, HeldObject
     DEF TypeOK, LockedHasOwner, Leading, callVars, TakeLead, Goto
<1>11. ASSUME NEW c \in Call, ReadCreated(c)
      PROVE  LockedHasOwner'
  BY <1>11
     DEF TypeOK, LockedHasOwner, Leading, callVars, ReadCreated, Return, Goto
<1>12. ASSUME NEW c \in Call, Authorized(c)
      PROVE  LockedHasOwner'
  BY <1>12, HeldObject
     DEF TypeOK, LockedHasOwner, Leading, callVars, Authorized, Goto
<1>13. ASSUME NEW c \in Call, AuthorizeFailed(c)
      PROVE  LockedHasOwner'
  BY <1>13
     DEF TypeOK, LockedHasOwner, Leading, callVars, AuthorizeFailed, Goto
<1>14. ASSUME NEW c \in Call, Unlock(c)
      PROVE  LockedHasOwner'
  BY <1>14, HeldObject
     DEF TypeOK, LockedHasOwner, Leading, callVars, Unlock, Goto
<1>15. ASSUME NEW c \in Call, FatalUnlock(c)
      PROVE  LockedHasOwner'
  BY <1>15
     DEF TypeOK, LockedHasOwner, Leading, callVars, FatalUnlock, Restart, NewObject
<1>16. ASSUME NEW c \in Call, PutAndReturn(c)
      PROVE  LockedHasOwner'
  BY <1>16
     DEF TypeOK, LockedHasOwner, Leading, callVars, PutAndReturn, Goto
<1>17. ASSUME NEW s \in Slot, RemoveFailed(s)
      PROVE  LockedHasOwner'
  BY <1>17
     DEF TypeOK, LockedHasOwner, Leading, callVars, RemoveFailed
<1>18. ASSUME NEW g \in spawned, StartRenewal(g)
      PROVE  LockedHasOwner'
  BY <1>18
     DEF TypeOK, LockedHasOwner, Leading, callVars, StartRenewal, Armed
<1>19. ASSUME NEW s \in Slot, FireRenewal(s)
      PROVE  LockedHasOwner'
  BY <1>19
     DEF TypeOK, LockedHasOwner, Leading, callVars, FireRenewal
<1>20. ASSUME NEW s \in Slot, RenewalGet(s)
      PROVE  LockedHasOwner'
  BY <1>20
     DEF TypeOK, LockedHasOwner, Leading, callVars, RenewalGet
<1>21. ASSUME NEW s \in Slot, RenewalAuthorized(s)
      PROVE  LockedHasOwner'
  BY <1>21
     DEF TypeOK, LockedHasOwner, Leading, callVars, RenewalAuthorized
<1>22. ASSUME NEW s \in Slot, RenewalFailed(s)
      PROVE  LockedHasOwner'
  BY <1>22
     DEF TypeOK, LockedHasOwner, Leading, callVars, RenewalFailed, RetryRenewal, Armed
<1>23. ASSUME NEW s \in Slot, RenewalPut(s)
      PROVE  LockedHasOwner'
  BY <1>23
     DEF TypeOK, LockedHasOwner, Leading, callVars, RenewalPut, RetryRenewal, Armed
<1>24. ASSUME NEW s \in Slot, RenewalUpdate(s)
      PROVE  LockedHasOwner'
  BY <1>24, FreeIsFresh
     DEF TypeOK, LockedHasOwner, Leading, callVars, RenewalUpdate, Armed
<1>25. ASSUME Restart
      PROVE  LockedHasOwner'
  BY <1>25
     DEF TypeOK, LockedHasOwner, Leading, callVars, Restart, NewObject
<1>26. ASSUME Tick
      PROVE  LockedHasOwner'
  BY <1>26
     DEF TypeOK, LockedHasOwner, Leading, callVars, Tick
<1>27. ASSUME UNCHANGED vars
      PROVE  LockedHasOwner'
  BY <1>27
     DEF TypeOK, LockedHasOwner, Leading, callVars, vars
<1>28. ASSUME NEW w \in late, LateWrite(w)
      PROVE  LockedHasOwner'
  BY <1>28 DEF TypeOK, LockedHasOwner, Leading, callVars, LateWrite
<1> QED BY <1>1, <1>2, <1>3, <1>4, <1>5, <1>6, <1>7, <1>8, <1>9, <1>10, <1>11, <1>12, <1>13, <1>14, <1>15, <1>16, <1>17, <1>18, <1>19, <1>20, <1>21, <1>22, <1>23, <1>24, <1>25, <1>26, <1>27, <1>28
     DEF Next, CallStep, RenewalStep

\* Every step preserves OwnSlot.
LEMMA OwnStep ==
  ASSUME TypeOK, Shape, OwnSlot, [Next]_vars
  PROVE  OwnSlot'
<1>1. ASSUME NEW c \in Call, NEW s \in Slot, Begin(c, s)
      PROVE  OwnSlot'
  BY <1>1
     DEF TypeOK, OwnSlot, callVars, Begin, Goto, Shape
<1>2. ASSUME NEW c \in Call, LookupEntry(c)
      PROVE  OwnSlot'
  BY <1>2
     DEF TypeOK, OwnSlot, callVars, LookupEntry, Goto
<1>3. ASSUME NEW c \in Call, LookupCacheHit(c)
      PROVE  OwnSlot'
  BY <1>3, FreeIsFresh
     DEF TypeOK, OwnSlot, callVars, LookupCacheHit, Return
<1>4. ASSUME NEW c \in Call, LookupCacheMiss(c)
      PROVE  OwnSlot'
  BY <1>4
     DEF TypeOK, OwnSlot, callVars, LookupCacheMiss, Goto, Return
<1>5. ASSUME NEW c \in Call, ReadEntry(c)
      PROVE  OwnSlot'
  BY <1>5
     DEF TypeOK, OwnSlot, callVars, ReadEntry, Return
<1>6. ASSUME NEW c \in Call, RejectHost(c)
      PROVE  OwnSlot'
  BY <1>6
     DEF TypeOK, OwnSlot, callVars, RejectHost, Return
<1>7. ASSUME NEW c \in Call, FindState(c)
      PROVE  OwnSlot'
  BY <1>7
     DEF TypeOK, OwnSlot, callVars, FindState, Goto
<1>8. ASSUME NEW c \in Call, MakeState(c)
      PROVE  OwnSlot'
  BY <1>8, FreeIsFresh
     DEF TypeOK, OwnSlot, callVars, MakeState, Goto
<1>9. ASSUME NEW c \in Call, CheckLocked(c)
      PROVE  OwnSlot'
  BY <1>9
     DEF TypeOK, OwnSlot, callVars, CheckLocked, Goto
<1>10. ASSUME NEW c \in Call, TakeLead(c)
      PROVE  OwnSlot'
  BY <1>10
     DEF TypeOK, OwnSlot, callVars, TakeLead, Goto
<1>11. ASSUME NEW c \in Call, ReadCreated(c)
      PROVE  OwnSlot'
  BY <1>11
     DEF TypeOK, OwnSlot, callVars, ReadCreated, Return, Goto
<1>12. ASSUME NEW c \in Call, Authorized(c)
      PROVE  OwnSlot'
  BY <1>12
     DEF TypeOK, OwnSlot, callVars, Authorized, Goto
<1>13. ASSUME NEW c \in Call, AuthorizeFailed(c)
      PROVE  OwnSlot'
  BY <1>13
     DEF TypeOK, OwnSlot, callVars, AuthorizeFailed, Goto
<1>14. ASSUME NEW c \in Call, Unlock(c)
      PROVE  OwnSlot'
  BY <1>14
     DEF TypeOK, OwnSlot, callVars, Unlock, Goto
<1>15. ASSUME NEW c \in Call, FatalUnlock(c)
      PROVE  OwnSlot'
  BY <1>15
     DEF TypeOK, OwnSlot, callVars, FatalUnlock, Restart
<1>16. ASSUME NEW c \in Call, PutAndReturn(c)
      PROVE  OwnSlot'
  BY <1>16
     DEF TypeOK, OwnSlot, callVars, PutAndReturn, Goto
<1>17. ASSUME NEW s \in Slot, RemoveFailed(s)
      PROVE  OwnSlot'
  BY <1>17
     DEF TypeOK, OwnSlot, callVars, RemoveFailed
<1>18. ASSUME NEW g \in spawned, StartRenewal(g)
      PROVE  OwnSlot'
  BY <1>18
     DEF TypeOK, OwnSlot, callVars, StartRenewal, Armed
<1>19. ASSUME NEW s \in Slot, FireRenewal(s)
      PROVE  OwnSlot'
  BY <1>19
     DEF TypeOK, OwnSlot, callVars, FireRenewal
<1>20. ASSUME NEW s \in Slot, RenewalGet(s)
      PROVE  OwnSlot'
  BY <1>20
     DEF TypeOK, OwnSlot, callVars, RenewalGet
<1>21. ASSUME NEW s \in Slot, RenewalAuthorized(s)
      PROVE  OwnSlot'
  BY <1>21
     DEF TypeOK, OwnSlot, callVars, RenewalAuthorized
<1>22. ASSUME NEW s \in Slot, RenewalFailed(s)
      PROVE  OwnSlot'
  BY <1>22
     DEF TypeOK, OwnSlot, callVars, RenewalFailed, RetryRenewal, Armed
<1>23. ASSUME NEW s \in Slot, RenewalPut(s)
      PROVE  OwnSlot'
  BY <1>23
     DEF TypeOK, OwnSlot, callVars, RenewalPut, RetryRenewal, Armed
<1>24. ASSUME NEW s \in Slot, RenewalUpdate(s)
      PROVE  OwnSlot'
  BY <1>24, FreeIsFresh
     DEF TypeOK, OwnSlot, callVars, RenewalUpdate, Armed
<1>25. ASSUME Restart
      PROVE  OwnSlot'
  BY <1>25
     DEF TypeOK, OwnSlot, callVars, Restart
<1>26. ASSUME Tick
      PROVE  OwnSlot'
  BY <1>26
     DEF TypeOK, OwnSlot, callVars, Tick
<1>27. ASSUME UNCHANGED vars
      PROVE  OwnSlot'
  BY <1>27
     DEF TypeOK, OwnSlot, callVars, vars
<1>28. ASSUME NEW w \in late, LateWrite(w)
      PROVE  OwnSlot'
  BY <1>28 DEF TypeOK, OwnSlot, callVars, LateWrite
<1> QED BY <1>1, <1>2, <1>3, <1>4, <1>5, <1>6, <1>7, <1>8, <1>9, <1>10, <1>11, <1>12, <1>13, <1>14, <1>15, <1>16, <1>17, <1>18, <1>19, <1>20, <1>21, <1>22, <1>23, <1>24, <1>25, <1>26, <1>27, <1>28
     DEF Next, CallStep, RenewalStep

\* Every step preserves FailedIsScheduled.
LEMMA FailedStep ==
  ASSUME TypeOK, Shape, OwnSlot, FailedIsScheduled, [Next]_vars
  PROVE  FailedIsScheduled'
<1>1. ASSUME NEW c \in Call, NEW s \in Slot, Begin(c, s)
      PROVE  FailedIsScheduled'
  BY <1>1
     DEF TypeOK, OwnSlot, FailedIsScheduled, HasLeaf, callVars, Begin, Goto
<1>2. ASSUME NEW c \in Call, LookupEntry(c)
      PROVE  FailedIsScheduled'
  BY <1>2
     DEF TypeOK, OwnSlot, FailedIsScheduled, HasLeaf, callVars, LookupEntry, Goto
<1>3. ASSUME NEW c \in Call, LookupCacheHit(c)
      PROVE  FailedIsScheduled'
  <2>1. PICK pair \in CacheGet(KeyOf[tgt[c]]) \ {None, Failed}, a \in FreeState :
          /\ heap' = [heap EXCEPT ![a] = [key |-> pair.key, leaf |-> pair.leaf,
                                          wlock |-> FALSE, locked |-> FALSE]]
          /\ state' = [state EXCEPT ![tgt[c]] = a]
          /\ spawned' = spawned \union {[slot |-> tgt[c], key |-> pair.key,
                                         exp |-> pair.leaf.exp]}
          /\ Return(c, pair)
    BY <1>3 DEF LookupCacheHit
  <2>2. PICK own \in Slot : own = tgt[c]
    BY DEF TypeOK
  <2>3. HasLeaf(own)'
    <3>1. pair \in Pair /\ pair.leaf # None
      BY CertTypes, ConstantsOK DEF TypeOK, Pair
    <3> QED BY <2>1, <2>2, <3>1, FreeIsFresh, ConstantsOK DEF TypeOK, HasLeaf
  <2>4. ASSUME NEW s \in Slot \ {own}
        PROVE  state'[s] = state[s] /\ (state[s] # None => heap'[state[s]] = heap[state[s]])
    BY <2>1, <2>2, <2>4, FreeIsFresh DEF TypeOK
  <2>5. \A d \in Call : d # c => ptr'[d] = ptr[d] /\ pc'[d] = pc[d]
    BY <2>1 DEF Return, TypeOK
  <2>6. \A s \in Slot : removals'[s] = removals[s]
    BY <1>3 DEF LookupCacheHit
  <2>7. \A s \in Slot \ {own} : state[s] # None /\ ~HasLeaf(s)' => ~HasLeaf(s)
    BY <2>4 DEF HasLeaf
  <2>8. \A s \in Slot \ {own} : state[s] # None => ptr[c] # state[s]
    BY <1>3, ConstantsOK DEF LookupCacheHit, Shape, TypeOK
  <2>9. ASSUME NEW s \in Slot, state'[s] # None, ~HasLeaf(s)'
        PROVE  \/ removals'[s] > 0
               \/ \E d \in Call : /\ ptr'[d] = state'[s]
                                  /\ \/ pc'[d] \in {"lead", "authorize"}
                                     \/ pc'[d] = "check" /\ heap'[state'[s]].locked
    <3>1. s \in Slot \ {own} /\ state[s] # None /\ ~HasLeaf(s)
      BY <2>3, <2>4, <2>7, <2>9
    <3> QED BY <2>4, <2>5, <2>6, <2>8, <3>1 DEF FailedIsScheduled
  <2> QED BY <2>9 DEF FailedIsScheduled
<1>4. ASSUME NEW c \in Call, LookupCacheMiss(c)
      PROVE  FailedIsScheduled'
  BY <1>4
     DEF TypeOK, OwnSlot, FailedIsScheduled, HasLeaf, callVars, LookupCacheMiss, Goto, Return
<1>5. ASSUME NEW c \in Call, ReadEntry(c)
      PROVE  FailedIsScheduled'
  BY <1>5
     DEF TypeOK, OwnSlot, FailedIsScheduled, HasLeaf, callVars, ReadEntry, Return
<1>6. ASSUME NEW c \in Call, RejectHost(c)
      PROVE  FailedIsScheduled'
  BY <1>6
     DEF TypeOK, OwnSlot, FailedIsScheduled, HasLeaf, callVars, RejectHost, Return
<1>7. ASSUME NEW c \in Call, FindState(c)
      PROVE  FailedIsScheduled'
  BY <1>7
     DEF TypeOK, OwnSlot, FailedIsScheduled, HasLeaf, callVars, FindState, Goto
<1>8. ASSUME NEW c \in Call, MakeState(c)
      PROVE  FailedIsScheduled'
  BY <1>8, FreeIsFresh
     DEF TypeOK, OwnSlot, FailedIsScheduled, HasLeaf, callVars, MakeState, Goto
<1>9. ASSUME NEW c \in Call, CheckLocked(c)
      PROVE  FailedIsScheduled'
  BY <1>9
     DEF TypeOK, OwnSlot, FailedIsScheduled, HasLeaf, callVars, CheckLocked, Goto
<1>10. ASSUME NEW c \in Call, TakeLead(c)
      PROVE  FailedIsScheduled'
  BY <1>10, HeldObject
     DEF TypeOK, OwnSlot, FailedIsScheduled, HasLeaf, callVars, TakeLead, Goto
<1>11. ASSUME NEW c \in Call, ReadCreated(c)
      PROVE  FailedIsScheduled'
  BY <1>11
     DEF TypeOK, OwnSlot, FailedIsScheduled, HasLeaf, callVars, ReadCreated, Return, Goto
<1>12. ASSUME NEW c \in Call, Authorized(c)
      PROVE  FailedIsScheduled'
  <2>1. ptr[c] \in State /\ heap[ptr[c]] \in Object /\ Issued(heap[ptr[c]].key) \subseteq Leaf
    BY <1>12, HeldObject, CertTypes DEF Authorized
  <2>2. heap'[ptr[c]].leaf # None
    <3>1. \E leaf \in Leaf : heap' = [heap EXCEPT ![ptr[c]].leaf = leaf]
      BY <1>12, <2>1 DEF Authorized
    <3> QED BY <2>1, <3>1, ConstantsOK DEF TypeOK, Object
  <2>3. \A a \in State \ {ptr[c]} : heap'[a] = heap[a]
    BY <1>12, <2>1 DEF Authorized, TypeOK
  <2>4. \A d \in Call \ {c} : pc'[d] = pc[d]
    BY <1>12 DEF Authorized, Goto, TypeOK
  <2> QED BY <1>12, <2>2, <2>3, <2>4 DEF Authorized, FailedIsScheduled, HasLeaf, TypeOK
<1>13. ASSUME NEW c \in Call, AuthorizeFailed(c)
      PROVE  FailedIsScheduled'
  BY <1>13, HeldObject
     DEF TypeOK, OwnSlot, FailedIsScheduled, HasLeaf, callVars, AuthorizeFailed, Goto
<1>14. ASSUME NEW c \in Call, Unlock(c)
      PROVE  FailedIsScheduled'
  BY <1>14, HeldObject
     DEF TypeOK, OwnSlot, FailedIsScheduled, HasLeaf, callVars, Unlock, Goto
<1>15. ASSUME NEW c \in Call, FatalUnlock(c)
      PROVE  FailedIsScheduled'
  BY <1>15
     DEF TypeOK, OwnSlot, FailedIsScheduled, HasLeaf, callVars, FatalUnlock, Restart
<1>16. ASSUME NEW c \in Call, PutAndReturn(c)
      PROVE  FailedIsScheduled'
  BY <1>16
     DEF TypeOK, OwnSlot, FailedIsScheduled, HasLeaf, callVars, PutAndReturn, Goto
<1>17. ASSUME NEW s \in Slot, RemoveFailed(s)
      PROVE  FailedIsScheduled'
  <2>1. /\ state'[s] # None => state'[s] = state[s] /\ HasLeaf(s)
        /\ \A t \in Slot \ {s} :
             state'[t] = state[t] /\ removals'[t] = removals[t]
    BY <1>17 DEF RemoveFailed, ValidCert, HasLeaf, TypeOK
  <2>2. UNCHANGED <<heap, pc, ptr>>
    BY <1>17 DEF RemoveFailed, callVars
  <2> QED BY <2>1, <2>2 DEF FailedIsScheduled, HasLeaf
<1>18. ASSUME NEW g \in spawned, StartRenewal(g)
      PROVE  FailedIsScheduled'
  BY <1>18
     DEF TypeOK, OwnSlot, FailedIsScheduled, HasLeaf, callVars, StartRenewal, Armed
<1>19. ASSUME NEW s \in Slot, FireRenewal(s)
      PROVE  FailedIsScheduled'
  BY <1>19
     DEF TypeOK, OwnSlot, FailedIsScheduled, HasLeaf, callVars, FireRenewal
<1>20. ASSUME NEW s \in Slot, RenewalGet(s)
      PROVE  FailedIsScheduled'
  BY <1>20
     DEF TypeOK, OwnSlot, FailedIsScheduled, HasLeaf, callVars, RenewalGet
<1>21. ASSUME NEW s \in Slot, RenewalAuthorized(s)
      PROVE  FailedIsScheduled'
  BY <1>21
     DEF TypeOK, OwnSlot, FailedIsScheduled, HasLeaf, callVars, RenewalAuthorized
<1>22. ASSUME NEW s \in Slot, RenewalFailed(s)
      PROVE  FailedIsScheduled'
  BY <1>22
     DEF TypeOK, OwnSlot, FailedIsScheduled, HasLeaf, callVars, RenewalFailed, RetryRenewal, Armed
<1>23. ASSUME NEW s \in Slot, RenewalPut(s)
      PROVE  FailedIsScheduled'
  BY <1>23
     DEF TypeOK, OwnSlot, FailedIsScheduled, HasLeaf, callVars, RenewalPut, RetryRenewal, Armed
<1>24. ASSUME NEW s \in Slot, RenewalUpdate(s)
      PROVE  FailedIsScheduled'
  <2> DEFINE cand == renewal[s].cand
  <2>1. cand \in Pair /\ cand.leaf # None
    BY <1>24, RenewalAtHand, ConstantsOK DEF RenewalUpdate, Pair
  <2>2. PICK a \in FreeState :
          /\ heap' = [heap EXCEPT ![a] = [key |-> cand.key, leaf |-> cand.leaf,
                                          wlock |-> FALSE, locked |-> FALSE]]
          /\ state' = [state EXCEPT ![s] = a]
    BY <1>24 DEF RenewalUpdate
  <2>3. HasLeaf(s)'
    BY <2>1, <2>2, FreeIsFresh, ConstantsOK DEF TypeOK, HasLeaf
  <2>4. ASSUME NEW t \in Slot \ {s}
        PROVE  state'[t] = state[t] /\ (state[t] # None => heap'[state[t]] = heap[state[t]])
    BY <2>2, <2>4, FreeIsFresh DEF TypeOK
  <2> QED BY <1>24, <2>3, <2>4 DEF RenewalUpdate, callVars, FailedIsScheduled, HasLeaf
<1>25. ASSUME Restart
      PROVE  FailedIsScheduled'
  BY <1>25
     DEF TypeOK, OwnSlot, FailedIsScheduled, HasLeaf, callVars, Restart
<1>26. ASSUME Tick
      PROVE  FailedIsScheduled'
  BY <1>26
     DEF TypeOK, OwnSlot, FailedIsScheduled, HasLeaf, callVars, Tick
<1>27. ASSUME UNCHANGED vars
      PROVE  FailedIsScheduled'
  BY <1>27
     DEF TypeOK, OwnSlot, FailedIsScheduled, HasLeaf, callVars, vars
<1>28. ASSUME NEW w \in late, LateWrite(w)
      PROVE  FailedIsScheduled'
  BY <1>28 DEF TypeOK, OwnSlot, FailedIsScheduled, HasLeaf, callVars, LateWrite
<1> QED BY <1>1, <1>2, <1>3, <1>4, <1>5, <1>6, <1>7, <1>8, <1>9, <1>10, <1>11, <1>12, <1>13, <1>14, <1>15, <1>16, <1>17, <1>18, <1>19, <1>20, <1>21, <1>22, <1>23, <1>24, <1>25, <1>26, <1>27, <1>28
     DEF Next, CallStep, RenewalStep

\* Every step preserves ServedIsRenewed.
LEMMA ServedStep ==
  ASSUME TypeOK, Shape, OwnSlot, ServedIsRenewed, [Next]_vars
  PROVE  ServedIsRenewed'
<1>1. ASSUME NEW c \in Call, NEW s \in Slot, Begin(c, s)
      PROVE  ServedIsRenewed'
  BY <1>1
     DEF TypeOK, OwnSlot, ServedIsRenewed, HasLeaf, callVars, Begin, Goto
<1>2. ASSUME NEW c \in Call, LookupEntry(c)
      PROVE  ServedIsRenewed'
  BY <1>2
     DEF TypeOK, OwnSlot, ServedIsRenewed, HasLeaf, callVars, LookupEntry, Goto
<1>3. ASSUME NEW c \in Call, LookupCacheHit(c)
      PROVE  ServedIsRenewed'
  <2>1. PICK pair \in CacheGet(KeyOf[tgt[c]]) \ {None, Failed}, a \in FreeState :
          /\ heap' = [heap EXCEPT ![a] = [key |-> pair.key, leaf |-> pair.leaf,
                                          wlock |-> FALSE, locked |-> FALSE]]
          /\ state' = [state EXCEPT ![tgt[c]] = a]
          /\ spawned' = spawned \union {[slot |-> tgt[c], key |-> pair.key,
                                         exp |-> pair.leaf.exp]}
          /\ Return(c, pair)
    BY <1>3 DEF LookupCacheHit
  <2>2. \E g \in spawned' : g.slot = tgt[c]
    <3>1. [slot |-> tgt[c], key |-> pair.key, exp |-> pair.leaf.exp] \in spawned'
      BY <2>1
    <3> QED BY <3>1
  <2>3. ASSUME NEW s \in Slot \ {tgt[c]}
        PROVE  state'[s] = state[s] /\ (state[s] # None => heap'[state[s]] = heap[state[s]])
    BY <2>1, <2>3, FreeIsFresh DEF TypeOK
  <2>4. spawned \subseteq spawned'
    BY <2>1
  <2> QED BY <1>3, <2>2, <2>3, <2>4 DEF LookupCacheHit, ServedIsRenewed, HasLeaf
<1>4. ASSUME NEW c \in Call, LookupCacheMiss(c)
      PROVE  ServedIsRenewed'
  BY <1>4
     DEF TypeOK, OwnSlot, ServedIsRenewed, HasLeaf, callVars, LookupCacheMiss, Goto, Return
<1>5. ASSUME NEW c \in Call, ReadEntry(c)
      PROVE  ServedIsRenewed'
  BY <1>5
     DEF TypeOK, OwnSlot, ServedIsRenewed, HasLeaf, callVars, ReadEntry, Return
<1>6. ASSUME NEW c \in Call, RejectHost(c)
      PROVE  ServedIsRenewed'
  BY <1>6
     DEF TypeOK, OwnSlot, ServedIsRenewed, HasLeaf, callVars, RejectHost, Return
<1>7. ASSUME NEW c \in Call, FindState(c)
      PROVE  ServedIsRenewed'
  BY <1>7
     DEF TypeOK, OwnSlot, ServedIsRenewed, HasLeaf, callVars, FindState, Goto
<1>8. ASSUME NEW c \in Call, MakeState(c)
      PROVE  ServedIsRenewed'
  BY <1>8, FreeIsFresh
     DEF TypeOK, OwnSlot, ServedIsRenewed, HasLeaf, callVars, MakeState, Goto
<1>9. ASSUME NEW c \in Call, CheckLocked(c)
      PROVE  ServedIsRenewed'
  BY <1>9
     DEF TypeOK, OwnSlot, ServedIsRenewed, HasLeaf, callVars, CheckLocked, Goto
<1>10. ASSUME NEW c \in Call, TakeLead(c)
      PROVE  ServedIsRenewed'
  BY <1>10, HeldObject
     DEF TypeOK, OwnSlot, ServedIsRenewed, HasLeaf, callVars, TakeLead, Goto
<1>11. ASSUME NEW c \in Call, ReadCreated(c)
      PROVE  ServedIsRenewed'
  BY <1>11
     DEF TypeOK, OwnSlot, ServedIsRenewed, HasLeaf, callVars, ReadCreated, Return, Goto
<1>12. ASSUME NEW c \in Call, Authorized(c)
      PROVE  ServedIsRenewed'
  <2>1. \E g \in spawned' : g.slot = tgt[c]
    <3> DEFINE key == heap[ptr[c]].key
    <3>1. \E leaf : [slot |-> tgt[c], key |-> key, exp |-> leaf.exp] \in spawned'
      BY <1>12 DEF Authorized
    <3> QED BY <3>1
  <2>2. \A s \in Slot \ {tgt[c]} : state[s] # None => heap'[state[s]] = heap[state[s]]
    BY <1>12, HeldObject DEF Authorized, TypeOK, OwnSlot
  <2>3. spawned \subseteq spawned'
    BY <1>12 DEF Authorized
  <2>4. ASSUME NEW s \in Slot, HasLeaf(s)'
        PROVE  renewal[s].phase # "none" \/ \E g \in spawned' : g.slot = s
    <3>1. CASE s = tgt[c]
      BY <2>1, <3>1
    <3>2. CASE s # tgt[c]
      BY <1>12, <2>2, <2>3, <2>4, <3>2 DEF Authorized, ServedIsRenewed, HasLeaf
    <3> QED BY <3>1, <3>2
  <2> QED BY <1>12, <2>4 DEF Authorized, ServedIsRenewed
<1>13. ASSUME NEW c \in Call, AuthorizeFailed(c)
      PROVE  ServedIsRenewed'
  BY <1>13, HeldObject
     DEF TypeOK, OwnSlot, ServedIsRenewed, HasLeaf, callVars, AuthorizeFailed, Goto
<1>14. ASSUME NEW c \in Call, Unlock(c)
      PROVE  ServedIsRenewed'
  BY <1>14, HeldObject
     DEF TypeOK, OwnSlot, ServedIsRenewed, HasLeaf, callVars, Unlock, Goto
<1>15. ASSUME NEW c \in Call, FatalUnlock(c)
      PROVE  ServedIsRenewed'
  BY <1>15
     DEF TypeOK, OwnSlot, ServedIsRenewed, HasLeaf, callVars, FatalUnlock, Restart
<1>16. ASSUME NEW c \in Call, PutAndReturn(c)
      PROVE  ServedIsRenewed'
  BY <1>16
     DEF TypeOK, OwnSlot, ServedIsRenewed, HasLeaf, callVars, PutAndReturn, Goto
<1>17. ASSUME NEW s \in Slot, RemoveFailed(s)
      PROVE  ServedIsRenewed'
  BY <1>17
     DEF TypeOK, OwnSlot, ServedIsRenewed, HasLeaf, callVars, RemoveFailed
<1>18. ASSUME NEW g \in spawned, StartRenewal(g)
      PROVE  ServedIsRenewed'
  <2>1. \A s \in Slot : renewal[s].phase # "none" => renewal'[s].phase # "none"
    BY <1>18, StartedRenewal
  <2> QED BY <1>18, <2>1, StartedRenewal
          DEF StartRenewal, callVars, ServedIsRenewed, HasLeaf
<1>19. ASSUME NEW s \in Slot, FireRenewal(s)
      PROVE  ServedIsRenewed'
  BY <1>19
     DEF TypeOK, OwnSlot, ServedIsRenewed, HasLeaf, callVars, FireRenewal
<1>20. ASSUME NEW s \in Slot, RenewalGet(s)
      PROVE  ServedIsRenewed'
  <2> QED BY <1>20, GetResult DEF RenewalGet, callVars, ServedIsRenewed, HasLeaf
<1>21. ASSUME NEW s \in Slot, RenewalAuthorized(s)
      PROVE  ServedIsRenewed'
  BY <1>21
     DEF TypeOK, OwnSlot, ServedIsRenewed, HasLeaf, callVars, RenewalAuthorized
<1>22. ASSUME NEW s \in Slot, RenewalFailed(s)
      PROVE  ServedIsRenewed'
  BY <1>22
     DEF TypeOK, OwnSlot, ServedIsRenewed, HasLeaf, callVars, RenewalFailed, RetryRenewal, Armed
<1>23. ASSUME NEW s \in Slot, RenewalPut(s)
      PROVE  ServedIsRenewed'
  <2>1. \A t \in Slot \ {s} : renewal'[t] = renewal[t]
    BY <1>23 DEF RenewalPut, RetryRenewal, TypeOK
  <2>2. renewal'[s].phase # "none"
    <3>1. CASE renewal' = [renewal EXCEPT ![s].phase = "update"]
      BY <3>1, RenewalAtHand DEF TypeOK, Renewal
    <3>2. CASE RetryRenewal(s)
      BY <3>2 DEF RetryRenewal, Armed, TypeOK
    <3> QED BY <1>23, <3>1, <3>2 DEF RenewalPut
  <2> QED BY <1>23, <2>1, <2>2 DEF RenewalPut, callVars, ServedIsRenewed, HasLeaf
<1>24. ASSUME NEW s \in Slot, RenewalUpdate(s)
      PROVE  ServedIsRenewed'
  BY <1>24, FreeIsFresh
     DEF TypeOK, OwnSlot, ServedIsRenewed, HasLeaf, callVars, RenewalUpdate, Armed
<1>25. ASSUME Restart
      PROVE  ServedIsRenewed'
  BY <1>25
     DEF TypeOK, OwnSlot, ServedIsRenewed, HasLeaf, callVars, Restart
<1>26. ASSUME Tick
      PROVE  ServedIsRenewed'
  BY <1>26
     DEF TypeOK, OwnSlot, ServedIsRenewed, HasLeaf, callVars, Tick
<1>27. ASSUME UNCHANGED vars
      PROVE  ServedIsRenewed'
  BY <1>27
     DEF TypeOK, OwnSlot, ServedIsRenewed, HasLeaf, callVars, vars
<1>28. ASSUME NEW w \in late, LateWrite(w)
      PROVE  ServedIsRenewed'
  BY <1>28 DEF TypeOK, OwnSlot, ServedIsRenewed, HasLeaf, callVars, LateWrite
<1> QED BY <1>1, <1>2, <1>3, <1>4, <1>5, <1>6, <1>7, <1>8, <1>9, <1>10, <1>11, <1>12, <1>13, <1>14, <1>15, <1>16, <1>17, <1>18, <1>19, <1>20, <1>21, <1>22, <1>23, <1>24, <1>25, <1>26, <1>27, <1>28
     DEF Next, CallStep, RenewalStep

---------------------------------------------------------------------------
\* Only calls that the host policy has let pass work on an object that is being
\* created, and only they set removal timers and take write locks.
RefusedInv ==
  /\ RefusedHostNeverBlocks
  /\ \A c \in Call : pc[c] \in {"check", "wait", "lead", "authorize", "unlock"}
                       => tgt[c] \in Permitted

\* An object that becomes the entry of a slot, filled with a certificate.
LEMMA RefusedEntry ==
  ASSUME TypeOK, RefusedHostNeverBlocks, NEW s \in Slot, NEW a \in FreeState, NEW o,
         o.leaf # None, o.wlock = FALSE, heap' = [heap EXCEPT ![a] = o],
         state' = [state EXCEPT ![s] = a], removals' = removals
  PROVE  RefusedHostNeverBlocks'
<1>1. ASSUME NEW t \in Slot \ {s}
      PROVE  state'[t] = state[t] /\ (state[t] # None => heap'[state[t]] = heap[state[t]])
  BY FreeIsFresh DEF TypeOK
<1>2. state'[s] = a /\ heap'[a] = o
  BY FreeIsFresh DEF TypeOK
<1> QED
  BY <1>1, <1>2 DEF RefusedHostNeverBlocks, HasLeaf

\* An object keeps its certificate, if it has one, and is not locked for writing.
LEMMA RefusedKept ==
  ASSUME TypeOK, RefusedHostNeverBlocks,
         UNCHANGED state,
         \A s \in Slot \ Permitted : removals'[s] = removals[s],
         \A a \in State : (heap[a].leaf # None => heap'[a].leaf # None)
                          /\ (~heap[a].wlock => ~heap'[a].wlock)
  PROVE  RefusedHostNeverBlocks'
BY DEF RefusedHostNeverBlocks, HasLeaf, TypeOK

\* Every step preserves RefusedInv.
LEMMA RefusedStep ==
  ASSUME TypeOK, Shape, RefusedInv, [Next]_vars
  PROVE  RefusedInv'
<1> DEFINE Passed == \A c \in Call : pc[c] \in {"check", "wait", "lead", "authorize", "unlock"}
                                       => tgt[c] \in Permitted
<1>1. ASSUME UNCHANGED <<state, heap, removals>> PROVE RefusedHostNeverBlocks'
  BY <1>1 DEF RefusedInv, RefusedHostNeverBlocks, HasLeaf
<1>2. ASSUME UNCHANGED <<pc, tgt>> PROVE Passed'
  BY <1>2 DEF RefusedInv
<1>3. ASSUME NEW c \in Call,
             \/ \E s \in Slot : Begin(c, s)
             \/ LookupEntry(c) \/ LookupCacheMiss(c) \/ ReadEntry(c) \/ RejectHost(c)
             \/ FindState(c) \/ CheckLocked(c) \/ ReadCreated(c) \/ PutAndReturn(c)
      PROVE  RefusedInv'
  <2>1. RefusedHostNeverBlocks'
    BY <1>1, <1>3 DEF Begin, LookupEntry, LookupCacheMiss, ReadEntry, RejectHost,
       FindState, CheckLocked, ReadCreated, PutAndReturn
  <2>2. Passed'
    BY <1>3 DEF TypeOK, RefusedInv, Begin, LookupEntry, LookupCacheMiss, ReadEntry,
       RejectHost, FindState, CheckLocked, ReadCreated, PutAndReturn, Goto, Return
  <2> QED
    BY <2>1, <2>2 DEF RefusedInv
<1>4. ASSUME NEW c \in Call, LookupCacheHit(c) PROVE RefusedInv'
  <2>1. PICK pair \in CacheGet(KeyOf[tgt[c]]) \ {None, Failed}, a \in FreeState :
          /\ heap' = [heap EXCEPT ![a] = [key |-> pair.key, leaf |-> pair.leaf,
                                          wlock |-> FALSE, locked |-> FALSE]]
          /\ state' = [state EXCEPT ![tgt[c]] = a]
          /\ Return(c, pair) /\ removals' = removals
    BY <1>4 DEF LookupCacheHit
  <2>2. pair.leaf # None /\ tgt[c] \in Slot
    <3>1. pair \in Pair /\ tgt[c] \in Slot
      BY <2>1, CertTypes, ConstantsOK DEF TypeOK
    <3> QED
      BY <3>1, ConstantsOK DEF Pair
  <2> DEFINE o == [key |-> pair.key, leaf |-> pair.leaf, wlock |-> FALSE, locked |-> FALSE]
  <2>3. /\ o.leaf # None /\ o.wlock = FALSE /\ heap' = [heap EXCEPT ![a] = o]
        /\ state' = [state EXCEPT ![tgt[c]] = a] /\ removals' = removals
    BY <2>1, <2>2
  <2> HIDE DEF o
  <2>4. RefusedHostNeverBlocks'
    BY <2>2, <2>3, RefusedEntry DEF RefusedInv
  <2>5. Passed'
    BY <2>1 DEF TypeOK, RefusedInv, Return
  <2> QED
    BY <2>4, <2>5 DEF RefusedInv
<1>5. ASSUME NEW c \in Call, MakeState(c) PROVE RefusedInv'
  <2>1. PICK a \in FreeState :
          /\ \A b \in State \ {a} : heap'[b] = heap[b]
          /\ state' = [state EXCEPT ![tgt[c]] = a]
    BY <1>5 DEF MakeState, TypeOK
  <2>2. tgt[c] \in Permitted /\ removals' = removals
    BY <1>5 DEF MakeState
  <2>3. ASSUME NEW s \in Slot \ Permitted
        PROVE  state'[s] = state[s] /\ (state[s] # None => heap'[state[s]] = heap[state[s]])
    BY <2>1, <2>2, FreeIsFresh DEF TypeOK
  <2>4. RefusedHostNeverBlocks'
    BY <2>2, <2>3 DEF RefusedInv, RefusedHostNeverBlocks, HasLeaf
  <2>5. Passed'
    BY <1>5 DEF TypeOK, RefusedInv, MakeState, Goto
  <2> QED
    BY <2>4, <2>5 DEF RefusedInv
<1>6. ASSUME NEW c \in Call, TakeLead(c) \/ Authorized(c) \/ AuthorizeFailed(c) \/ Unlock(c)
      PROVE  RefusedInv'
  <2>1. UNCHANGED state /\ \A s \in Slot \ Permitted : removals'[s] = removals[s]
    BY <1>6 DEF TypeOK, RefusedInv, TakeLead, Authorized, AuthorizeFailed, Unlock
  <2>2. ptr[c] \in State /\ heap[ptr[c]] \in Object /\ None \notin Issued(heap[ptr[c]].key)
    <3>1. pc[c] \in {"lead", "authorize", "unlock"}
      BY <1>6 DEF TakeLead, Authorized, AuthorizeFailed, Unlock
    <3>2. ptr[c] \in State /\ heap[ptr[c]] \in Object /\ heap[ptr[c]].key \in PrivKey
      BY <3>1, HeldObject
    <3> QED
      BY <3>2, CertTypes, ConstantsOK
  <2>3. \A a \in State : (heap[a].leaf # None => heap'[a].leaf # None)
                         /\ (~heap[a].wlock => ~heap'[a].wlock)
    <3>1. CASE TakeLead(c)
      BY <2>2, <3>1 DEF TypeOK, Object, TakeLead
    <3>2. CASE Authorized(c)
      BY <2>2, <3>2 DEF TypeOK, Object, Authorized
    <3>3. CASE AuthorizeFailed(c)
      BY <3>3 DEF AuthorizeFailed
    <3>4. CASE Unlock(c)
      BY <2>2, <3>4 DEF TypeOK, Object, Unlock
    <3> QED
      BY <1>6, <3>1, <3>2, <3>3, <3>4
  <2>4. RefusedHostNeverBlocks'
    BY <2>1, <2>3, RefusedKept DEF RefusedInv
  <2>5. Passed'
    BY <1>6 DEF TypeOK, RefusedInv, TakeLead, Authorized, AuthorizeFailed, Unlock, Goto
  <2> QED
    BY <2>4, <2>5 DEF RefusedInv
<1>7. ASSUME NEW s \in Slot, RemoveFailed(s) PROVE RefusedInv'
  <2>1. s \in Permitted
    BY <1>7 DEF TypeOK, RefusedInv, RefusedHostNeverBlocks, RemoveFailed
  <2>2. \A t \in Slot \ Permitted : removals'[t] = removals[t] /\ state'[t] = state[t]
    BY <1>7, <2>1 DEF TypeOK, RemoveFailed
  <2>3. UNCHANGED <<heap, pc, tgt>>
    BY <1>7 DEF RemoveFailed, callVars
  <2> QED
    BY <1>2, <2>2, <2>3 DEF RefusedInv, RefusedHostNeverBlocks, HasLeaf
<1>8. ASSUME NEW s \in Slot, RenewalUpdate(s) PROVE RefusedInv'
  <2> DEFINE cand == renewal[s].cand
             o == [key |-> cand.key, leaf |-> cand.leaf, wlock |-> FALSE, locked |-> FALSE]
  <2>1. cand.leaf # None
    <3>1. cand \in Pair
      BY <1>8, RenewalAtHand DEF RenewalUpdate
    <3> QED
      BY <3>1, ConstantsOK DEF Pair
  <2>2. PICK a \in FreeState :
          heap' = [heap EXCEPT ![a] = o] /\ state' = [state EXCEPT ![s] = a]
    BY <1>8 DEF RenewalUpdate
  <2>3. o.leaf # None /\ o.wlock = FALSE /\ removals' = removals
    BY <1>8, <2>1 DEF RenewalUpdate
  <2> HIDE DEF o
  <2>4. RefusedHostNeverBlocks'
    BY <2>2, <2>3, RefusedEntry DEF RefusedInv
  <2>5. UNCHANGED <<pc, tgt>>
    BY <1>8 DEF RenewalUpdate, callVars
  <2> QED
    BY <1>2, <2>4, <2>5 DEF RefusedInv
<1>9. ASSUME \/ \E s \in Slot : \/ FireRenewal(s) \/ RenewalGet(s) \/ RenewalAuthorized(s)
                                \/ RenewalFailed(s) \/ RenewalPut(s)
             \/ \E g \in spawned : StartRenewal(g)
             \/ \E w \in late : LateWrite(w)
             \/ Tick \/ UNCHANGED vars
      PROVE  RefusedInv'
  <2>1. UNCHANGED <<state, heap, removals, pc, tgt>>
    BY <1>9 DEF FireRenewal, RenewalGet, RenewalAuthorized, RenewalFailed, RenewalPut,
       StartRenewal, LateWrite, Tick, vars, callVars
  <2> QED
    BY <1>1, <1>2, <2>1 DEF RefusedInv
<1>10. ASSUME Restart PROVE RefusedInv'
  BY <1>10 DEF Restart, RefusedInv, RefusedHostNeverBlocks
<1> QED
  BY <1>3, <1>4, <1>5, <1>6, <1>7, <1>8, <1>9, <1>10
     DEF Next, CallStep, RenewalStep, FatalUnlock

---------------------------------------------------------------------------
\* Every variable keeps its type.
THEOREM TypeOKAlways == Spec => []TypeOK
BY TypeCorrect, PTL DEF TypeInv

\* A certificate is never paired with a key it was not issued for.
THEOREM KeysMatchAlways == Spec => []KeysMatch
<1>1. Init => KeysMatch
  BY DEF Init, KeysMatch, NewObject, NoRenewal
<1>2. TypeInv /\ KeysMatch /\ [Next]_vars => KeysMatch'
  BY KeysMatchStep DEF TypeInv
<1> QED BY TypeCorrect, <1>1, <1>2, PTL DEF Spec

\* Nobody waits for the lock of a certState that nobody is bound to release.
THEOREM LockedHasOwnerAlways == Spec => []LockedHasOwner
<1>1. Init => LockedHasOwner
  BY DEF Init, LockedHasOwner, NewObject
<1>2. TypeInv /\ LockedHasOwner /\ [Next]_vars => LockedHasOwner'
  BY LockedStep DEF TypeInv
<1> QED BY TypeCorrect, <1>1, <1>2, PTL DEF Spec

\* An object belongs to one slot, and the calls that work on it are about it.
THEOREM OwnSlotAlways == Spec => []OwnSlot
<1>1. Init => OwnSlot
  BY DEF Init, OwnSlot
<1>2. TypeInv /\ OwnSlot /\ [Next]_vars => OwnSlot'
  BY OwnStep DEF TypeInv
<1> QED BY TypeCorrect, <1>1, <1>2, PTL DEF Spec

\* An entry without certificate has a call working on it or a removal timer.
THEOREM FailedIsScheduledAlways == Spec => []FailedIsScheduled
<1>1. Init => FailedIsScheduled
  BY DEF Init, FailedIsScheduled
<1>2. TypeInv /\ OwnSlot /\ FailedIsScheduled /\ [Next]_vars => FailedIsScheduled'
  BY FailedStep DEF TypeInv
<1> QED BY TypeCorrect, OwnSlotAlways, <1>1, <1>2, PTL DEF Spec

\* Every certificate in m.state has a renewal loop, running or about to start.
THEOREM ServedIsRenewedAlways == Spec => []ServedIsRenewed
<1>1. Init => ServedIsRenewed
  BY DEF Init, ServedIsRenewed, HasLeaf
<1>2. TypeInv /\ OwnSlot /\ ServedIsRenewed /\ [Next]_vars => ServedIsRenewed'
  BY ServedStep DEF TypeInv
<1> QED BY TypeCorrect, OwnSlotAlways, <1>1, <1>2, PTL DEF Spec

\* A handshake for a host that the policy refuses never meets a lock, a failure that
\* is remembered, or a timer: those belong to the calls that the policy lets pass, and
\* an entry of such a host comes from the cache or from its renewal.
THEOREM RefusedHostNeverBlocksAlways == Spec => []RefusedHostNeverBlocks
<1>1. Init => RefusedInv
  BY DEF Init, RefusedInv, RefusedHostNeverBlocks
<1>2. TypeInv /\ RefusedInv /\ [Next]_vars => RefusedInv'
  BY RefusedStep DEF TypeInv
<1>3. RefusedInv => RefusedHostNeverBlocks
  BY DEF RefusedInv
<1> QED BY TypeCorrect, <1>1, <1>2, <1>3, PTL DEF Spec
=============================================================================
