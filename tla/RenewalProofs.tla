--------------------------- MODULE RenewalProofs ---------------------------
(* Proofs that the renewals of CertManager come in time, and replace a     *)
(* certificate by a later one for the same key.                            *)
EXTENDS CertManagerProofs

---------------------------------------------------------------------------
(* What a step does to the entry of a slot that has a certificate.         *)

\* A slot that serves a certificate keeps serving it while the process runs, until
\* its renewal puts the certificate it has in hand in its place.
LEMMA EntryKept ==
  ASSUME TypeOK, Shape, CreationOK, RemovalsOK, [Next]_vars, ~Restart,
         NEW s \in Slot, HasLeaf(s)
  PROVE  /\ HasLeaf(s)'
         /\ \/ EntryKey(s)' = EntryKey(s) /\ EntryExp(s)' = EntryExp(s)
            \/ /\ renewal[s].phase \in {"adopt", "update"}
               /\ renewal'[s].phase = "armed"
               /\ EntryKey(s)' = renewal[s].cand.key
               /\ EntryExp(s)' = renewal[s].cand.leaf.exp
<1> DEFINE Kept == /\ state'[s] = state[s]
                   /\ heap'[state[s]].key = heap[state[s]].key
                   /\ heap'[state[s]].leaf = heap[state[s]].leaf
<1> SUFFICES \/ Kept
             \/ /\ renewal[s].phase \in {"adopt", "update"}
                /\ renewal'[s].phase = "armed"
                /\ state'[s] # None
                /\ heap'[state'[s]].key = renewal[s].cand.key
                /\ heap'[state'[s]].leaf = renewal[s].cand.leaf
                /\ renewal[s].cand.leaf # None
  BY DEF HasLeaf, EntryKey, EntryExp
<1>0. state[s] \in State /\ heap[state[s]].leaf # None
  BY DEF HasLeaf, TypeOK
<1>1. ASSUME UNCHANGED <<state, heap>>
      PROVE  Kept
  BY <1>1
<1>2. ASSUME NEW a \in FreeState, NEW t \in Slot, NEW o, state[t] = None,
             heap' = [heap EXCEPT ![a] = o], state' = [state EXCEPT ![t] = a]
      PROVE  Kept
  BY <1>0, <1>2, FreeIsFresh, ConstantsOK DEF TypeOK
<1>3. ASSUME NEW c \in Call, LookupCacheHit(c)
      PROVE  Kept
  BY <1>2, <1>3 DEF LookupCacheHit, TypeOK
<1>4. ASSUME NEW c \in Call, MakeState(c)
      PROVE  Kept
  BY <1>2, <1>4 DEF MakeState, TypeOK
<1>5. ASSUME NEW c \in Call, TakeLead(c)
      PROVE  Kept
  BY <1>0, <1>5 DEF TakeLead, TypeOK, Object
<1>6. ASSUME NEW c \in Call, Unlock(c)
      PROVE  Kept
  BY <1>0, <1>6 DEF Unlock, TypeOK, Object
<1>7. ASSUME NEW c \in Call, Authorized(c)
      PROVE  Kept
  <2>1. ptr[c] # state[s]
    BY <1>0, <1>7 DEF Authorized, CreationOK
  <2> QED BY <1>0, <1>7, <2>1 DEF Authorized, TypeOK
<1>8. ASSUME NEW t \in Slot, RemoveFailed(t)
      PROVE  Kept
  <2>1. t # s
    BY <1>0, <1>8 DEF RemoveFailed, RemovalsOK
  <2> QED BY <1>0, <1>8, <2>1 DEF RemoveFailed, TypeOK
<1>9. ASSUME NEW t \in Slot, RenewalUpdate(t), t # s
      PROVE  Kept
  BY <1>0, <1>9, FreeIsFresh DEF RenewalUpdate, TypeOK
<1>10. ASSUME RenewalUpdate(s)
       PROVE  /\ renewal[s].phase \in {"adopt", "update"}
              /\ renewal'[s].phase = "armed"
              /\ state'[s] # None
              /\ heap'[state'[s]].key = renewal[s].cand.key
              /\ heap'[state'[s]].leaf = renewal[s].cand.leaf
              /\ renewal[s].cand.leaf # None
  <2> DEFINE cand == renewal[s].cand
  <2>1. cand \in Pair /\ cand.leaf # None
    BY <1>10, RenewalAtHand, ConstantsOK DEF RenewalUpdate, Pair
  <2>2. PICK a \in FreeState :
          /\ heap' = [heap EXCEPT ![a] = [key |-> cand.key, leaf |-> cand.leaf,
                                          wlock |-> FALSE, locked |-> FALSE]]
          /\ state' = [state EXCEPT ![s] = a]
    BY <1>10 DEF RenewalUpdate
  <2>3. a \in State /\ a # None
    BY FreeIsFresh, ConstantsOK
  <2>4. renewal'[s].phase = "armed"
    BY <1>10 DEF RenewalUpdate, Armed, TypeOK
  <2> QED BY <1>10, <2>1, <2>2, <2>3, <2>4 DEF RenewalUpdate, TypeOK
<1> HIDE DEF Kept
<1>11. ASSUME NEW c \in Call, NEW t \in Slot, Begin(c, t) \/ CallStep(c)
       PROVE  Kept
  BY <1>1, <1>3, <1>4, <1>5, <1>6, <1>7, <1>11
     DEF CallStep, Begin, LookupEntry, LookupCacheMiss, ReadEntry, RejectHost,
         FindState, CheckLocked, ReadCreated, AuthorizeFailed, FatalUnlock,
         PutAndReturn
<1>12. ASSUME NEW t \in Slot, RenewalStep(t), ~RenewalUpdate(t)
       PROVE  Kept
  BY <1>1, <1>12
     DEF RenewalStep, FireRenewal, RenewalGet, RenewalAuthorized, RenewalFailed,
         RenewalPut
<1>13. ASSUME (\E g \in spawned : StartRenewal(g)) \/ (\E w \in late : LateWrite(w)) \/ Tick \/ UNCHANGED vars
       PROVE  Kept
  BY <1>1, <1>13 DEF StartRenewal, LateWrite, Tick, vars
<1> QED BY <1>8, <1>9, <1>10, <1>11, <1>12, <1>13 DEF Next

\* The loop of a slot is in order after a step that leaves it, the clock, and the
\* goroutines about to start it alone.
LEMMA LoopLeftAlone ==
  ASSUME TypeOK, Shape, Orderly, [Next]_vars, ~Restart, NEW s \in Slot,
         now' = now, renewal'[s] = renewal[s],
         \A g \in spawned' : g.slot = s => g \in spawned
  PROVE  LoopOK(s)'
<1>1. LoopOK(s)
  BY DEF Orderly
<1>2. HasLeaf(s) => /\ HasLeaf(s)'
                    /\ EntryKey(s)' = EntryKey(s) /\ EntryExp(s)' = EntryExp(s)
  BY EntryKept DEF Orderly
<1>3. CASE HasLeaf(s)
  BY <1>1, <1>2, <1>3 DEF LoopOK
<1>4. CASE ~HasLeaf(s)
  BY <1>1, <1>4 DEF LoopOK
<1> QED BY <1>3, <1>4

---------------------------------------------------------------------------
(* Who creates a certificate, and who removes a failed entry.              *)

\* Two calls that lead at the same time lead on different objects.
LEMMA LeadersApart ==
  ASSUME ~Doomed, NEW c \in Call, NEW d \in Call, Leading(c), Leading(d), c # d
  PROVE  ptr[c] # ptr[d]
BY DEF Doomed

\* Every step preserves CreationOK, as long as no two calls lead on one object.
LEMMA CreationStep ==
  ASSUME TypeOK, Shape, CreationOK, RemovalsOK, \A s \in Slot : LoopOK(s),
         ~Doomed, [Next]_vars
  PROVE  CreationOK'
<1>1. ASSUME UNCHANGED <<state, heap, pc, tgt, ptr>>
      PROVE  CreationOK'
  BY <1>1 DEF CreationOK
<1>2. ASSUME NEW c \in Call, NEW label, label \notin {"check", "lead", "authorize", "unlock"},
             pc' = [pc EXCEPT ![c] = label],
             \A d \in Call \ {c} : ptr'[d] = ptr[d] /\ tgt'[d] = tgt[d],
             UNCHANGED <<state, heap>>
      PROVE  CreationOK'
  BY <1>2 DEF CreationOK, TypeOK
<1>3. ASSUME NEW c \in Call, NEW s \in Slot, Begin(c, s)
      PROVE  CreationOK'
  BY <1>2, <1>3 DEF Begin, Goto, TypeOK
<1>4. ASSUME NEW c \in Call,
             \/ LookupEntry(c) \/ LookupCacheMiss(c) \/ ReadEntry(c)
             \/ RejectHost(c) \/ ReadCreated(c) \/ PutAndReturn(c)
      PROVE  CreationOK'
  BY <1>2, <1>4 DEF LookupEntry, LookupCacheMiss, ReadEntry, RejectHost, ReadCreated,
     PutAndReturn, Goto, Return, TypeOK
<1>5. ASSUME NEW c \in Call, LookupCacheHit(c)
      PROVE  CreationOK'
  BY <1>5, FreeIsFresh DEF LookupCacheHit, Return, CreationOK, TypeOK, Shape
<1>6. ASSUME NEW c \in Call, FindState(c)
      PROVE  CreationOK'
  BY <1>6 DEF FindState, Goto, CreationOK, TypeOK
<1>7. ASSUME NEW c \in Call, MakeState(c)
      PROVE  CreationOK'
  BY <1>7, FreeIsFresh DEF MakeState, Goto, CreationOK, TypeOK, Shape
<1>8. ASSUME NEW c \in Call, CheckLocked(c)
      PROVE  CreationOK'
  BY <1>8, HeldObject DEF CheckLocked, Goto, CreationOK, TypeOK
<1>9. ASSUME NEW c \in Call, TakeLead(c)
      PROVE  CreationOK'
  <2>1. \A d \in Call \ {c} : Leading(d) => ptr[d] # ptr[c]
    BY <1>9, LeadersApart DEF TakeLead, Leading
  <2>2. ptr[c] \in State /\ heap[ptr[c]] \in Object
    BY <1>9, HeldObject DEF TakeLead
  <2>3. \A a \in State : /\ heap'[a].leaf = heap[a].leaf
                         /\ heap'[a].locked = (heap[a].locked /\ a # ptr[c])
    BY <1>9, <2>2 DEF TakeLead, TypeOK, Object
  <2>4. \A d \in Call : pc[d] \in {"check", "lead", "authorize", "unlock"} => ptr[d] \in State
    BY HeldObject
  <2> QED BY <1>9, <2>1, <2>3, <2>4 DEF TakeLead, Goto, CreationOK, TypeOK, Leading
<1>10. ASSUME NEW c \in Call, Authorized(c)
       PROVE  CreationOK'
  <2>1. \A d \in Call \ {c} : Leading(d) => ptr[d] # ptr[c]
    BY <1>10, LeadersApart DEF Authorized, Leading
  <2>2. ptr[c] \in State /\ heap[ptr[c]] \in Object /\ ~heap[ptr[c]].locked
    BY <1>10, HeldObject DEF Authorized, CreationOK
  <2>3. \A a \in State : /\ heap'[a].locked = heap[a].locked
                         /\ a # ptr[c] => heap'[a].leaf = heap[a].leaf
    BY <1>10, <2>2 DEF Authorized, TypeOK, Object
  <2>4. \A d \in Call : pc[d] \in {"check", "lead", "authorize", "unlock"} => ptr[d] \in State
    BY HeldObject
  <2> QED BY <1>10, <2>1, <2>2, <2>3, <2>4 DEF Authorized, Goto, CreationOK, TypeOK, Leading
<1>11. ASSUME NEW c \in Call, AuthorizeFailed(c)
       PROVE  CreationOK'
  BY <1>11 DEF AuthorizeFailed, Goto, CreationOK, TypeOK
<1>12. ASSUME NEW c \in Call, Unlock(c)
       PROVE  CreationOK'
  <2>1. ptr[c] \in State /\ heap[ptr[c]] \in Object
    BY <1>12, HeldObject DEF Unlock
  <2>2. \A a \in State : /\ heap'[a].locked = heap[a].locked
                         /\ heap'[a].leaf = heap[a].leaf
    BY <1>12, <2>1 DEF Unlock, TypeOK, Object
  <2>3. \A d \in Call : pc[d] \in {"check", "lead", "authorize", "unlock"} => ptr[d] \in State
    BY HeldObject
  <2> QED BY <1>12, <2>2, <2>3 DEF Unlock, Goto, CreationOK, TypeOK
<1>13. ASSUME NEW s \in Slot, RemoveFailed(s)
       PROVE  CreationOK'
  <2>1. \A d \in Call : \/ pc[d] \in {"lead", "authorize"}
                        \/ pc[d] = "check" /\ heap[ptr[d]].locked => ptr[d] # state[s]
    BY <1>13, HeldObject DEF RemoveFailed, RemovalsOK
  <2> QED BY <1>13, <2>1 DEF RemoveFailed, callVars, CreationOK, TypeOK, RemovalsOK
<1>14. ASSUME NEW s \in Slot, RenewalUpdate(s)
       PROVE  CreationOK'
  <2>1. heap[state[s]].leaf # None
    BY <1>14 DEF RenewalUpdate, LoopOK, HasLeaf
  <2> QED BY <1>14, <2>1, FreeIsFresh, HeldObject
          DEF RenewalUpdate, callVars, CreationOK, TypeOK
<1>15. ASSUME Restart
       PROVE  CreationOK'
  BY <1>15 DEF Restart, CreationOK, NewObject
<1>16. ASSUME NEW s \in Slot, RenewalStep(s), ~RenewalUpdate(s)
       PROVE  CreationOK'
  BY <1>1, <1>16 DEF RenewalStep, FireRenewal, RenewalGet, RenewalAuthorized,
     RenewalFailed, RenewalPut, callVars
<1>17. ASSUME (\E g \in spawned : StartRenewal(g)) \/ (\E w \in late : LateWrite(w)) \/ Tick \/ UNCHANGED vars
       PROVE  CreationOK'
  BY <1>1, <1>17 DEF StartRenewal, LateWrite, Tick, vars, callVars
<1> QED
  BY <1>3, <1>4, <1>5, <1>6, <1>7, <1>8, <1>9, <1>10, <1>11, <1>12, <1>13, <1>14,
     <1>15, <1>16, <1>17
     DEF Next, CallStep, FatalUnlock

\* Every step preserves RemovalsOK, as long as no two calls lead on one object.
LEMMA RemovalsStep ==
  ASSUME TypeOK, Shape, CreationOK, RemovalsOK, \A s \in Slot : LoopOK(s),
         ~Doomed, [Next]_vars
  PROVE  RemovalsOK'
<1>0. \A s \in Slot : removals[s] > 0 => state[s] \in State /\ heap[state[s]] \in Object
  BY DEF RemovalsOK, TypeOK
<1>1. ASSUME NEW c \in Call, NEW label, label \notin {"lead", "authorize"},
             pc' = [pc EXCEPT ![c] = label],
             \A d \in Call \ {c} : ptr'[d] = ptr[d],
             UNCHANGED <<state, heap, removals>>
      PROVE  RemovalsOK'
  BY <1>1 DEF RemovalsOK, TypeOK
<1>2. ASSUME NEW c \in Call, NEW s \in Slot, Begin(c, s)
      PROVE  RemovalsOK'
  BY <1>1, <1>2 DEF Begin, Goto
<1>3. ASSUME NEW c \in Call,
             \/ LookupEntry(c) \/ LookupCacheMiss(c) \/ ReadEntry(c)
             \/ RejectHost(c) \/ FindState(c) \/ ReadCreated(c) \/ PutAndReturn(c)
      PROVE  RemovalsOK'
  BY <1>1, <1>3 DEF LookupEntry, LookupCacheMiss, ReadEntry, RejectHost, FindState,
     ReadCreated, PutAndReturn, Goto, Return, TypeOK
<1>4. ASSUME NEW c \in Call, LookupCacheHit(c)
      PROVE  RemovalsOK'
  BY <1>0, <1>4, FreeIsFresh DEF LookupCacheHit, Return, RemovalsOK, TypeOK, Shape
<1>5. ASSUME NEW c \in Call, MakeState(c)
      PROVE  RemovalsOK'
  BY <1>0, <1>5, FreeIsFresh DEF MakeState, Goto, RemovalsOK, TypeOK, Shape
<1>6. ASSUME NEW c \in Call, CheckLocked(c)
      PROVE  RemovalsOK'
  BY <1>6, HeldObject DEF CheckLocked, Goto, RemovalsOK, TypeOK
<1>7. ASSUME NEW c \in Call, TakeLead(c)
      PROVE  RemovalsOK'
  <2>1. \A s \in Slot : removals[s] > 0 => ptr[c] # state[s]
    BY <1>7 DEF TakeLead, RemovalsOK
  <2> QED BY <1>0, <1>7, <2>1 DEF TakeLead, Goto, RemovalsOK, TypeOK
<1>8. ASSUME NEW c \in Call, Authorized(c)
      PROVE  RemovalsOK'
  <2>1. \A s \in Slot : removals[s] > 0 => ptr[c] # state[s]
    BY <1>8 DEF Authorized, RemovalsOK
  <2> QED BY <1>0, <1>8, <2>1 DEF Authorized, Goto, RemovalsOK, TypeOK
<1>9. ASSUME NEW c \in Call, AuthorizeFailed(c)
      PROVE  RemovalsOK'
  <2>1. state[tgt[c]] = ptr[c] /\ heap[ptr[c]].leaf = None /\ ~heap[ptr[c]].locked
    BY <1>9 DEF AuthorizeFailed, CreationOK
  <2>2. removals[tgt[c]] = 0
    BY <1>9, <2>1 DEF AuthorizeFailed, RemovalsOK, TypeOK
  <2>3. \A d \in Call \ {c} : pc[d] \in {"lead", "authorize"} => ptr[d] # ptr[c]
    BY <1>9, LeadersApart DEF AuthorizeFailed, Leading
  <2>4. ptr[c] # None
    BY <1>9, HeldObject, ConstantsOK DEF AuthorizeFailed
  <2>5. ASSUME NEW s \in Slot, s # tgt[c], removals'[s] > 0
        PROVE  /\ removals'[s] = 1 /\ state'[s] # None
               /\ heap'[state'[s]].leaf = None /\ ~heap'[state'[s]].locked
               /\ \A d \in Call : pc'[d] \in {"lead", "authorize"} => ptr'[d] # state'[s]
    BY <1>9, <2>5 DEF AuthorizeFailed, Goto, RemovalsOK, TypeOK
  <2>6. /\ removals'[tgt[c]] = 1 /\ state'[tgt[c]] # None
        /\ heap'[state'[tgt[c]]].leaf = None /\ ~heap'[state'[tgt[c]]].locked
        /\ \A d \in Call : pc'[d] \in {"lead", "authorize"} => ptr'[d] # state'[tgt[c]]
    BY <1>9, <2>1, <2>2, <2>3, <2>4 DEF AuthorizeFailed, Goto, TypeOK
  <2> QED BY <2>5, <2>6 DEF RemovalsOK
<1>10. ASSUME NEW c \in Call, Unlock(c)
       PROVE  RemovalsOK'
  <2>1. \A a \in State : /\ heap'[a].locked = heap[a].locked
                         /\ heap'[a].leaf = heap[a].leaf
    BY <1>10, HeldObject DEF Unlock, TypeOK, Object
  <2> QED BY <1>0, <1>10, <2>1 DEF Unlock, Goto, RemovalsOK, TypeOK
<1>11. ASSUME NEW s \in Slot, RemoveFailed(s)
       PROVE  RemovalsOK'
  <2>1. removals[s] = 1
    BY <1>11 DEF RemoveFailed, RemovalsOK
  <2>2. removals' = [removals EXCEPT ![s] = 0]
    BY <1>11, <2>1 DEF RemoveFailed
  <2>3. \A t \in Slot : t # s => state'[t] = state[t]
    BY <1>11 DEF RemoveFailed, TypeOK
  <2> QED BY <1>11, <2>2, <2>3 DEF RemoveFailed, callVars, RemovalsOK, TypeOK
<1>12. ASSUME NEW s \in Slot, RenewalUpdate(s)
       PROVE  RemovalsOK'
  <2>1. removals[s] = 0
    BY <1>12 DEF RenewalUpdate, LoopOK, HasLeaf, RemovalsOK, TypeOK
  <2> QED BY <1>0, <1>12, <2>1, FreeIsFresh
          DEF RenewalUpdate, callVars, RemovalsOK, TypeOK
<1>13. ASSUME Restart
       PROVE  RemovalsOK'
  BY <1>13 DEF Restart, RemovalsOK
<1>14. ASSUME NEW s \in Slot, RenewalStep(s), ~RenewalUpdate(s)
       PROVE  RemovalsOK'
  BY <1>14 DEF RenewalStep, FireRenewal, RenewalGet, RenewalAuthorized,
     RenewalFailed, RenewalPut, callVars, RemovalsOK
<1>15. ASSUME (\E g \in spawned : StartRenewal(g)) \/ (\E w \in late : LateWrite(w)) \/ Tick \/ UNCHANGED vars
       PROVE  RemovalsOK'
  BY <1>15 DEF StartRenewal, LateWrite, Tick, vars, callVars, RemovalsOK
<1> QED
  BY <1>2, <1>3, <1>4, <1>5, <1>6, <1>7, <1>8, <1>9, <1>10, <1>11, <1>12, <1>13,
     <1>14, <1>15
     DEF Next, CallStep, FatalUnlock

---------------------------------------------------------------------------
(* The renewal loops.                                                      *)

\* A timer set for a certificate fires at once or before RenewBefore ahead of its
\* expiry, and less than renewJitter before that; a retry comes within renewJitter.
LEMMA DelayBounds ==
  ASSUME now \in Nat, NEW exp \in Nat
  PROVE  /\ \A d \in NextDelay(exp) :
              /\ d \in Nat
              /\ d = 0 \/ now + d <= exp - RenewBefore
              /\ exp < now + d + RenewBefore + RenewJitter
         /\ \A d \in RetryDelay : d \in Nat /\ d <= RenewJitter
  BY ConstantsOK DEF NextDelay, RetryDelay

\* The entry of a slot with a certificate, as numbers and keys.
LEMMA EntryTypes ==
  ASSUME TypeOK, Shape, NEW s \in Slot, HasLeaf(s)
  PROVE  EntryExp(s) \in Nat /\ EntryKey(s) \in PrivKey
<1>1. heap[state[s]] \in Object /\ heap[state[s]].leaf # None /\ heap[state[s]].key # None
  BY DEF HasLeaf, TypeOK, Shape
<1> QED BY <1>1 DEF Object, Leaf, EntryExp, EntryKey

\* Every step keeps the renewal loops in order.
LEMMA LoopStep ==
  ASSUME TypeOK, Shape, Orderly, [Next]_vars, ~Restart,
         NEW s \in Slot
  PROVE  LoopOK(s)'
<1>1. LoopOK(s)
  BY DEF Orderly
<1>2. renewal[s] \in Renewal /\ now \in Nat
  BY DEF TypeOK
<1>3. ASSUME NEW c \in Call, LookupCacheHit(c)
      PROVE  LoopOK(s)'
  <2>1. PICK pair \in CacheGet(KeyOf[tgt[c]]) \ {None, Failed}, a \in FreeState :
          /\ heap' = [heap EXCEPT ![a] = [key |-> pair.key, leaf |-> pair.leaf,
                                          wlock |-> FALSE, locked |-> FALSE]]
          /\ state' = [state EXCEPT ![tgt[c]] = a]
          /\ spawned' = spawned \union {[slot |-> tgt[c], key |-> pair.key,
                                         exp |-> pair.leaf.exp]}
    BY <1>3 DEF LookupCacheHit
  <2>2. CASE tgt[c] # s
    BY <1>3, <2>1, <2>2, LoopLeftAlone DEF LookupCacheHit
  <2>3. CASE tgt[c] = s
    <3>1. ~HasLeaf(s)
      BY <1>3, <2>3 DEF LookupCacheHit, HasLeaf
    <3>2. renewal'[s].phase = "none" /\ \A g \in spawned : g.slot # s
      BY <1>1, <1>3, <3>1 DEF LoopOK, LookupCacheHit
    <3>3. pair.leaf # None /\ a \in State /\ a # None
      BY CertTypes, FreeIsFresh, ConstantsOK DEF TypeOK, Pair
    <3>4. HasLeaf(s)' /\ EntryKey(s)' = pair.key /\ EntryExp(s)' = pair.leaf.exp
      BY <2>1, <2>3, <3>3 DEF HasLeaf, EntryKey, EntryExp, TypeOK
    <3> QED BY <2>1, <2>3, <3>2, <3>4 DEF LoopOK
  <2> QED BY <2>2, <2>3
<1>4. ASSUME NEW c \in Call, Authorized(c)
      PROVE  LoopOK(s)'
  <2>0. heap[ptr[c]].key \in PrivKey
    BY <1>4, HeldObject DEF Authorized
  <2> DEFINE key == heap[ptr[c]].key
  <2>1. PICK leaf \in Issued(key) :
          /\ heap' = [heap EXCEPT ![ptr[c]].leaf = leaf]
          /\ spawned' = spawned \union {[slot |-> tgt[c], key |-> key,
                                         exp |-> leaf.exp]}
    BY <1>4 DEF Authorized
  <2>4. leaf \in Leaf
    BY <2>0, CertTypes
  <2>2. CASE tgt[c] # s
    BY <1>4, <2>1, <2>2, LoopLeftAlone DEF Authorized
  <2>3. CASE tgt[c] = s
    <3>1. state[s] = ptr[c] /\ heap[ptr[c]].leaf = None
      BY <1>4, <2>3 DEF Authorized, Orderly, CreationOK
    <3>2. renewal'[s].phase = "none" /\ \A g \in spawned : g.slot # s
      BY <1>1, <1>4, <3>1 DEF LoopOK, Authorized, HasLeaf
    <3>3. /\ leaf # None /\ ptr[c] \in State /\ ptr[c] # None
          /\ heap[ptr[c]] \in Object
      BY <1>4, <2>4, HeldObject, ConstantsOK DEF Authorized
    <3>4. HasLeaf(s)' /\ EntryKey(s)' = key /\ EntryExp(s)' = leaf.exp
      BY <1>4, <2>1, <3>1, <3>3
         DEF HasLeaf, EntryKey, EntryExp, TypeOK, Authorized, Object
    <3> QED BY <2>1, <2>3, <3>2, <3>4 DEF LoopOK
  <2> QED BY <2>2, <2>3
<1>5. ASSUME NEW c \in Call, NEW t \in Slot,
             Begin(c, t) \/ CallStep(c), ~LookupCacheHit(c), ~Authorized(c)
      PROVE  LoopOK(s)'
  <2>1. now' = now /\ renewal' = renewal /\ spawned' = spawned
    BY <1>5 DEF CallStep, Begin, LookupEntry, LookupCacheMiss, ReadEntry, RejectHost,
       FindState, MakeState, CheckLocked, TakeLead, ReadCreated, AuthorizeFailed,
       Unlock, FatalUnlock, PutAndReturn
  <2> QED BY <2>1, LoopLeftAlone
<1>6. ASSUME NEW t \in Slot, RemoveFailed(t)
      PROVE  LoopOK(s)'
  BY <1>6, LoopLeftAlone DEF RemoveFailed
<1>7. ASSUME NEW t \in Slot, RenewalStep(t), t # s
      PROVE  LoopOK(s)'
  <2>1. now' = now /\ spawned' = spawned
    BY <1>7 DEF RenewalStep, FireRenewal, RenewalGet, RenewalAuthorized, RenewalFailed,
       RenewalPut, RenewalUpdate
  <2>2. renewal'[s] = renewal[s]
    <3>1. CASE RenewalGet(t)
      BY <1>7, <3>1, GetResult
    <3>2. CASE RenewalUpdate(t)
      BY <1>7, <3>2 DEF RenewalUpdate, TypeOK
    <3>3. CASE RenewalAuthorized(t)
      BY <1>7, <3>3, IssueResult
    <3>4. CASE RenewalFailed(t) \/ RenewalPut(t)
      BY <1>7, <3>4 DEF RenewalFailed, RenewalPut, RetryRenewal, TypeOK
    <3> QED BY <1>7, <3>1, <3>2, <3>3, <3>4 DEF RenewalStep, FireRenewal, TypeOK
  <2> QED BY <2>1, <2>2, LoopLeftAlone
<1>8. ASSUME NEW g \in spawned, StartRenewal(g)
      PROVE  LoopOK(s)'
  <2>1. CASE renewal[g.slot].phase # "none" \/ g.slot # s
    <3>1. renewal'[s] = renewal[s]
      BY <1>8, <2>1 DEF StartRenewal, TypeOK
    <3> QED BY <1>8, <3>1, LoopLeftAlone DEF StartRenewal
  <2>2. CASE renewal[g.slot].phase = "none" /\ g.slot = s
    <3>1. HasLeaf(s) /\ g.key = EntryKey(s) /\ g.exp = EntryExp(s) /\ g.exp \in Nat
      BY <1>1, <2>2 DEF LoopOK, TypeOK
    <3>2. PICK d \in NextDelay(g.exp) : renewal' = [renewal EXCEPT ![s] = Armed(g.key, now + d)]
      BY <1>8, <2>2 DEF StartRenewal
    <3>3. renewal'[s] = Armed(g.key, now + d)
      BY <3>2 DEF TypeOK
    <3>4. g.exp < now + d + RenewBefore + RenewJitter
      BY <1>2, <3>1, DelayBounds
    <3>5. /\ HasLeaf(s)' /\ EntryKey(s)' = EntryKey(s) /\ EntryExp(s)' = EntryExp(s)
          /\ now' = now /\ spawned' \subseteq spawned
      BY <1>8, <3>1 DEF StartRenewal, HasLeaf, EntryKey, EntryExp
    <3> QED BY <3>1, <3>3, <3>4, <3>5 DEF LoopOK, Armed
  <2> QED BY <2>1, <2>2
<1>9. ASSUME FireRenewal(s) \/ RenewalGet(s) \/ RenewalAuthorized(s)
             \/ RenewalFailed(s) \/ RenewalPut(s)
      PROVE  LoopOK(s)'
  <2> DEFINE exp == EntryExp(s)
             r == renewal[s]
  <2>1. HasLeaf(s) /\ r.key = EntryKey(s) /\ exp \in Nat
    BY <1>1, <1>9, EntryTypes DEF LoopOK, FireRenewal, RenewalGet, RenewalAuthorized,
       RenewalFailed, RenewalPut
  <2>2. /\ HasLeaf(s)' /\ EntryKey(s)' = r.key /\ EntryExp(s)' = exp
        /\ now' = now /\ spawned' = spawned
    BY <1>9, <2>1 DEF HasLeaf, EntryKey, EntryExp, FireRenewal, RenewalGet,
       RenewalAuthorized, RenewalFailed, RenewalPut
  <2>3. \A g \in spawned' : g.slot = s => HasLeaf(s)'
    BY <2>2
  <2>4. CASE FireRenewal(s)
    <3>1. /\ r.due <= now /\ exp < r.due + RenewBefore + RenewJitter /\ r.due \in Nat
          /\ exp < now + RenewBefore + RenewJitter
      BY <1>1, <1>2, <2>1, <2>4, ConstantsOK DEF FireRenewal, LoopOK, Renewal
    <3>2. renewal'[s] = [r EXCEPT !.phase = "get"]
      BY <2>4 DEF FireRenewal, TypeOK
    <3> QED BY <1>2, <2>2, <3>1, <3>2 DEF LoopOK, Renewal
  <2>5. CASE RetryRenewal(s) /\ r.phase \in {"authorize", "put"}
    <3>1. PICK d \in RetryDelay : renewal'[s] = Armed(r.key, now + d)
      BY <2>5 DEF RetryRenewal, TypeOK
    <3>2. d \in Nat /\ d <= RenewJitter
      BY <1>2, <2>1, DelayBounds
    <3>3. exp < now + RenewBefore + RenewJitter
      BY <1>1, <2>5 DEF LoopOK
    <3>4. exp < now + d + RenewBefore + RenewJitter
      BY <1>2, <2>1, <3>2, <3>3, ConstantsOK
    <3> QED BY <2>2, <3>1, <3>4 DEF LoopOK, Armed
  <2>6. CASE RenewalGet(s)
    <3>1. exp < now + RenewBefore + RenewJitter /\ r.phase = "get"
      BY <1>1, <2>6 DEF LoopOK, RenewalGet
    <3>2. CASE renewal'[s].phase = "authorize"
      BY <2>2, <2>6, <3>1, <3>2, GetResult DEF LoopOK
    <3>3. ASSUME NEW found \in CacheGet(KeyOf[s]) \ {None, Failed},
                 renewal'[s].phase = "adopt", renewal'[s].cand = found,
                 renewal'[s].next \in NextDelay(found.leaf.exp),
                 renewal'[s].next > RenewBefore + RenewJitter,
                 renewal'[s].asof = now, renewal'[s].key = r.key
          PROVE  LoopOK(s)'
      <4> DEFINE d == renewal'[s].next
      <4>1. found.leaf.exp \in Nat
        BY CertTypes, ConstantsOK DEF TypeOK, Pair, Leaf
      <4>2. /\ d \in Nat /\ (d = 0 \/ now + d <= found.leaf.exp - RenewBefore)
            /\ found.leaf.exp < now + d + RenewBefore + RenewJitter
        BY <1>2, <3>3, <4>1, DelayBounds
      <4>3. now + d <= found.leaf.exp - RenewBefore
        BY <3>3, <4>2, ConstantsOK
      <4>4. found.leaf.exp >= exp
        BY <1>2, <2>1, <3>1, <3>3, <4>1, <4>2, <4>3, ConstantsOK
      <4>5. now <= now
        BY <1>2
      <4> QED BY <2>2, <3>3, <4>2, <4>3, <4>4, <4>5 DEF LoopOK
    <3> QED BY <2>6, <3>2, <3>3, GetResult
  <2>7. CASE RenewalAuthorized(s)
    <3>1. exp < now + RenewBefore + RenewJitter
      BY <1>1, <2>7 DEF LoopOK, RenewalAuthorized
    <3>2. PICK leaf \in Issued(r.key) :
            /\ leaf \in Leaf /\ renewal'[s].phase = "put" /\ renewal'[s].key = r.key
            /\ renewal'[s].cand = [key |-> r.key, leaf |-> leaf]
      BY <2>7, IssueResult
    <3>3. PICK l \in Lifetimes : leaf.exp = now + l
      BY DEF Issued
    <3>4. leaf.exp + RenewBefore + RenewJitter > exp + l
      BY <1>2, <2>1, <3>1, <3>3, ConstantsOK
    <3>5. renewal'[s].cand.leaf = leaf /\ renewal'[s].cand.key = r.key
      BY <3>2
    <3> QED BY <2>2, <3>1, <3>2, <3>4, <3>5 DEF LoopOK
  <2>8. CASE RenewalPut(s) /\ renewal' = [renewal EXCEPT ![s].phase = "update"]
    <3>1. renewal'[s] = [r EXCEPT !.phase = "update"]
      BY <2>8 DEF TypeOK
    <3>2. /\ \E l \in Lifetimes : r.cand.leaf.exp + RenewBefore + RenewJitter > exp + l
          /\ r.cand.key = r.key
      BY <1>1, <2>8 DEF LoopOK, RenewalPut
    <3> QED BY <1>2, <2>2, <3>1, <3>2 DEF LoopOK, Renewal
  <2> QED BY <1>9, <2>4, <2>5, <2>6, <2>7, <2>8 DEF RenewalFailed, RenewalPut
<1>10. ASSUME RenewalUpdate(s)
       PROVE  LoopOK(s)'
  <2> DEFINE cand == renewal[s].cand
  <2>1. cand \in Pair /\ cand.leaf.exp \in Nat
    BY <1>10, RenewalAtHand DEF RenewalUpdate, Pair, Leaf
  <2>2. HasLeaf(s) /\ (renewal[s].phase = "adopt" =>
          /\ renewal[s].asof <= now
          /\ cand.leaf.exp < renewal[s].asof + renewal[s].next + RenewBefore + RenewJitter)
    BY <1>1, <1>10 DEF LoopOK, RenewalUpdate
  <2>3. PICK due : /\ renewal'[s] = Armed(cand.key, due)
                   /\ \/ renewal[s].phase = "adopt" /\ due = now + renewal[s].next
                      \/ \E d \in NextDelay(cand.leaf.exp) : due = now + d
    BY <1>10 DEF RenewalUpdate, TypeOK
  <2>4. cand.leaf.exp < due + RenewBefore + RenewJitter
    <3>1. renewal[s].asof \in Nat /\ renewal[s].next \in Nat
      BY <1>2 DEF Renewal
    <3> QED BY <1>2, <2>1, <2>2, <2>3, <3>1, DelayBounds, ConstantsOK
  <2>5. /\ HasLeaf(s)' /\ EntryKey(s)' = cand.key /\ EntryExp(s)' = cand.leaf.exp
    <3>1. PICK a \in FreeState :
            /\ heap' = [heap EXCEPT ![a] = [key |-> cand.key, leaf |-> cand.leaf,
                                            wlock |-> FALSE, locked |-> FALSE]]
            /\ state' = [state EXCEPT ![s] = a]
      BY <1>10 DEF RenewalUpdate
    <3>2. a \in State /\ a # None /\ cand.leaf # None
      BY <2>1, FreeIsFresh, ConstantsOK DEF Pair
    <3> QED BY <3>1, <3>2 DEF HasLeaf, EntryKey, EntryExp, TypeOK
  <2>6. now' = now
    BY <1>10 DEF RenewalUpdate
  <2> QED BY <2>3, <2>4, <2>5, <2>6 DEF LoopOK, Armed
<1>11. ASSUME Tick
       PROVE  LoopOK(s)'
  <2>1. now' = now + 1
    BY <1>11 DEF Tick
  <2>2. /\ HasLeaf(s)' = HasLeaf(s) /\ EntryKey(s)' = EntryKey(s)
        /\ EntryExp(s)' = EntryExp(s) /\ UNCHANGED <<renewal, spawned>>
    BY <1>11 DEF Tick, HasLeaf, EntryKey, EntryExp
  <2>3. HasLeaf(s) => EntryExp(s) \in Nat
    BY EntryTypes
  <2>4. renewal[s].due \in Nat /\ renewal[s].asof \in Nat
    BY <1>2 DEF Renewal
  <2> QED BY <1>1, <1>2, <2>1, <2>2, <2>3, <2>4, ConstantsOK DEF LoopOK
<1>12. ASSUME UNCHANGED vars
       PROVE  LoopOK(s)'
  BY <1>12, LoopLeftAlone DEF vars
<1>13. ASSUME NEW w \in late, LateWrite(w)
       PROVE  LoopOK(s)'
  BY <1>13, LoopLeftAlone DEF LateWrite
<1> QED
  BY <1>3, <1>4, <1>5, <1>6, <1>7, <1>8, <1>9, <1>10, <1>11, <1>12, <1>13 DEF Next, RenewalStep

---------------------------------------------------------------------------
(* The whole invariant, and a process that is bound to die.                *)

\* A leader stays the leader of its object, and an object that is not locked stays
\* so, until the leader unlocks it or the process ends.
LEMMA LeaderStays ==
  ASSUME TypeOK, Shape, [Next]_vars, ~Restart, NEW c \in Call, Leading(c), ~Unlock(c)
  PROVE  /\ Leading(c)' /\ ptr'[c] = ptr[c]
         /\ ~heap[ptr[c]].wlock => ~heap'[ptr[c]].wlock
<1> DEFINE Stays == /\ Leading(c)' /\ ptr'[c] = ptr[c]
                    /\ ~heap[ptr[c]].wlock => ~heap'[ptr[c]].wlock
<1>0. ptr[c] \in State /\ heap[ptr[c]] \in Object
  BY HeldObject DEF Leading
<1>1. ASSUME NEW d \in Call, NEW s \in Slot,
             \/ Begin(d, s) \/ LookupEntry(d) \/ LookupCacheMiss(d) \/ ReadEntry(d)
             \/ RejectHost(d) \/ FindState(d) \/ CheckLocked(d) \/ ReadCreated(d)
             \/ AuthorizeFailed(d) \/ PutAndReturn(d)
      PROVE  Stays
  BY <1>1 DEF Begin, LookupEntry, LookupCacheMiss, ReadEntry, RejectHost, FindState,
     CheckLocked, ReadCreated, AuthorizeFailed, PutAndReturn, Goto, Return, Leading, TypeOK
<1>2. ASSUME NEW d \in Call, LookupCacheHit(d)
      PROVE  Stays
  BY <1>0, <1>2, FreeIsFresh DEF LookupCacheHit, Return, Leading, TypeOK
<1>3. ASSUME NEW d \in Call, MakeState(d)
      PROVE  Stays
  BY <1>0, <1>3, FreeIsFresh DEF MakeState, Goto, Leading, TypeOK
<1>4. ASSUME NEW d \in Call, TakeLead(d)
      PROVE  Stays
  BY <1>0, <1>4 DEF TakeLead, Goto, Leading, TypeOK, Object
<1>5. ASSUME NEW d \in Call, Authorized(d)
      PROVE  Stays
  BY <1>0, <1>5 DEF Authorized, Goto, Leading, TypeOK, Object
<1>6. ASSUME NEW d \in Call, Unlock(d)
      PROVE  Stays
  <2>1. d # c
    BY <1>6
  <2>2. ~heap[ptr[c]].wlock => ~heap'[ptr[c]].wlock
    BY <1>0, <1>6 DEF Unlock, TypeOK, Object
  <2> QED BY <1>6, <2>1, <2>2 DEF Unlock, Goto, Leading, TypeOK
<1>7. ASSUME NEW s \in Slot, RenewalUpdate(s)
      PROVE  Stays
  BY <1>0, <1>7, FreeIsFresh DEF RenewalUpdate, callVars, Leading, TypeOK
<1>8. ASSUME NEW s \in Slot, RemoveFailed(s) \/ (RenewalStep(s) /\ ~RenewalUpdate(s))
      PROVE  Stays
  BY <1>8 DEF RemoveFailed, RenewalStep, FireRenewal, RenewalGet, RenewalAuthorized,
     RenewalFailed, RenewalPut, callVars, Leading
<1>9. ASSUME (\E g \in spawned : StartRenewal(g)) \/ (\E w \in late : LateWrite(w)) \/ Tick \/ UNCHANGED vars
      PROVE  Stays
  BY <1>9 DEF StartRenewal, LateWrite, Tick, vars, callVars, Leading
<1> HIDE DEF Stays
<1>10. Slot # {}
  BY DEF TypeOK
<1>11. Stays
  BY <1>1, <1>2, <1>3, <1>4, <1>5, <1>6, <1>7, <1>8, <1>9, <1>10
     DEF Next, CallStep, FatalUnlock
<1> QED BY <1>11 DEF Stays

\* When two calls have led on one object, only the end of the process changes that.
LEMMA DoomedStays ==
  ASSUME TypeOK, Shape, Doomed, [Next]_vars, ~Restart
  PROVE  Doomed'
<1>1. PICK c \in Call : /\ Leading(c)
                        /\ \/ ~heap[ptr[c]].wlock
                           \/ \E d \in Call \ {c} : Leading(d) /\ ptr[d] = ptr[c]
  BY DEF Doomed
<1>2. CASE ~heap[ptr[c]].wlock
  <2>1. ~Unlock(c)
    BY <1>2 DEF Unlock
  <2> QED BY <1>1, <1>2, <2>1, LeaderStays DEF Doomed
<1>3. ASSUME NEW d \in Call \ {c}, Leading(d), ptr[d] = ptr[c]
      PROVE  Doomed'
  <2>1. ASSUME NEW i \in Call, NEW j \in Call, i # j, Leading(j), ptr[j] = ptr[i],
               Unlock(i)
        PROVE  Doomed'
    <3>1. ~Unlock(j)
      BY <2>1 DEF Unlock, Goto, TypeOK
    <3>2. Leading(j)' /\ ptr'[j] = ptr[j]
      BY <2>1, <3>1, LeaderStays
    <3>3. ~heap'[ptr[i]].wlock
      BY <2>1, HeldObject DEF Unlock, TypeOK, Object
    <3> QED BY <2>1, <3>2, <3>3 DEF Doomed
  <2>2. CASE Unlock(c) \/ Unlock(d)
    BY <1>1, <1>3, <2>1, <2>2
  <2>3. CASE ~Unlock(c) /\ ~Unlock(d)
    <3>1. Leading(c)' /\ Leading(d)' /\ ptr'[c] = ptr[c] /\ ptr'[d] = ptr[d]
      BY <1>1, <1>3, <2>3, LeaderStays
    <3> QED BY <1>3, <3>1 DEF Doomed
  <2> QED BY <2>2, <2>3
<1> QED BY <1>1, <1>2, <1>3

\* Every step preserves the order of calls, removals and renewals, unless the
\* process is bound to die.
LEMMA OrderlyStep ==
  ASSUME TypeOK, Shape, OrderlyOrDoomed, [Next]_vars
  PROVE  OrderlyOrDoomed'
<1>1. CASE Restart
  <2>1. CreationOK' /\ RemovalsOK' /\ \A s \in Slot : LoopOK(s)'
    BY <1>1 DEF Restart, CreationOK, RemovalsOK, LoopOK, NewObject, NoRenewal
  <2> QED BY <2>1 DEF OrderlyOrDoomed, Orderly
<1>2. CASE ~Restart /\ Doomed
  BY <1>2, DoomedStays DEF OrderlyOrDoomed
<1>3. CASE ~Restart /\ ~Doomed
  <2>1. Orderly
    BY <1>3 DEF OrderlyOrDoomed
  <2>2. CreationOK' /\ RemovalsOK'
    BY <1>3, <2>1, CreationStep, RemovalsStep DEF Orderly
  <2>3. \A s \in Slot : LoopOK(s)'
    BY <1>3, <2>1, LoopStep
  <2> QED BY <2>2, <2>3 DEF OrderlyOrDoomed, Orderly
<1> QED BY <1>1, <1>2, <1>3

---------------------------------------------------------------------------
\* A leader works on an entry that has no certificate, a removal timer is set for an
\* entry that stays failed, and a renewal loop is about the certificate its slot
\* serves, as long as no two calls lead on one object.
THEOREM OrderlyAlways == Spec => []OrderlyOrDoomed
<1>1. Init => OrderlyOrDoomed
  BY DEF Init, OrderlyOrDoomed, Orderly, CreationOK, RemovalsOK, LoopOK, NewObject, NoRenewal
<1>2. TypeInv /\ OrderlyOrDoomed /\ [Next]_vars => OrderlyOrDoomed'
  BY OrderlyStep DEF TypeInv
<1> QED BY TypeCorrect, <1>1, <1>2, PTL DEF Spec

\* How the timer of a slot comes to be set.
LEMMA TimerSet ==
  ASSUME TypeOK, Shape, [Next]_vars, NEW s \in Slot,
         renewal[s].phase # "armed", renewal'[s].phase = "armed"
  PROVE  \/ \E g \in spawned : /\ g.slot = s /\ renewal[s].phase = "none"
                                /\ \E d \in NextDelay(g.exp) : renewal'[s].due = now + d
         \/ \E d \in RetryDelay : /\ renewal[s].phase \in {"authorize", "put"}
                                  /\ renewal'[s].due = now + d
         \/ RenewalUpdate(s)
<1> DEFINE Goal == \/ \E g \in spawned :
                         /\ g.slot = s /\ renewal[s].phase = "none"
                         /\ \E d \in NextDelay(g.exp) : renewal'[s].due = now + d
                   \/ \E d \in RetryDelay :
                         /\ renewal[s].phase \in {"authorize", "put"}
                         /\ renewal'[s].due = now + d
                   \/ RenewalUpdate(s)
<1>0. renewal'[s] # renewal[s]
  OBVIOUS
<1>1. ASSUME NEW c \in Call, CallStep(c), ~FatalUnlock(c)
      PROVE  FALSE
  <2>1. renewal' = renewal
    BY <1>1 DEF CallStep, LookupEntry, LookupCacheHit, LookupCacheMiss, ReadEntry,
       RejectHost, FindState, MakeState, CheckLocked, TakeLead, ReadCreated, Authorized,
       AuthorizeFailed, Unlock, PutAndReturn
  <2> QED BY <1>0, <2>1
<1>2. ASSUME \/ \E c \in Call, t \in Slot : Begin(c, t)
             \/ \E t \in Slot : RemoveFailed(t)
             \/ \E w \in late : LateWrite(w)
             \/ Tick \/ UNCHANGED vars
      PROVE  FALSE
  <2>1. renewal' = renewal
    BY <1>2 DEF Begin, RemoveFailed, LateWrite, Tick, vars
  <2> QED BY <1>0, <2>1
<1>3. ASSUME Restart \/ \E c \in Call : FatalUnlock(c)
      PROVE  FALSE
  BY <1>3 DEF Restart, FatalUnlock, NoRenewal
<1>4. ASSUME NEW g \in spawned, StartRenewal(g)
      PROVE  Goal
  <2>1. renewal[g.slot].phase = "none" /\ g.slot = s
    BY <1>0, <1>4 DEF StartRenewal, TypeOK
  <2>2. PICK d \in NextDelay(g.exp) : renewal' = [renewal EXCEPT ![s] = Armed(g.key, now + d)]
    BY <1>4, <2>1 DEF StartRenewal
  <2>3. renewal'[s].due = now + d
    BY <2>2 DEF TypeOK, Armed
  <2> QED BY <2>1, <2>3
<1>5. ASSUME NEW t \in Slot, RenewalStep(t), ~RenewalUpdate(t)
      PROVE  Goal
  <2>1. CASE FireRenewal(t)
    BY <1>0, <2>1 DEF FireRenewal, TypeOK, Renewal
  <2>2. CASE RenewalGet(t)
    BY <1>0, <2>2, GetResult
  <2>3. CASE RenewalAuthorized(t)
    BY <1>0, <2>3, IssueResult
  <2>4. CASE RenewalFailed(t) \/ (RenewalPut(t) /\ RetryRenewal(t))
    <3>1. PICK d \in RetryDelay :
            renewal' = [renewal EXCEPT ![t] = Armed(renewal[t].key, now + d)]
      BY <2>4 DEF RenewalFailed, RetryRenewal
    <3>2. t = s
      BY <1>0, <3>1 DEF TypeOK
    <3>3. renewal'[s].due = now + d
      BY <3>1, <3>2 DEF TypeOK, Armed
    <3> QED BY <2>4, <3>2, <3>3 DEF RenewalFailed, RenewalPut
  <2>5. CASE RenewalPut(t) /\ renewal' = [renewal EXCEPT ![t].phase = "update"]
    BY <1>0, <2>5 DEF TypeOK, Renewal
  <2> QED BY <1>5, <2>1, <2>2, <2>3, <2>4, <2>5 DEF RenewalStep, RenewalPut
<1>6. ASSUME NEW t \in Slot, RenewalUpdate(t)
      PROVE  Goal
  <2>1. t = s
    BY <1>0, <1>6 DEF RenewalUpdate, TypeOK
  <2> QED BY <1>6, <2>1
<1> HIDE DEF Goal
<1>7. Goal
  BY <1>1, <1>2, <1>3, <1>4, <1>5, <1>6 DEF Next
<1> QED BY <1>7 DEF Goal

\* Whenever domainRenewal sets its timer, it is due RenewBefore ahead of the expiry of
\* the certificate that m.state serves, plus the time that updateState has waited for
\* stateMu, or within renewJitter when a renewal has just failed.
THEOREM RenewalInTimeAlways == Spec => RenewalInTime
<1> DEFINE A == Doomed \/ \A s \in Slot :
       renewal[s].phase # "armed" /\ renewal'[s].phase = "armed" =>
         /\ HasLeaf(s)'
         /\ \/ renewal'[s].due - Waited(s) <= EntryExp(s)' - RenewBefore
            \/ renewal'[s].due <= now + RenewJitter
<1>1. TypeInv /\ OrderlyOrDoomed /\ [Next]_vars => [A]_vars
  <2> SUFFICES ASSUME TypeOK, Shape, Orderly, [Next]_vars, NEW s \in Slot,
                      renewal[s].phase # "armed", renewal'[s].phase = "armed"
               PROVE  /\ HasLeaf(s)'
                      /\ \/ renewal'[s].due - Waited(s) <= EntryExp(s)' - RenewBefore
                         \/ renewal'[s].due <= now + RenewJitter
    BY DEF OrderlyOrDoomed, TypeInv
  <2>1. LoopOK(s) /\ renewal[s] \in Renewal /\ now \in Nat
    BY DEF Orderly, TypeOK
  <2>2. ~Restart
    BY DEF Restart, NoRenewal
  <2>3. HasLeaf(s)
    BY <2>1, TimerSet DEF LoopOK, RenewalUpdate
  <2>4. HasLeaf(s)' /\ EntryExp(s) \in Nat
    BY <2>2, <2>3, EntryKept, EntryTypes DEF Orderly
  <2>5. ASSUME NEW g \in spawned, g.slot = s, renewal[s].phase = "none",
               NEW d \in NextDelay(g.exp), renewal'[s].due = now + d
        PROVE  \/ renewal'[s].due - Waited(s) <= EntryExp(s)' - RenewBefore
               \/ renewal'[s].due <= now + RenewJitter
    <3>1. g.exp = EntryExp(s)
      BY <2>1, <2>5 DEF LoopOK
    <3>2. EntryExp(s)' = EntryExp(s) /\ Waited(s) = 0
      BY <2>2, <2>3, <2>5, EntryKept DEF Orderly, Waited
    <3>3. d \in Nat /\ (d = 0 \/ now + d <= EntryExp(s) - RenewBefore)
      BY <2>1, <2>4, <3>1, DelayBounds
    <3> QED BY <2>1, <2>5, <3>2, <3>3, ConstantsOK
  <2>6. ASSUME NEW d \in RetryDelay, renewal'[s].due = now + d
        PROVE  renewal'[s].due <= now + RenewJitter
    <3>1. d \in Nat /\ d <= RenewJitter
      BY <2>1, <2>4, DelayBounds
    <3> QED BY <2>1, <2>6, <3>1, ConstantsOK
  <2>7. ASSUME RenewalUpdate(s)
        PROVE  \/ renewal'[s].due - Waited(s) <= EntryExp(s)' - RenewBefore
               \/ renewal'[s].due <= now + RenewJitter
    <3> DEFINE cand == renewal[s].cand
    <3>1. cand \in Pair /\ cand.leaf.exp \in Nat /\ cand.leaf # None
      BY <2>7, RenewalAtHand, ConstantsOK DEF RenewalUpdate, Pair, Leaf
    <3>2. EntryExp(s)' = cand.leaf.exp
      <4>1. PICK a \in FreeState :
              /\ heap' = [heap EXCEPT ![a] = [key |-> cand.key, leaf |-> cand.leaf,
                                              wlock |-> FALSE, locked |-> FALSE]]
              /\ state' = [state EXCEPT ![s] = a]
        BY <2>7 DEF RenewalUpdate
      <4>2. a \in State
        BY FreeIsFresh
      <4> QED BY <4>1, <4>2 DEF EntryExp, TypeOK
    <3>3. CASE renewal[s].phase = "adopt"
      <4>1. /\ renewal[s].asof <= now
            /\ renewal[s].asof + renewal[s].next <= cand.leaf.exp - RenewBefore
        BY <2>1, <3>3 DEF LoopOK
      <4>2. renewal'[s].due = now + renewal[s].next
        BY <2>7, <3>3 DEF RenewalUpdate, TypeOK, Armed
      <4>3. Waited(s) = now - renewal[s].asof
        BY <3>3 DEF Waited
      <4>4. renewal[s].asof \in Nat /\ renewal[s].next \in Nat
        BY <2>1 DEF Renewal
      <4> QED BY <2>1, <3>1, <3>2, <4>1, <4>2, <4>3, <4>4, ConstantsOK
    <3>4. CASE renewal[s].phase # "adopt"
      <4>1. PICK d \in NextDelay(cand.leaf.exp) : renewal'[s].due = now + d
        BY <2>7, <3>4 DEF RenewalUpdate, TypeOK, Armed
      <4>2. d \in Nat /\ (d = 0 \/ now + d <= cand.leaf.exp - RenewBefore)
        BY <2>1, <3>1, DelayBounds
      <4>3. Waited(s) = 0
        BY <3>4 DEF Waited
      <4> QED BY <2>1, <3>1, <3>2, <4>1, <4>2, <4>3, ConstantsOK
    <3> QED BY <3>3, <3>4
  <2> QED BY <2>4, <2>5, <2>6, <2>7, TimerSet
<1> QED BY TypeCorrect, OrderlyAlways, <1>1, PTL DEF Spec, RenewalInTime

\* No step of the removal timer, of updateState or of createCert drops a valid
\* certificate or replaces it by one that expires earlier, except that a renewal by
\* the CA may lose what the new certificate's validity falls short of the window.
THEOREM NoDowngradeAlways == Spec => NoDowngrade
<1> DEFINE A == Restart \/ Doomed \/ \A s \in Slot :
       (HasLeaf(s) /\ now <= EntryExp(s)) =>
         /\ HasLeaf(s)'
         /\ \/ EntryExp(s)' >= EntryExp(s)
            \/ /\ renewal[s].phase = "update"
               /\ \E l \in Lifetimes :
                    EntryExp(s)' + RenewBefore + RenewJitter > EntryExp(s) + l
<1>1. TypeInv /\ OrderlyOrDoomed /\ [Next]_vars => [A]_vars
  <2> SUFFICES ASSUME TypeOK, Shape, Orderly, Next, ~Restart, NEW s \in Slot, HasLeaf(s)
               PROVE  /\ HasLeaf(s)'
                      /\ \/ EntryExp(s)' >= EntryExp(s)
                         \/ /\ renewal[s].phase = "update"
                            /\ \E l \in Lifetimes :
                                 EntryExp(s)' + RenewBefore + RenewJitter > EntryExp(s) + l
    BY DEF OrderlyOrDoomed, TypeInv
  <2>1. EntryExp(s) \in Nat
    BY EntryTypes
  <2> QED BY <2>1, EntryKept DEF Orderly, LoopOK
<1> QED BY TypeCorrect, OrderlyAlways, <1>1, PTL DEF Spec, NoDowngrade

\* No step changes the key a slot serves, except updateState after the loop has
\* adopted what another Manager stored under the same cache name.
THEOREM KeyStableAlways == Spec => KeyStable
<1> DEFINE A == Restart \/ Doomed \/ \A s \in Slot :
       HasLeaf(s) => /\ HasLeaf(s)'
                     /\ EntryKey(s)' = EntryKey(s) \/ renewal[s].phase = "adopt"
<1>1. TypeInv /\ OrderlyOrDoomed /\ [Next]_vars => [A]_vars
  <2> SUFFICES ASSUME TypeOK, Shape, Orderly, Next, ~Restart, NEW s \in Slot, HasLeaf(s)
               PROVE  /\ HasLeaf(s)'
                      /\ EntryKey(s)' = EntryKey(s) \/ renewal[s].phase = "adopt"
    BY DEF OrderlyOrDoomed, TypeInv
  <2> QED BY EntryKept DEF Orderly, LoopOK
<1> QED BY TypeCorrect, OrderlyAlways, <1>1, PTL DEF Spec, KeyStable
=============================================================================
