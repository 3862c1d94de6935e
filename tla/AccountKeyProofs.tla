-------------------------- MODULE AccountKeyProofs --------------------------
(***************************************************************************)
(* Proofs about AccountKey: its types, and, where reads do not fail, that  *)
(* one Manager never loses the key of its account, and that several of     *)
(* them lose few.                                                          *)
(***************************************************************************)
EXTENDS AccountKey, FiniteSetTheorems, TLAPS

\* What a call that holds clientMu knows while its context has not ended: it only
\* goes on after reads that found nothing because there is nothing, and only
\* registers a key that is stored.
HolderKnows(c) ==
  live[c] => /\ pc[c] = "legacy" => stored = None
             /\ pc[c] = "put" => stored = None /\ legacy = None
             /\ pc[c] = "register" => key[c] \in {stored, legacy}

\* The inductive invariant of RegisteredIsStored.
Kept == /\ RegisteredIsStored
        /\ late = {} /\ delayed = {}
        /\ \A c \in Call : HolderKnows(c)

USE AccountConstants

\* A call that returns gives up its key and clientMu.
LEMMA ReturnCallsOK ==
  ASSUME CallsOK, NEW c \in Call, pc[c] \notin {"idle", "lock"}, Return(c)
  PROVE  CallsOK'
<1>1. /\ pc' = [pc EXCEPT ![c] = "idle"]
      /\ holder' = [holder EXCEPT ![ManagerOf[c]] = None]
      /\ live' = [live EXCEPT ![c] = FALSE]
      /\ key' = [key EXCEPT ![c] = None]
  BY DEF Return, Goto
<1>2. ASSUME NEW d \in Call PROVE PlaceOK(d)'
  BY <1>1, <1>2 DEF CallsOK, PlaceOK
<1> QED
  BY <1>1, <1>2 DEF CallsOK

\* A call that goes on with clientMu, at a place where it uses the key it has got
\* or at one where it has none.
LEMMA GoOnCallsOK ==
  ASSUME CallsOK, NEW c \in Call, pc[c] \notin {"idle", "lock"},
         NEW k \in Key \union {None}, NEW place \in {"legacy", "put", "register"},
         place = "legacy" <=> k = None,
         Goto(c, place), key' = [key EXCEPT ![c] = k], UNCHANGED <<live, holder>>
  PROVE  CallsOK'
<1>1. ASSUME NEW d \in Call PROVE PlaceOK(d)'
  BY <1>1 DEF CallsOK, PlaceOK, Goto
<1> QED
  BY <1>1 DEF CallsOK, Goto

\* What a call does with data it has found.
LEMMA ParseCallsOK ==
  ASSUME CallsOK, NEW c \in Call, pc[c] \notin {"idle", "lock"},
         NEW data \in Key \union {Invalid}, Parse(c, data)
  PROVE  CallsOK'
<1>1. CASE data = Invalid
  BY <1>1, ReturnCallsOK DEF Parse, ReturnError
<1>2. CASE data # Invalid
  BY <1>2, GoOnCallsOK DEF Parse
<1> QED
  BY <1>1, <1>2

\* What a call does that has found nothing.
MakesKey(c, k) == /\ key' = [key EXCEPT ![c] = k]
                  /\ Goto(c, "put")
                  /\ UNCHANGED <<live, holder>>

\* A call goes on with the data that it has found, or with a key that nobody knows.
LEMMA LegacyOrFresh ==
  ASSUME NEW c \in Call, GetLegacy(c)
  PROVE  \/ \E data \in Read(c, legacy) \ {None} : Parse(c, data)
         \/ None \in Read(c, legacy) /\ \E k \in FreshKey : MakesKey(c, k)
<1>1. PICK data \in Read(c, legacy) :
        IF data # None THEN Parse(c, data)
                       ELSE FreshKey # {} /\ MakesKey(c, CHOOSE k \in FreshKey : TRUE)
  BY DEF GetLegacy, MakesKey
<1>2. FreshKey # {} => (CHOOSE k \in FreshKey : TRUE) \in FreshKey
  OBVIOUS
<1> QED
  BY <1>1, <1>2

\* Every variable of AccountKey keeps its type, clientMu has the holder that the
\* places of the calls say, and a call has a key only where it uses it.
THEOREM TypeOKAlways == Spec => []TypeOK
<1>1. Init => TypeOK
  BY DEF Init, TypeOK, CallsOK, PlaceOK
<1>2. TypeOK /\ [Next]_vars => TypeOK'
  <2> SUFFICES ASSUME TypeOK, [Next]_vars PROVE TypeOK'
    OBVIOUS
  <2>1. ASSUME NEW c \in Call, Invoke(c) PROVE TypeOK'
    BY <2>1 DEF TypeOK, CallsOK, PlaceOK, Invoke, Goto, storeVars
  <2>2. ASSUME NEW c \in Call, EndContext(c) PROVE TypeOK'
    BY <2>2 DEF TypeOK, CallsOK, PlaceOK, EndContext, storeVars
  <2>3. ASSUME NEW c \in Call, Lock(c) PROVE TypeOK'
    <3>1. CASE client[ManagerOf[c]] # None
      <4>1. /\ pc[c] = "lock"
            /\ pc' = [pc EXCEPT ![c] = "idle"]
            /\ live' = [live EXCEPT ![c] = FALSE]
            /\ UNCHANGED <<holder, key>>
        BY <2>3, <3>1 DEF Lock, Goto
      <4>2. ASSUME NEW d \in Call PROVE PlaceOK(d)'
        BY <4>1, <4>2 DEF TypeOK, CallsOK, PlaceOK
      <4>3. CallsOK'
        BY <4>1, <4>2 DEF TypeOK, CallsOK
      <4> QED
        BY <2>3, <4>3 DEF TypeOK, Lock, storeVars
    <3>2. CASE client[ManagerOf[c]] = None
      <4>1. /\ pc[c] = "lock" /\ holder[ManagerOf[c]] = None
            /\ pc' = [pc EXCEPT ![c] = "get"]
            /\ holder' = [holder EXCEPT ![ManagerOf[c]] = c]
            /\ UNCHANGED <<live, key>>
        BY <2>3, <3>2 DEF Lock, Goto
      <4>2. ASSUME NEW d \in Call PROVE PlaceOK(d)'
        BY <4>1, <4>2 DEF TypeOK, CallsOK, PlaceOK
      <4>3. CallsOK'
        BY <4>1, <4>2 DEF TypeOK, CallsOK
      <4> QED
        BY <2>3, <4>3 DEF TypeOK, Lock, storeVars
    <3> QED
      BY <3>1, <3>2
  <2>4. ASSUME NEW c \in Call, Get(c) PROVE TypeOK'
    <3>1. PICK data \in Read(c, stored) :
            IF data # None THEN Parse(c, data)
                           ELSE Goto(c, "legacy") /\ UNCHANGED <<live, key, holder>>
      BY <2>4 DEF Get
    <3>2. data \in Key \union {None, Invalid}
      BY <3>1 DEF Read, TypeOK
    <3>3. CASE data # None
      BY <2>4, <3>1, <3>2, <3>3, ParseCallsOK DEF Get, TypeOK, storeVars
    <3>4. CASE data = None
      <4>1. key' = [key EXCEPT ![c] = None]
        BY <2>4, <3>1, <3>4 DEF Get, TypeOK, CallsOK, PlaceOK
      <4>2. Goto(c, "legacy") /\ UNCHANGED <<live, holder>> /\ CallsOK
            /\ pc[c] \notin {"idle", "lock"}
        BY <2>4, <3>1, <3>4 DEF Get, TypeOK
      <4>3. CallsOK'
        BY <4>1, <4>2, GoOnCallsOK
      <4> QED
        BY <2>4, <4>3 DEF Get, TypeOK, storeVars
    <3> QED
      BY <3>3, <3>4
  <2>5. ASSUME NEW c \in Call, GetLegacy(c) PROVE TypeOK'
    <3>1. CASE \E data \in Read(c, legacy) \ {None} : Parse(c, data)
      BY <2>5, <3>1, ParseCallsOK DEF GetLegacy, Read, TypeOK, storeVars
    <3>2. CASE \E k \in FreshKey : MakesKey(c, k)
      BY <2>5, <3>2, GoOnCallsOK DEF GetLegacy, MakesKey, FreshKey, TypeOK, storeVars
    <3> QED
      BY <2>5, <3>1, <3>2, LegacyOrFresh
  <2>6. ASSUME NEW c \in Call, Put(c) PROVE TypeOK'
    <3>1. key[c] \in Key /\ pc[c] \notin {"idle", "lock"}
      BY <2>6 DEF Put, TypeOK, CallsOK, PlaceOK
    <3>2. key' = [key EXCEPT ![c] = key[c]] \/ Return(c)
      BY <2>6 DEF Put, ReturnError, TypeOK, CallsOK
    <3>3. CallsOK'
      BY <2>6, <3>1, <3>2, ReturnCallsOK, GoOnCallsOK
         DEF Put, ReturnError, TypeOK
    <3> QED
      BY <2>6, <3>1, <3>3 DEF Put, TypeOK
  <2>7. ASSUME NEW c \in Call, Register(c) PROVE TypeOK'
    <3>1. key[c] \in Key
      BY <2>7 DEF Register, TypeOK, CallsOK, PlaceOK
    <3> QED
      BY <2>7, <3>1, ReturnCallsOK DEF Register, TypeOK, storeVars
  <2>8. ASSUME NEW k \in Key, LateWrite(k) PROVE TypeOK'
    BY <2>8 DEF TypeOK, CallsOK, PlaceOK, LateWrite, callVars
  <2>9. CASE Crash
    BY <2>9 DEF TypeOK, CallsOK, PlaceOK, Crash
  <2>10. CASE UNCHANGED vars
    BY <2>10 DEF TypeOK, CallsOK, PlaceOK, vars, storeVars, callVars
  <2> QED
    BY <2>1, <2>2, <2>3, <2>4, <2>5, <2>6, <2>7, <2>8, <2>9, <2>10
       DEF Next, CallStep
<1> QED
  BY <1>1, <1>2, PTL DEF Spec

\* Only one call of a Manager is past its lock.
LEMMA OneHolder ==
  ASSUME TypeOK, \A m, n \in Manager : m = n,
         NEW c \in Call, NEW d \in Call, c # d, pc[c] \notin {"idle", "lock"}
  PROVE  pc[d] \in {"idle", "lock"}
BY DEF TypeOK, CallsOK, PlaceOK

\* Every step of one Manager with reads that do not fail, and without writes that
\* outlive their contexts, keeps the inductive invariant.
LEMMA KeptStep ==
  ASSUME ~ReadMayFail, MaxLate = 0, \A m, n \in Manager : m = n,
         TypeOK, TypeOK', Kept, [Next]_vars
  PROVE  Kept'
<1> USE DEF Kept, HolderKnows, RegisteredIsStored
<1>1. ASSUME NEW c \in Call, Invoke(c) PROVE Kept'
  BY <1>1 DEF Invoke, Goto, storeVars, TypeOK, CallsOK
<1>2. ASSUME NEW c \in Call, EndContext(c) PROVE Kept'
  BY <1>2 DEF EndContext, storeVars, TypeOK, CallsOK
<1>3. ASSUME NEW c \in Call, Lock(c) PROVE Kept'
  BY <1>3 DEF Lock, Goto, storeVars, TypeOK, CallsOK
<1>4. ASSUME NEW c \in Call, Get(c) PROVE Kept'
  BY <1>4 DEF Get, Read, Parse, ReturnError, Return, Goto, storeVars, TypeOK, CallsOK
<1>5. ASSUME NEW c \in Call, GetLegacy(c) PROVE Kept'
  <2>1. UNCHANGED <<storeVars, registered>> /\ pc[c] = "legacy"
    BY <1>5 DEF GetLegacy
  <2>2. CASE \E data \in Read(c, legacy) \ {None} : Parse(c, data)
    BY <2>1, <2>2 DEF Read, Parse, ReturnError, Return, Goto, storeVars, TypeOK, CallsOK
  <2>3. CASE None \in Read(c, legacy) /\ \E k \in FreshKey : MakesKey(c, k)
    BY <2>1, <2>3 DEF Read, MakesKey, Goto, storeVars, TypeOK, CallsOK
  <2> QED
    BY <1>5, <2>2, <2>3, LegacyOrFresh
<1>6. ASSUME NEW c \in Call, Put(c) PROVE Kept'
  \* Nobody has an account yet, and no other call has read anything.
  <2>1. \A d \in Call \ {c} : pc[d] \in {"idle", "lock"}
    BY <1>6, OneHolder DEF Put
  <2>2. \A d \in Call \ {c} : pc'[d] = pc[d]
    BY <1>6 DEF Put, ReturnError, Return, Goto, TypeOK, CallsOK, PlaceOK
  <2>3. late' = {} /\ delayed' = {}
    BY <1>6, FS_EmptySet DEF Put
  <2>4. registered' \subseteq {stored', legacy'}
    BY <1>6 DEF Put, TypeOK, CallsOK, PlaceOK
  <2>5. HolderKnows(c)'
    BY <1>6 DEF Put, ReturnError, Return, Goto, TypeOK, CallsOK, PlaceOK
  <2> QED
    BY <2>1, <2>2, <2>3, <2>4, <2>5
<1>7. ASSUME NEW c \in Call, Register(c) PROVE Kept'
  BY <1>7 DEF Register, Return, Goto, storeVars, TypeOK, CallsOK
<1>8. ASSUME NEW k \in Key, LateWrite(k) PROVE Kept'
  BY <1>8 DEF LateWrite
<1>9. CASE Crash
  BY <1>9 DEF Crash
<1>10. CASE UNCHANGED vars
  BY <1>10 DEF vars, storeVars, callVars
<1> QED
  BY <1>1, <1>2, <1>3, <1>4, <1>5, <1>6, <1>7, <1>8, <1>9, <1>10
     DEF Next, CallStep

\* The account key of one Manager stays in the cache, whatever its calls, its
\* contexts, failing writes and registrations, and crashes do, as long as reads do
\* not fail and no write outlives its context.
THEOREM KeptAlways ==
  ASSUME ~ReadMayFail, MaxLate = 0, \A m, n \in Manager : m = n
  PROVE  Spec => []Kept
<1>1. Init => Kept
  BY DEF Init, Kept, HolderKnows, RegisteredIsStored
<1>2. TypeOK /\ TypeOK' /\ Kept /\ [Next]_vars => Kept'
  BY KeptStep
<1> QED
  BY <1>1, <1>2, TypeOKAlways, PTL DEF Spec

\* One Manager loses no account: the key it has registered is the stored one, or the
\* one of previous versions.
THEOREM OneManagerLosesNone ==
  ASSUME ~ReadMayFail, MaxLate = 0, NEW m, Manager = {m}
  PROVE  Spec => []RegisteredIsStored
<1>1. Kept => RegisteredIsStored
  BY DEF Kept
<1>2. Spec => []Kept
  BY KeptAlways
<1> QED
  BY <1>1, <1>2, PTL

---------------------------------------------------------------------------
(* Several Managers.                                                       *)

\* The sets that are counted are finite.
Counted == IsFiniteSet(delayed) /\ IsFiniteSet(Forsaken)

\* A subset of what is counted counts less.
LEMMA CountSubset ==
  ASSUME NEW S, IsFiniteSet(S), NEW T, T \subseteq S
  PROVE  /\ IsFiniteSet(T) /\ Cardinality(T) \in Nat /\ Cardinality(S) \in Nat
         /\ Cardinality(T) <= Cardinality(S)
BY FS_Subset, FS_CardinalityType

\* What is counted, as numbers.
LEMMA Counts ==
  ASSUME IsFiniteSet(Manager), Counted, NewKeysOK
  PROVE  /\ IsFiniteSet(Unaware) /\ IsFiniteSet(late)
         /\ Cardinality(Unaware) \in Nat /\ Cardinality(late) \in Nat
         /\ Cardinality(Forsaken) \in Nat
         /\ Cardinality(Manager) \in Nat /\ Cardinality(delayed) \in Nat
         /\ Cardinality(Unaware) <= Cardinality(Manager)
         /\ Cardinality(late) <= Cardinality(delayed)
<1>1. Unaware \subseteq Manager /\ late \subseteq delayed
  BY DEF Unaware, NewKeysOK
<1> QED BY <1>1, CountSubset, FS_CardinalityType DEF Counted

\* A step that overwrites no key keeps the count, if no more Managers are unaware of
\* the key that is stored.
LEMMA CountStays ==
  ASSUME IsFiniteSet(Manager), Counted, NewKeysOK, FewForsaken, stored' = stored,
         Forsaken' \subseteq Forsaken, stored # None => Unaware' \subseteq Unaware,
         late' \subseteq late, delayed' = delayed
  PROVE  FewForsaken' /\ Counted'
<1>1. Counted'
  BY CountSubset DEF Counted
<1>2. CASE stored = None
  BY <1>1, <1>2 DEF FewForsaken
<1>3. CASE stored # None
  <2> DEFINE f == Cardinality(Forsaken)
             u == Cardinality(Unaware)
             l == Cardinality(late)
             f1 == Cardinality(Forsaken')
             u1 == Cardinality(Unaware')
             l1 == Cardinality(late')
  <2>1. f1 \in Nat /\ f1 <= f
    BY CountSubset DEF Counted
  <2>2. u1 \in Nat /\ u1 <= u
    BY <1>3, CountSubset, Counts
  <2>3. l1 \in Nat /\ l1 <= l
    BY CountSubset, Counts
  <2>4. f + u + l < Cardinality(Manager) + Cardinality(delayed)
    BY <1>3 DEF FewForsaken
  <2>5. f1 + u1 + l1 < Cardinality(Manager) + Cardinality(delayed)
    <3> HIDE DEF f, u, l, f1, u1, l1
    <3>1. f \in Nat /\ u \in Nat /\ l \in Nat
      BY Counts DEF f, u, l
    <3> QED BY <2>1, <2>2, <2>3, <2>4, <3>1, Counts
  <2> QED BY <1>1, <1>3, <2>5 DEF FewForsaken
<1> QED BY <1>2, <1>3

\* A step that overwrites a key forsakes one more, and there is one less to do so.
LEMMA CountOverwritten ==
  ASSUME IsFiniteSet(Manager), Counted, NewKeysOK, FewForsaken, stored' \in Key,
         Forsaken' \subseteq Forsaken \union {stored}, None \notin Forsaken',
         delayed' = delayed,
         \/ late' = late /\ \E m \in Unaware : Unaware' \subseteq Unaware \ {m}
         \/ Unaware' = Unaware /\ \E k \in late : late' = late \ {k}
  PROVE  FewForsaken' /\ Counted'
<1> DEFINE f == Cardinality(Forsaken)
           u == Cardinality(Unaware)
           l == Cardinality(late)
           f1 == Cardinality(Forsaken')
           u1 == Cardinality(Unaware')
           l1 == Cardinality(late')
           managers == Cardinality(Manager)
           delays == Cardinality(delayed)
<1>1. /\ IsFiniteSet(Forsaken \union {stored})
      /\ Cardinality(Forsaken \union {stored}) <= f + 1
  <2>1. IsFiniteSet(Forsaken) /\ f \in Nat
    BY FS_CardinalityType DEF Counted
  <2>2. /\ IsFiniteSet(Forsaken \union {stored})
        /\ Cardinality(Forsaken \union {stored}) = IF stored \in Forsaken THEN f ELSE f + 1
    BY <2>1, FS_AddElement
  <2> QED
    <3> HIDE DEF f
    <3> QED BY <2>1, <2>2
<1>2. Counted' /\ f1 \in Nat /\ f1 <= f + 1
  <2>1. /\ IsFiniteSet(Forsaken') /\ f1 \in Nat
        /\ Cardinality(Forsaken \union {stored}) \in Nat
        /\ f1 <= Cardinality(Forsaken \union {stored})
    BY <1>1, CountSubset
  <2>2. f \in Nat
    BY Counts
  <2> QED BY <1>1, <2>1, <2>2 DEF Counted
<1>3. u1 \in Nat /\ l1 \in Nat /\ u1 + l1 <= u + l - 1
  <2>1. ASSUME NEW m \in Unaware, Unaware' \subseteq Unaware \ {m}
        PROVE  u1 \in Nat /\ u1 <= u - 1
    <3>1. IsFiniteSet(Unaware \ {m}) /\ Cardinality(Unaware \ {m}) = u - 1
      BY Counts, FS_RemoveElement
    <3> QED BY <2>1, <3>1, CountSubset
  <2>2. ASSUME NEW k \in late, late' = late \ {k}
        PROVE  l1 \in Nat /\ l1 = l - 1
    <3>1. IsFiniteSet(late \ {k}) /\ Cardinality(late \ {k}) = l - 1
      BY Counts, FS_RemoveElement
    <3> QED BY <2>2, <3>1, FS_CardinalityType
  <2>3. u \in Nat /\ l \in Nat
    BY Counts
  <2>4. CASE late' = late /\ \E m \in Unaware : Unaware' \subseteq Unaware \ {m}
    BY <2>1, <2>3, <2>4
  <2>5. CASE Unaware' = Unaware /\ \E k \in late : late' = late \ {k}
    BY <2>2, <2>3, <2>5
  <2> QED BY <2>4, <2>5
<1>4. /\ f \in Nat /\ u \in Nat /\ l \in Nat /\ managers \in Nat /\ delays \in Nat
      /\ u <= managers /\ l <= delays
  BY Counts
<1>5. f1 + u1 + l1 < managers + delays
  <2>1. CASE stored # None
    <3>1. f + u + l < managers + delays
      BY <2>1 DEF FewForsaken
    <3> HIDE DEF f, u, l, f1, u1, l1, managers, delays
    <3> QED BY <1>2, <1>3, <1>4, <3>1
  <2>2. CASE stored = None
    <3>1. Forsaken' = {}
      BY <2>2 DEF FewForsaken
    <3>2. f1 = 0
      BY <3>1, FS_EmptySet
    <3> HIDE DEF f, u, l, f1, u1, l1, managers, delays
    <3> QED BY <1>3, <1>4, <3>2
  <2> QED BY <2>1, <2>2
<1>6. stored' # None
  OBVIOUS
<1> QED BY <1>2, <1>5, <1>6 DEF FewForsaken

\* A write that goes on after its context has ended may overwrite a key later.
LEMMA CountDelayed ==
  ASSUME IsFiniteSet(Manager), Counted, NewKeysOK, FewForsaken, stored' = stored,
         Forsaken' \subseteq Forsaken, Unaware' \subseteq Unaware,
         NEW k, k \notin delayed, late' = late \union {k}, delayed' = delayed \union {k}
  PROVE  FewForsaken' /\ Counted'
<1> DEFINE f == Cardinality(Forsaken)
           u == Cardinality(Unaware)
           l == Cardinality(late)
           f1 == Cardinality(Forsaken')
           u1 == Cardinality(Unaware')
           managers == Cardinality(Manager)
           delays == Cardinality(delayed)
<1>1. /\ IsFiniteSet(delayed') /\ Cardinality(delayed') = delays + 1
      /\ IsFiniteSet(Forsaken') /\ f1 \in Nat /\ f1 <= f /\ u1 \in Nat /\ u1 <= u
      /\ Cardinality(late') = l + 1
  <2>1. k \notin late
    BY DEF NewKeysOK
  <2> QED BY <2>1, CountSubset, Counts, FS_AddElement DEF Counted
<1>2. /\ f \in Nat /\ u \in Nat /\ l \in Nat /\ managers \in Nat /\ delays \in Nat
  BY Counts
<1>3. CASE stored = None
  BY <1>1, <1>3 DEF FewForsaken, Counted
<1>4. CASE stored # None
  <2>1. f + u + l < managers + delays
    BY <1>4 DEF FewForsaken
  <2>2. f1 + u1 + (l + 1) < managers + (delays + 1)
    <3> HIDE DEF f, u, l, f1, u1, managers, delays
    <3> QED BY <1>1, <1>2, <2>1
  <2> QED BY <1>1, <1>4, <2>2 DEF FewForsaken, Counted
<1> QED BY <1>3, <1>4

\* Only the key that is overwritten is forsaken, when calls register what is stored
\* or what they were about to register before.
LEMMA ForsakenStep ==
  ASSUME legacy' = legacy,
         \A k \in registered' :
           k \in registered \/ \E d \in Call : pc[d] = "register" /\ live[d] /\ k = key[d],
         \A d \in Call : pc'[d] = "register" /\ live'[d] =>
           \/ pc[d] = "register" /\ live[d] /\ key'[d] = key[d]
           \/ key'[d] \in {stored, legacy, stored'}
  PROVE  /\ Forsaken' \subseteq Forsaken \union {stored}
         /\ stored' = stored => Forsaken' \subseteq Forsaken
BY DEF Forsaken

\* Nobody comes to believe that no key is stored.
LEMMA UnawareStep ==
  ASSUME \A d \in Call : live'[d] /\ pc'[d] \in {"legacy", "put"} =>
           live[d] /\ pc[d] \in {"legacy", "put"}
  PROVE  Unaware' \subseteq Unaware
BY DEF Unaware

\* In a Manager only one call is past its lock.
LEMMA OneOfManager ==
  ASSUME CallsOK, NEW c \in Call, NEW d \in Call, c # d,
         pc[c] \notin {"idle", "lock"}, ManagerOf[c] = ManagerOf[d]
  PROVE  pc[d] \in {"idle", "lock"}
BY DEF CallsOK, PlaceOK

\* A call that stores its key or gives it up is no longer unaware, nor is its Manager.
LEMMA LeavesUnaware ==
  ASSUME TypeOK, NEW c \in Call, pc[c] = "put", live[c],
         pc'[c] \in {"idle", "register"},
         \A d \in Call \ {c} : pc'[d] = pc[d] /\ live'[d] = live[d]
  PROVE  /\ ManagerOf[c] \in Unaware
         /\ Unaware' \subseteq Unaware \ {ManagerOf[c]}
<1>1. ManagerOf[c] \in Unaware
  BY DEF Unaware
<1>2. \A d \in Call \ {c} : ManagerOf[d] = ManagerOf[c] => pc[d] \in {"idle", "lock"}
  BY OneOfManager DEF TypeOK
<1> QED BY <1>1, <1>2 DEF Unaware

\* Calls that keep their keys, or make no new one, keep the new keys apart.
LEMMA NewKeysStep ==
  ASSUME NewKeysOK, late' \subseteq late, delayed' = delayed,
         \A d \in Call : pc'[d] = "put" => pc[d] = "put" /\ key'[d] = key[d]
  PROVE  NewKeysOK'
BY DEF NewKeysOK

\* What is forsaken are keys.
LEMMA ForsakenAreKeys ==
  ASSUME TypeOK'
  PROVE  None \notin Forsaken'
<1>1. \A d \in Call : pc'[d] = "register" => key'[d] # None
  BY DEF TypeOK, CallsOK, PlaceOK
<1> QED BY <1>1 DEF Forsaken, TypeOK

\* Whether Cache.Put stores the new key, fails, or goes on after its context has
\* ended, the count is kept.
LEMMA PutStep ==
  ASSUME IsFiniteSet(Manager), TypeOK, TypeOK', KeysInv, Counted,
         NEW c \in Call, Put(c)
  PROVE  KeysInv' /\ Counted'
<1>1. /\ key[c] \in Key /\ pc[c] = "put" /\ legacy' = legacy /\ registered' = registered
      /\ None \notin Forsaken'
  BY ForsakenAreKeys DEF Put, TypeOK, CallsOK, PlaceOK
<1>2. /\ pc'[c] \in {"idle", "register"}
      /\ pc'[c] = "register" => key'[c] = key[c] /\ live'[c] = live[c]
      /\ \A d \in Call \ {c} : pc'[d] = pc[d] /\ live'[d] = live[d] /\ key'[d] = key[d]
  BY DEF Put, ReturnError, Return, Goto, TypeOK, CallsOK
<1>3. CASE late' = late /\ delayed' = delayed /\ stored' = stored
           /\ (live[c] => pc'[c] = "idle")
  <2>1. NewKeysOK'
    BY <1>2, <1>3, NewKeysStep DEF KeysInv
  <2>2. Forsaken' \subseteq Forsaken
    BY <1>1, <1>2, <1>3, ForsakenStep
  <2>3. Unaware' \subseteq Unaware
    BY <1>2, UnawareStep
  <2> QED BY <1>3, <2>1, <2>2, <2>3, CountStays DEF KeysInv
<1>4. CASE late' = late /\ delayed' = delayed /\ stored' = key[c] /\ live[c]
  <2>1. NewKeysOK'
    BY <1>2, <1>4, NewKeysStep DEF KeysInv
  <2>2. Forsaken' \subseteq Forsaken \union {stored}
    BY <1>1, <1>2, <1>4, ForsakenStep
  <2>3. \E m \in Unaware : Unaware' \subseteq Unaware \ {m}
    BY <1>1, <1>2, <1>4, LeavesUnaware
  <2> QED BY <1>1, <1>4, <2>1, <2>2, <2>3, CountOverwritten DEF KeysInv
<1>5. CASE late' = late \union {key[c]} /\ delayed' = delayed \union {key[c]}
           /\ stored' = stored /\ pc'[c] = "idle"
  <2>1. NewKeysOK' /\ key[c] \notin delayed
    BY <1>1, <1>2, <1>5 DEF KeysInv, NewKeysOK
  <2>2. Forsaken' \subseteq Forsaken
    BY <1>1, <1>2, <1>5, ForsakenStep
  <2>3. Unaware' \subseteq Unaware
    BY <1>2, UnawareStep
  <2> QED BY <1>5, <2>1, <2>2, <2>3, CountDelayed DEF KeysInv
<1>6. live[c] \in BOOLEAN
  BY DEF TypeOK, CallsOK
<1> QED BY <1>3, <1>4, <1>5, <1>6 DEF Put, ReturnError, Return, Goto, TypeOK, CallsOK

\* A call that goes past clientMu, reads or registers stores nothing.
LEMMA QuietStep ==
  ASSUME IsFiniteSet(Manager), KeysInv, Counted, NewKeysOK',
         UNCHANGED <<stored, legacy, delayed>>, late' \subseteq late,
         \A k \in registered' :
           k \in registered \/ \E d \in Call : pc[d] = "register" /\ live[d] /\ k = key[d],
         \A d \in Call : pc'[d] = "register" /\ live'[d] =>
           \/ pc[d] = "register" /\ live[d] /\ key'[d] = key[d]
           \/ key'[d] \in {stored, legacy},
         stored # None =>
           \A d \in Call : live'[d] /\ pc'[d] \in {"legacy", "put"} =>
             live[d] /\ pc[d] \in {"legacy", "put"}
  PROVE  KeysInv' /\ Counted'
<1>1. Forsaken' \subseteq Forsaken
  BY ForsakenStep
<1>2. stored # None => Unaware' \subseteq Unaware
  BY UnawareStep
<1> QED BY <1>1, <1>2, CountStays DEF KeysInv

\* Every step keeps the new keys apart and the forsaken ones few, as long as a key
\* that is stored can be read.
LEMMA KeysStep ==
  ASSUME ~ReadMayFail, IsFiniteSet(Manager),
         TypeOK, TypeOK', KeysInv, Counted, [Next]_vars
  PROVE  KeysInv' /\ Counted'
<1>1. ASSUME NEW c \in Call, Invoke(c) \/ EndContext(c) \/ Lock(c)
      PROVE  KeysInv' /\ Counted'
  <2>1. /\ UNCHANGED <<storeVars, key, registered>>
        /\ \A d \in Call :
             /\ pc'[d] \notin {"idle", "lock", "get"} => pc'[d] = pc[d]
             /\ pc'[d] \notin {"idle", "lock", "get"} /\ live'[d] => live[d]
    BY <1>1 DEF Invoke, EndContext, Lock, Goto, storeVars, TypeOK, CallsOK
  <2>2. NewKeysOK'
    BY <2>1, NewKeysStep DEF KeysInv, storeVars
  <2> QED BY <2>1, <2>2, QuietStep DEF storeVars
<1>2. ASSUME NEW c \in Call, Get(c) PROVE KeysInv' /\ Counted'
  <2>1. /\ UNCHANGED <<storeVars, registered>>
        /\ \A d \in Call \ {c} : pc'[d] = pc[d] /\ live'[d] = live[d] /\ key'[d] = key[d]
        /\ \/ pc'[c] = "idle"
           \/ pc'[c] = "register" /\ key'[c] = stored
           \/ pc'[c] = "legacy" /\ (live'[c] => stored = None)
    BY <1>2 DEF Get, Read, Parse, ReturnError, Return, Goto, storeVars, TypeOK, CallsOK
  <2>2. NewKeysOK'
    BY <2>1, NewKeysStep DEF KeysInv, storeVars
  <2> QED BY <2>1, <2>2, QuietStep DEF storeVars
<1>3. ASSUME NEW c \in Call, GetLegacy(c) PROVE KeysInv' /\ Counted'
  <2>1. UNCHANGED <<storeVars, registered>> /\ pc[c] = "legacy"
    BY <1>3 DEF GetLegacy
  <2>2. CASE \E data \in Read(c, legacy) \ {None} : Parse(c, data)
    <3>1. /\ \A d \in Call \ {c} : pc'[d] = pc[d] /\ live'[d] = live[d] /\ key'[d] = key[d]
          /\ pc'[c] = "idle" \/ (pc'[c] = "register" /\ key'[c] = legacy)
      BY <2>2 DEF Read, Parse, ReturnError, Return, Goto, TypeOK, CallsOK
    <3>2. NewKeysOK'
      BY <2>1, <3>1, NewKeysStep DEF KeysInv, storeVars
    <3> QED BY <2>1, <3>1, <3>2, QuietStep DEF storeVars
  <2>3. CASE \E k \in FreshKey : MakesKey(c, k)
    <3>1. PICK k \in FreshKey : MakesKey(c, k)
      BY <2>3
    <3>2. /\ \A d \in Call \ {c} : pc'[d] = pc[d] /\ key'[d] = key[d]
          /\ live' = live /\ pc'[c] = "put" /\ key'[c] = k
      BY <3>1 DEF MakesKey, Goto, TypeOK, CallsOK
    <3>3. k \notin delayed /\ \A d \in Call : k # key[d]
      BY DEF FreshKey
    <3>4. NewKeysOK'
      BY <2>1, <3>2, <3>3 DEF KeysInv, NewKeysOK, storeVars
    <3> QED BY <2>1, <3>2, <3>4, QuietStep DEF storeVars
  <2> QED BY <1>3, <2>2, <2>3, LegacyOrFresh
<1>4. ASSUME NEW c \in Call, Put(c) PROVE KeysInv' /\ Counted'
  BY <1>4, PutStep
<1>5. ASSUME NEW c \in Call, Register(c) PROVE KeysInv' /\ Counted'
  <2>1. /\ UNCHANGED storeVars /\ pc[c] = "register"
        /\ registered' = registered \/ (live[c] /\ registered' = registered \union {key[c]})
        /\ \A d \in Call \ {c} : pc'[d] = pc[d] /\ live'[d] = live[d] /\ key'[d] = key[d]
        /\ pc'[c] = "idle"
    BY <1>5 DEF Register, Return, Goto, TypeOK, CallsOK
  <2>2. NewKeysOK'
    BY <2>1, NewKeysStep DEF KeysInv, storeVars
  <2> QED BY <2>1, <2>2, QuietStep DEF storeVars
<1>6. ASSUME NEW k \in Key, LateWrite(k) PROVE KeysInv' /\ Counted'
  <2>1. /\ UNCHANGED <<legacy, delayed, pc, live, key, registered>>
        /\ k \in late /\ late' = late \ {k} /\ (stored' = k \/ stored' = stored)
    BY <1>6 DEF LateWrite, callVars
  <2>2. NewKeysOK'
    BY <2>1, NewKeysStep DEF KeysInv
  <2>3. CASE stored' = stored
    BY <2>1, <2>2, <2>3, QuietStep
  <2>4. CASE stored' = k
    <3>1. Forsaken' \subseteq Forsaken \union {stored}
      BY <2>1, ForsakenStep
    <3>2. Unaware' = Unaware
      BY <2>1 DEF Unaware
    <3>3. None \notin Forsaken'
      BY ForsakenAreKeys
    <3> QED BY <2>1, <2>2, <2>4, <3>1, <3>2, <3>3, CountOverwritten DEF KeysInv
  <2> QED BY <2>1, <2>3, <2>4
<1>7. CASE Crash
  <2>1. /\ UNCHANGED <<stored, legacy, delayed, registered>> /\ late' = {}
        /\ \A d \in Call : pc'[d] = "idle"
    BY <1>7 DEF Crash
  <2>2. NewKeysOK'
    BY <2>1, NewKeysStep DEF KeysInv
  <2> QED BY <2>1, <2>2, QuietStep
<1>8. CASE UNCHANGED vars
  <2>1. NewKeysOK'
    BY <1>8, NewKeysStep DEF KeysInv, vars, storeVars, callVars
  <2> QED BY <1>8, <2>1, QuietStep DEF vars, storeVars, callVars
<1> QED BY <1>1, <1>2, <1>3, <1>4, <1>5, <1>6, <1>7, <1>8 DEF Next, CallStep

\* KeysInv says enough: the accounts that are lost are among the forsaken keys.
LEMMA FewForsakenIsEnough ==
  ASSUME IsFiniteSet(Manager), Manager # {}, KeysInv, Counted
  PROVE  FewAccountsLost
<1> DEFINE lost == Cardinality(registered \ {stored, legacy})
           f == Cardinality(Forsaken)
           u == Cardinality(Unaware)
           l == Cardinality(late)
           managers == Cardinality(Manager)
           delays == Cardinality(delayed)
<1>1. lost \in Nat /\ lost <= f
  <2>1. registered \ {stored, legacy} \subseteq Forsaken
    BY DEF Forsaken
  <2> QED BY <2>1, CountSubset DEF Counted
<1>2. f \in Nat /\ u \in Nat /\ l \in Nat /\ managers \in Nat /\ delays \in Nat
  BY Counts DEF KeysInv
<1>3. managers # 0
  BY FS_EmptySet
<1>4. CASE stored = None
  <2>1. f = 0
    BY <1>4, FS_EmptySet DEF KeysInv, FewForsaken
  <2>2. lost < managers + delays
    <3> HIDE DEF lost, f, managers, delays
    <3> QED BY <1>1, <1>2, <1>3, <2>1
  <2> QED BY <2>2 DEF FewAccountsLost
<1>5. CASE stored # None
  <2>1. f + u + l < managers + delays
    BY <1>5 DEF KeysInv, FewForsaken
  <2>2. lost < managers + delays
    <3> HIDE DEF lost, f, u, l, managers, delays
    <3> QED BY <1>1, <1>2, <2>1
  <2> QED BY <2>2 DEF FewAccountsLost
<1> QED BY <1>4, <1>5

\* Managers that race for the account key, each with any number of calls, lose fewer
\* accounts than there are Managers and writes that outlived their contexts, however
\* often they are started again and whatever else fails, as long as reads do not.
THEOREM FewAccountsLostAlways ==
  ASSUME ~ReadMayFail, IsFiniteSet(Manager), Manager # {}
  PROVE  Spec => []FewAccountsLost
<1>1. Init => KeysInv /\ Counted
  <2> SUFFICES ASSUME Init PROVE KeysInv /\ Counted
    OBVIOUS
  <2>1. Forsaken = {} /\ Unaware = {} /\ late = {} /\ delayed = {} /\ NewKeysOK
    BY DEF Init, Forsaken, Unaware, NewKeysOK
  <2>2. Cardinality(Manager) \in Nat /\ Cardinality(Manager) # 0
    BY FS_CardinalityType, FS_EmptySet
  <2>3. Cardinality(Forsaken) + Cardinality(Unaware) + Cardinality(late)
          < Cardinality(Manager) + Cardinality(delayed)
    BY <2>1, <2>2, FS_EmptySet
  <2> QED BY <2>1, <2>3, FS_EmptySet DEF KeysInv, FewForsaken, Counted
<1>2. TypeOK /\ TypeOK' /\ (KeysInv /\ Counted) /\ [Next]_vars => (KeysInv /\ Counted)'
  BY KeysStep
<1>3. KeysInv /\ Counted => FewAccountsLost
  BY FewForsakenIsEnough
<1> QED BY <1>1, <1>2, <1>3, TypeOKAlways, PTL DEF Spec
=============================================================================
