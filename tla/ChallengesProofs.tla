-------------------------- MODULE ChallengesProofs --------------------------
(***************************************************************************)
(* Theorems about Challenges, for any number of flows, Managers, domains   *)
(* and authorizations, and any CA.                                         *)
(***************************************************************************)
EXTENDS Challenges, TLAPS

USE ChallengeConstants

\* TypeOK, taken apart.
FlowTypes ==
  /\ pc \in [Flow -> PC]
  /\ mgr \in [Flow -> Manager \union {None}] /\ dom \in [Flow -> Domain \union {None}]
  /\ live \in [Flow -> BOOLEAN] /\ alone \in [Flow -> BOOLEAN]
  /\ cur \in [Flow -> Authz \union {None}] /\ chal \in [Flow -> Token \union {None}]
  /\ cleanups \in [Flow -> SUBSET Cleanup] /\ urls \in [Flow -> SUBSET Authz]
  /\ next \in [Flow -> Nat]

FlowShape(f) ==
  /\ pc[f] = "idle" => next[f] = 1
  /\ pc[f] # "idle" =>
       /\ mgr[f] # None /\ dom[f] # None
       /\ next[f] \in 1 .. Len(Types[mgr[f]]) + 1
       /\ pc[f] # "order" => cur[f] # None
       /\ pc[f] \in {"fulfill", "accept", "wait"} => chal[f] # None

TokenTypes ==
  /\ certTokens \in [Manager -> [Domain -> Token \union {None}]]
  /\ httpTokens \in [Manager -> SUBSET Token]
  /\ cachedCert \in [Domain -> Token \union {None}] /\ cachedHTTP \subseteq Token
  /\ txt \in [Domain -> Token \union {None}]

CATypes ==
  /\ status \in [Authz -> Status]
  /\ offers \in [Authz -> SUBSET Type] /\ accepted \in [Authz -> SUBSET Type]
  /\ names \in [Authz -> Domain \union {None}]

LaterTypes ==
  /\ cleaning \subseteq Cleanup /\ late \subseteq Cleanup
  /\ deactivating \subseteq Authz /\ hanging \subseteq Authz

LEMMA TypeParts ==
  TypeOK <=> /\ env \in Environments /\ FlowTypes /\ \A f \in Flow : FlowShape(f)
             /\ TokenTypes /\ CATypes /\ LaterTypes
BY DEF TypeOK, FlowTypes, FlowShape, TokenTypes, CATypes, LaterTypes

\* A flow that runs has a Manager, a domain, and what its place asks for.
LEMMA FlowAtHand ==
  ASSUME TypeOK, NEW f \in Flow, pc[f] # "idle"
  PROVE  /\ mgr[f] \in Manager /\ dom[f] \in Domain
         /\ Types[mgr[f]] \in Seq(Type) /\ next[f] \in 1 .. Len(Types[mgr[f]]) + 1
         /\ pc[f] # "order" => cur[f] \in Authz
         /\ pc[f] \in {"fulfill", "accept", "wait"} => /\ chal[f] \in Token
                                                       /\ CleanupOf(f) \in Cleanup
BY DEF TypeOK, CleanupOf, Cleanup

\* One flow moves on, and the others stay.
LEMMA OneFlow ==
  ASSUME TypeOK, FlowTypes', NEW f \in Flow, FlowShape(f)',
         \A g \in Flow \ {f} : UNCHANGED <<pc[g], mgr[g], dom[g], next[g], cur[g], chal[g]>>
  PROVE  \A g \in Flow : FlowShape(g)'
BY TypeParts DEF FlowShape

\* The end of a flow.
LEMMA ReturnType ==
  ASSUME TypeOK, NEW f \in Flow, NEW authzURLs \in SUBSET Authz, Return(f, authzURLs),
         hanging' \subseteq Authz
  PROVE  FlowTypes' /\ (\A g \in Flow : FlowShape(g)') /\ LaterTypes'
<1>1. FlowTypes'
  BY TypeParts DEF FlowTypes, Return, Goto, PC
<1>2. pc'[f] = "idle" /\ next'[f] = 1
  BY TypeParts DEF FlowTypes, Return, Goto
<1>3. \A g \in Flow \ {f} : UNCHANGED <<pc[g], mgr[g], dom[g], next[g], cur[g], chal[g]>>
  BY TypeParts DEF FlowTypes, Return, Goto
<1>4. LaterTypes'
  BY TypeParts DEF LaterTypes, FlowTypes, Return
<1> QED
  BY <1>1, <1>2, <1>3, <1>4, OneFlow DEF FlowShape

\* A flow goes elsewhere, and all else about the flows stays.
LEMMA GotoType ==
  ASSUME TypeOK, NEW f \in Flow, NEW label \in PC, Goto(f, label), UNCHANGED flowData,
         pc[f] # "idle", label # "idle",
         label # "order" => cur[f] # None,
         label \in {"fulfill", "accept", "wait"} => chal[f] # None
  PROVE  FlowTypes' /\ (\A g \in Flow : FlowShape(g)')
<1>1. FlowTypes'
  BY TypeParts DEF FlowTypes, Goto, flowData
<1>2. pc'[f] = label /\ \A g \in Flow \ {f} : pc'[g] = pc[g]
  BY TypeParts DEF FlowTypes, Goto
<1>3. FlowShape(f)'
  BY <1>2, TypeParts DEF FlowShape, flowData, PC
<1> QED
  BY <1>1, <1>2, <1>3, OneFlow DEF flowData

\* What Put and the removal of tokens do to memory and to the database.
LEMMA TokensType ==
  ASSUME TokenTypes, NEW m \in Manager, NEW d \in Domain, NEW tok \in Token,
         \/ PutMemory(m, d, tok) \/ DeleteMemory(m, d, tok)
         \/ UNCHANGED <<certTokens, httpTokens>>,
         PutStored(d, tok) \/ DeleteStored(d, tok) \/ NothingStored
  PROVE  TokenTypes'
<1>1. certTokens' \in [Manager -> [Domain -> Token \union {None}]]
  <2>1. ASSUME NEW t \in Token \union {None}, certTokens' = [certTokens EXCEPT ![m][d] = t]
        PROVE  certTokens' \in [Manager -> [Domain -> Token \union {None}]]
    <3> DEFINE row == [certTokens[m] EXCEPT ![d] = t]
    <3>1. row \in [Domain -> Token \union {None}]
      BY DEF TokenTypes
    <3>2. certTokens' = [certTokens EXCEPT ![m] = row]
      BY <2>1
    <3> HIDE DEF row
    <3> QED
      BY <3>1, <3>2 DEF TokenTypes
  <2>2. CASE UNCHANGED certTokens
    BY <2>2 DEF TokenTypes
  <2> QED
    BY <2>1, <2>2 DEF PutMemory, DeleteMemory
<1>3. httpTokens' \in [Manager -> SUBSET Token]
  <2>1. CASE httpTokens' = [httpTokens EXCEPT ![m] = @ \union {tok}]
    BY <2>1 DEF TokenTypes
  <2>2. CASE httpTokens' = [httpTokens EXCEPT ![m] = @ \ {tok}]
    BY <2>2 DEF TokenTypes
  <2>3. CASE UNCHANGED httpTokens
    BY <2>3 DEF TokenTypes
  <2> QED
    BY <2>1, <2>2, <2>3 DEF PutMemory, DeleteMemory
<1>2. /\ cachedCert' \in [Domain -> Token \union {None}] /\ cachedHTTP' \subseteq Token
      /\ txt' \in [Domain -> Token \union {None}]
  BY DEF TokenTypes, PutStored, DeleteStored, NothingStored
<1> QED
  BY <1>1, <1>2, <1>3 DEF TokenTypes

\* What the CA makes of an order.
LEMMA GrantedType ==
  ASSUME TypeOK, NEW a \in Authz, NEW d \in Domain, Granted(a, d)
  PROVE  CATypes'
<1>1. env \in Environment
  BY TypeParts
<1>2. env.offers \subseteq SUBSET Type
  BY <1>1 DEF Environment
<1>3. CATypes
  BY TypeParts
<1>4. CASE UNCHANGED caVars
  BY <1>3, <1>4 DEF CATypes, caVars
<1>5. CASE ~UNCHANGED caVars
  <2>1. PICK types \in env.offers : offers' = [offers EXCEPT ![a] = types]
    BY <1>5 DEF Granted
  <2>2. /\ status' = [status EXCEPT ![a] = "pending"] /\ UNCHANGED accepted
        /\ names' = [names EXCEPT ![a] = d]
    BY <1>5 DEF Granted
  <2> QED
    BY <1>2, <1>3, <2>1, <2>2 DEF CATypes, Status
<1> QED
  BY <1>4, <1>5

\* The steps of flows keep the types.
LEMMA FlowTypeStep ==
  ASSUME TypeOK, NEW f \in Flow, FlowStep(f), UNCHANGED env
  PROVE  TypeOK'
<1> USE DEF tokenVars, caVars, laterVars
<1>1. FlowTypes /\ TokenTypes /\ CATypes /\ LaterTypes /\ env' \in Environments
  BY DEF TypeOK, FlowTypes, TokenTypes, CATypes, LaterTypes
<1>2. ASSUME TokenTypes', CATypes', LaterTypes', FlowTypes', \A g \in Flow : FlowShape(g)'
      PROVE  TypeOK'
  BY <1>1, <1>2 DEF TypeOK, FlowTypes, FlowShape, TokenTypes, CATypes, LaterTypes
<1>3. UNCHANGED tokenVars => TokenTypes'
  BY <1>1 DEF TokenTypes
<1>4. UNCHANGED caVars => CATypes'
  BY <1>1 DEF CATypes
<1>5. UNCHANGED laterVars => LaterTypes'
  BY <1>1 DEF LaterTypes
<1>6. ASSUME UNCHANGED tokenVars, CATypes', hanging' \subseteq Authz, Return(f, urls[f])
      PROVE  TypeOK'
  <2>1. urls[f] \in SUBSET Authz
    BY <1>1 DEF FlowTypes
  <2> QED
    BY <1>2, <1>3, <1>6, <2>1, ReturnType
<1>7. CASE NewOrder(f)
  <2>1. PICK a \in Authz :
          /\ Granted(a, dom[f])
          /\ \/ Return(f, AuthzURLs(f, a)) /\ UNCHANGED hanging
             \/ /\ Goto(f, "authz")
                /\ cur' = [cur EXCEPT ![f] = a]
                /\ urls' = [urls EXCEPT ![f] = AuthzURLs(f, a)]
                /\ UNCHANGED <<mgr, dom, live, next, chal, cleanups, alone, laterVars>>
    BY <1>7 DEF NewOrder
  <2>2. pc[f] = "order" /\ UNCHANGED tokenVars
    BY <1>7 DEF NewOrder
  <2>3. CATypes'
    BY <2>1, <2>2, FlowAtHand, GrantedType
  <2>4. AuthzURLs(f, a) \in SUBSET Authz
    BY <1>1 DEF FlowTypes, AuthzURLs
  <2>5. CASE Return(f, AuthzURLs(f, a))
    <3>1. hanging' \subseteq Authz
      BY <1>1, <2>1 DEF LaterTypes
    <3> QED
      BY <1>2, <1>3, <2>2, <2>3, <2>4, <2>5, <3>1, ReturnType
  <2>6. CASE ~Return(f, AuthzURLs(f, a))
    <3>0. /\ Goto(f, "authz") /\ cur' = [cur EXCEPT ![f] = a]
          /\ urls' = [urls EXCEPT ![f] = AuthzURLs(f, a)]
          /\ UNCHANGED <<mgr, dom, live, next, chal, cleanups, alone, laterVars>>
      BY <2>1, <2>6
    <3>1. FlowTypes'
      BY <1>1, <2>4, <3>0 DEF FlowTypes, Goto, PC
    <3>2. /\ pc'[f] = "authz" /\ cur'[f] = a /\ UNCHANGED <<mgr, dom, next, chal, laterVars>>
          /\ \A g \in Flow \ {f} : pc'[g] = pc[g] /\ cur'[g] = cur[g]
      BY <1>1, <2>1, <2>6 DEF FlowTypes, Goto
    <3>3. FlowShape(f)'
      BY <2>2, <3>2, TypeParts DEF FlowShape
    <3>4. \A g \in Flow : FlowShape(g)'
      BY <3>1, <3>2, <3>3, OneFlow
    <3> QED
      BY <1>2, <1>3, <1>5, <2>2, <2>3, <3>1, <3>2, <3>4
  <2> QED
    BY <2>5, <2>6
<1>8. CASE NewOrderFails(f)
  <2>1. pc[f] = "order" /\ Return(f, urls[f]) /\ UNCHANGED tokenVars
    BY <1>8 DEF NewOrderFails
  <2>2. CASE UNCHANGED <<caVars, hanging>>
    BY <1>1, <1>4, <1>6, <2>1, <2>2 DEF LaterTypes
  <2>3. CASE \E a \in Authz : Granted(a, dom[f]) /\ hanging' = hanging \union {a}
    <3>1. PICK a \in Authz : Granted(a, dom[f]) /\ hanging' = hanging \union {a}
      BY <2>3
    <3>2. CATypes' /\ hanging' \subseteq Authz
      BY <1>1, <2>1, <3>1, FlowAtHand, GrantedType DEF LaterTypes
    <3> QED
      BY <1>6, <2>1, <3>2
  <2> QED
    BY <1>8, <2>2, <2>3 DEF NewOrderFails
<1>9. CASE GetAuthz(f)
  <2>1. pc[f] = "authz"
    BY <1>9 DEF GetAuthz
  <2>2. CASE PickChallenge(f)
    <3>1. PICK i \in Viable(f) :
            /\ next' = [next EXCEPT ![f] = i + 1]
            /\ chal' = [chal EXCEPT ![f] =
                          [authz |-> cur[f], type |-> Types[mgr[f]][i]]]
            /\ Goto(f, "fulfill")
            /\ UNCHANGED <<mgr, dom, live, cur, cleanups, urls, alone,
                           tokenVars, caVars, laterVars>>
      BY <2>2 DEF PickChallenge
    <3>2. /\ mgr[f] \in Manager /\ Types[mgr[f]] \in Seq(Type) /\ cur[f] \in Authz
          /\ next[f] \in 1 .. Len(Types[mgr[f]]) + 1
      BY <2>1, FlowAtHand
    <3>3. i \in next[f] .. Len(Types[mgr[f]])
      BY <3>1 DEF Viable
    <3>4. i \in Nat /\ i + 1 \in 1 .. Len(Types[mgr[f]]) + 1 /\ Types[mgr[f]][i] \in Type
      BY <3>2, <3>3
    <3> DEFINE tok == [authz |-> cur[f], type |-> Types[mgr[f]][i]]
    <3>5. tok \in Token
      BY <3>2, <3>4 DEF Token
    <3>6. chal' = [chal EXCEPT ![f] = tok]
      BY <3>1
    <3> HIDE DEF tok
    <3>7. FlowTypes'
      BY <1>1, <3>1, <3>4, <3>5, <3>6 DEF FlowTypes, Goto, PC
    <3>8. /\ pc'[f] = "fulfill" /\ next'[f] = i + 1 /\ chal'[f] = tok
          /\ \A g \in Flow \ {f} : UNCHANGED <<pc[g], next[g], chal[g]>>
      BY <1>1, <3>1, <3>6 DEF FlowTypes, Goto
    <3>9. FlowShape(f)'
      BY <2>1, <3>1, <3>4, <3>5, <3>8, TypeParts DEF FlowShape
    <3>10. \A g \in Flow : FlowShape(g)'
      BY <3>1, <3>7, <3>8, <3>9, OneFlow
    <3> QED
      BY <1>2, <1>3, <1>4, <1>5, <3>1, <3>7, <3>10
  <2>3. CASE GiveUp(f)
    BY <1>1, <1>4, <1>6, <2>3 DEF GiveUp, LaterTypes
  <2>4. ASSUME Goto(f, "finish"), UNCHANGED <<flowData, tokenVars, caVars, laterVars>>
        PROVE  TypeOK'
    <3>1. cur[f] # None
      BY <2>1, FlowAtHand
    <3>2. FlowTypes' /\ \A g \in Flow : FlowShape(g)'
      BY <2>1, <2>4, <3>1, GotoType DEF PC
    <3> QED
      BY <1>2, <1>3, <1>4, <1>5, <2>4, <3>2
  <2>5. CASE UNCHANGED <<tokenVars, caVars, hanging>> /\ Return(f, urls[f])
    BY <1>1, <1>4, <1>6, <2>5 DEF LaterTypes
  <2> QED
    BY <1>9, <2>2, <2>3, <2>4, <2>5 DEF GetAuthz
<1>10. ASSUME Goto(f, "order") \/ Goto(f, "finish") \/ Goto(f, "wait"),
              pc[f] \in {"fulfill", "accept", "wait", "finish"},
              Goto(f, "wait") => pc[f] = "accept",
              UNCHANGED <<flowData, tokenVars, laterVars>>, CATypes'
       PROVE  TypeOK'
  <2>1. cur[f] # None /\ (pc[f] = "accept" => chal[f] # None)
    BY <1>10, FlowAtHand
  <2>2. FlowTypes' /\ \A g \in Flow : FlowShape(g)'
    BY <1>10, <2>1, GotoType DEF PC
  <2> QED
    BY <1>2, <1>3, <1>5, <1>10, <2>2
<1>11. CASE Fulfill(f)
  <2>1. CASE Put(f) /\ cleanups' = [cleanups EXCEPT ![f] = @ \union {CleanupOf(f)}]
    <3>1. /\ pc[f] = "fulfill" /\ PutMemory(mgr[f], dom[f], chal[f])
          /\ PutStored(dom[f], chal[f]) \/ NothingStored
          /\ live' = live \/ live' = [live EXCEPT ![f] = FALSE]
          /\ late' = late \/ late' = late \union {CleanupOf(f)}
          /\ Goto(f, "accept")
          /\ UNCHANGED <<mgr, dom, next, cur, chal, urls, alone, caVars,
                         cleaning, deactivating, hanging>>
      BY <2>1 DEF Put
    <3>2. /\ mgr[f] \in Manager /\ dom[f] \in Domain /\ chal[f] \in Token
          /\ CleanupOf(f) \in Cleanup
      BY <3>1, FlowAtHand
    <3>3. TokenTypes'
      BY <1>1, <3>1, <3>2, TokensType
    <3>4. LaterTypes'
      BY <1>1, <3>1, <3>2 DEF LaterTypes
    <3>5. FlowTypes'
      BY <1>1, <2>1, <3>1, <3>2 DEF FlowTypes, Goto, PC
    <3>6. pc'[f] = "accept" /\ \A g \in Flow \ {f} : pc'[g] = pc[g]
      BY <1>1, <3>1 DEF FlowTypes, Goto
    <3>7. FlowShape(f)'
      BY <3>1, <3>6, TypeParts DEF FlowShape
    <3>8. \A g \in Flow : FlowShape(g)'
      BY <3>1, <3>5, <3>6, <3>7, OneFlow
    <3> QED
      BY <1>2, <1>4, <3>1, <3>3, <3>4, <3>5, <3>8
  <2>2. CASE pc[f] = "fulfill" /\ Goto(f, "order")
               /\ UNCHANGED <<flowData, tokenVars, caVars, laterVars>>
    <3>1. ~Goto(f, "wait")
      BY <1>1, <2>2 DEF Goto, FlowTypes
    <3> QED
      BY <1>4, <1>10, <2>2, <3>1
  <2> QED
    BY <1>11, <2>1, <2>2 DEF Fulfill
<1>12. CASE Accept(f)
  <2>1. /\ pc[f] = "accept" /\ (Goto(f, "wait") \/ Goto(f, "order"))
        /\ \/ accepted' = [accepted EXCEPT ![cur[f]] = @ \union {chal[f].type}]
           \/ UNCHANGED accepted
        /\ UNCHANGED <<flowData, status, offers, names, tokenVars, laterVars>>
    BY <1>12 DEF Accept
  <2>2. chal[f].type \in Type
    BY <2>1, FlowAtHand DEF Token
  <2>3. CATypes'
    BY <1>1, <2>1, <2>2 DEF CATypes
  <2> QED
    BY <1>10, <2>1, <2>3
<1>13. CASE WaitAuthz(f) \/ WaitOrder(f)
  <2>1. /\ pc[f] \in {"wait", "finish"} /\ UNCHANGED <<tokenVars, caVars>>
        /\ \/ Return(f, urls[f]) /\ UNCHANGED hanging
           \/ /\ Goto(f, "order") \/ Goto(f, "finish")
              /\ UNCHANGED <<flowData, laterVars>>
    BY <1>13 DEF WaitAuthz, WaitOrder
  <2>2. CASE Return(f, urls[f])
    BY <1>1, <1>4, <1>6, <2>1, <2>2 DEF LaterTypes
  <2>3. CASE ~Return(f, urls[f])
    <3>1. /\ Goto(f, "order") \/ Goto(f, "finish")
          /\ UNCHANGED <<flowData, laterVars>>
      BY <2>1, <2>3
    <3>2. ~Goto(f, "wait")
      BY <1>1, <3>1 DEF Goto, FlowTypes
    <3> QED
      BY <1>4, <1>10, <2>1, <3>1, <3>2
  <2> QED
    BY <2>2, <2>3
<1> QED
  BY <1>7, <1>8, <1>9, <1>11, <1>12, <1>13 DEF FlowStep

\* Every step keeps the types.
LEMMA TypeStep ==
  ASSUME TypeOK, [Next]_vars
  PROVE  TypeOK'
<1> USE DEF tokenVars, caVars, laterVars, flowVars, flowData
<1>1. /\ FlowTypes /\ TokenTypes /\ CATypes /\ LaterTypes /\ env \in Environments
      /\ \A f \in Flow : FlowShape(f)
  BY DEF TypeOK, FlowTypes, FlowShape, TokenTypes, CATypes, LaterTypes
<1>2. ASSUME TokenTypes', CATypes', LaterTypes', FlowTypes', \A g \in Flow : FlowShape(g)',
             UNCHANGED env
      PROVE  TypeOK'
  BY <1>1, <1>2 DEF TypeOK, FlowTypes, FlowShape, TokenTypes, CATypes, LaterTypes
<1>3. UNCHANGED flowVars => FlowTypes' /\ \A f \in Flow : FlowShape(f)'
  BY <1>1 DEF FlowTypes, FlowShape
<1>4. UNCHANGED tokenVars => TokenTypes'
  BY <1>1 DEF TokenTypes
<1>5. UNCHANGED caVars => CATypes'
  BY <1>1 DEF CATypes
<1>6. UNCHANGED laterVars => LaterTypes'
  BY <1>1 DEF LaterTypes
<1>7. ASSUME NEW f \in Flow, NEW m \in Manager, NEW d \in Domain, Start(f, m, d),
             UNCHANGED env
      PROVE  TypeOK'
  <2>1. /\ pc[f] = "idle" /\ Goto(f, "order")
        /\ mgr' = [mgr EXCEPT ![f] = m] /\ dom' = [dom EXCEPT ![f] = d]
        /\ live' = [live EXCEPT ![f] = TRUE]
        /\ UNCHANGED <<next, cur, chal, cleanups, urls, tokenVars, caVars, laterVars>>
    BY <1>7 DEF Start
  <2>2. alone' \in [Flow -> BOOLEAN]
    BY <1>1, <1>7 DEF Start, FlowTypes
  <2>3. FlowTypes'
    BY <1>1, <2>1, <2>2 DEF FlowTypes, Goto, PC
  <2>4. /\ pc'[f] = "order" /\ mgr'[f] = m /\ dom'[f] = d
        /\ \A g \in Flow \ {f} : UNCHANGED <<pc[g], mgr[g], dom[g]>>
    BY <1>1, <2>1 DEF FlowTypes, Goto
  <2>5. Types[m] \in Seq(Type) /\ Len(Types[m]) \in Nat /\ next'[f] = 1
    BY <1>1, <2>1 DEF FlowShape
  <2>6. 1 \in 1..Len(Types[m]) + 1
    BY <2>5
  <2>7. FlowShape(f)'
    BY <1>1, <2>1, <2>4, <2>5, <2>6 DEF FlowShape
  <2>8. ASSUME NEW g \in Flow \ {f} PROVE FlowShape(g)'
    BY <1>1, <2>1, <2>4, <2>8 DEF FlowShape
  <2>9. \A g \in Flow : FlowShape(g)'
    BY <2>7, <2>8
  <2> QED
    BY <1>2, <1>4, <1>5, <1>6, <1>7, <2>1, <2>3, <2>9
<1>8. ASSUME NEW f \in Flow, EndContext(f), UNCHANGED env PROVE TypeOK'
  <2>1. FlowTypes' /\ \A g \in Flow : FlowShape(g)'
    BY <1>1, <1>8 DEF EndContext, FlowTypes, FlowShape
  <2> QED
    BY <1>2, <1>4, <1>5, <1>6, <1>8, <2>1 DEF EndContext
<1>9. ASSUME NEW k \in Cleanup, RunCleanup(k) \/ LateWrite(k), UNCHANGED env PROVE TypeOK'
  <2>1. k.mgr \in Manager /\ k.dom \in Domain /\ k.tok \in Token
    BY DEF Cleanup
  <2>2. /\ UNCHANGED <<flowVars, caVars>>
        /\ \/ DeleteMemory(k.mgr, k.dom, k.tok)
           \/ UNCHANGED <<certTokens, httpTokens>>
        /\ PutStored(k.dom, k.tok) \/ DeleteStored(k.dom, k.tok) \/ NothingStored
        /\ cleaning' \subseteq cleaning /\ late' \subseteq late
        /\ UNCHANGED <<deactivating, hanging>>
    BY <1>9 DEF RunCleanup, LateWrite
  <2>3. TokenTypes'
    BY <1>1, <2>1, <2>2, TokensType
  <2>4. LaterTypes'
    BY <1>1, <2>2 DEF LaterTypes
  <2> QED
    BY <1>2, <1>3, <1>5, <1>9, <2>2, <2>3, <2>4
<1>10. ASSUME NEW a \in Authz, Validate(a) \/ Deactivate(a), UNCHANGED env PROVE TypeOK'
  <2>1. /\ UNCHANGED <<offers, accepted, names, cleaning, late, flowVars, tokenVars>>
        /\ deactivating' \subseteq deactivating /\ hanging' \subseteq hanging \union {a}
    <3>1. CASE Validate(a)
      BY <3>1 DEF Validate
    <3>2. CASE Deactivate(a)
      BY <3>2 DEF Deactivate
    <3> QED
      BY <1>10, <3>1, <3>2
  <2>2. status' \in [Authz -> Status]
    <3>1. CASE Validate(a)
      BY <1>1, <3>1 DEF CATypes, Validate, Status
    <3>2. CASE Deactivate(a)
      BY <1>1, <3>2 DEF CATypes, Deactivate, Status
    <3> QED
      BY <1>10, <3>1, <3>2
  <2>3. CATypes' /\ LaterTypes'
    BY <1>1, <2>1, <2>2 DEF CATypes, LaterTypes
  <2> QED
    BY <1>2, <1>3, <1>4, <1>10, <2>1, <2>3
<1>11. ASSUME Crash, UNCHANGED env PROVE TypeOK'
  <2>1. FlowTypes' /\ \A f \in Flow : FlowShape(f)'
    BY <1>11 DEF Crash, FlowTypes, FlowShape, PC
  <2>2. TokenTypes'
    BY <1>1, <1>11 DEF Crash, TokenTypes
  <2>3. UNION {urls[f] : f \in Flow} \subseteq Authz
    BY <1>1 DEF FlowTypes
  <2>4. LaterTypes' /\ CATypes'
    BY <1>1, <1>11, <2>3 DEF Crash, LaterTypes, CATypes
  <2> QED
    BY <1>2, <1>11, <2>1, <2>2, <2>4
<1>12. CASE UNCHANGED vars
  BY <1>2, <1>3, <1>4, <1>5, <1>6, <1>12 DEF vars, stateVars
<1> QED
  BY <1>7, <1>8, <1>9, <1>10, <1>11, <1>12, FlowTypeStep DEF Next

\* Every variable of Challenges keeps its type, and a flow has what its place needs.
THEOREM TypeOKAlways == Spec => []TypeOK
<1>1. Init => TypeOK
  BY DEF Init, TypeOK, PC, Status
<1> QED
  BY <1>1, TypeStep, PTL DEF Spec

---------------------------------------------------------------------------
(* Tokens are removed.                                                     *)

\* m.certTokens holds responses to tls-alpn-01 challenges only.
CertTokensOK ==
  \A m \in Manager, d \in Domain :
    certTokens[m][d] # None => certTokens[m][d].type = "tls-alpn-01"

TokenInv == TokensHaveCleanup /\ CertTokensOK

\* Removals that were bound to happen still are, and memory is as it was.
LEMMA CleanupsStay ==
  ASSUME TokenInv, UNCHANGED <<certTokens, httpTokens>>,
         \A n, e, t : HasCleanup(n, e, t) => HasCleanup(n, e, t)'
  PROVE  TokenInv'
BY DEF TokenInv, TokensHaveCleanup, CertTokensOK

\* A flow that ends leaves its removals to goroutines.
LEMMA ReturnCleanups ==
  ASSUME TypeOK, NEW f \in Flow, NEW authzURLs, Return(f, authzURLs),
         NEW m, NEW d, NEW tok, HasCleanup(m, d, tok)
  PROVE  HasCleanup(m, d, tok)'
<1>1. /\ cleaning' = cleaning \union cleanups[f]
      /\ \A g \in Flow \ {f} : cleanups'[g] = cleanups[g]
  BY TypeParts DEF Return, FlowTypes
<1> QED
  BY <1>1 DEF HasCleanup

\* A removal changes nothing but the tokens it is about.
LEMMA MemoryStep ==
  ASSUME TypeOK, TokenInv, NEW m \in Manager, NEW d \in Domain, NEW tok \in Token,
         \/ DeleteMemory(m, d, tok)
         \/ /\ PutMemory(m, d, tok)
            /\ HasCleanup(m, d, tok)',
         \A n, e, t : HasCleanup(n, e, t) /\ ~(n = m /\ e = d /\ t = tok)
                        => HasCleanup(n, e, t)'
  PROVE  TokenInv'
<1>1. ASSUME NEW n \in Manager, NEW e \in Domain, NEW t, t = certTokens'[n][e], t # None
      PROVE  HasCleanup(n, e, t)' /\ t.type = "tls-alpn-01"
  <2>1. \/ t = certTokens[n][e]
        \/ /\ n = m /\ e = d /\ t = tok /\ tok.type = "tls-alpn-01"
           /\ PutMemory(m, d, tok)
    BY <1>1, TypeParts DEF TokenTypes, PutMemory, DeleteMemory
  <2>2. CASE n = m /\ e = d /\ t = tok /\ PutMemory(m, d, tok) /\ tok.type = "tls-alpn-01"
    <3>1. HasCleanup(m, d, tok)'
      BY <1>1, <2>2, TypeParts DEF TokenTypes, DeleteMemory
    <3> QED
      BY <2>2, <3>1
  <2>3. CASE t = certTokens[n][e]
    <3>1. HasCleanup(n, e, t) /\ t.type = "tls-alpn-01"
      BY <1>1, <2>3 DEF TokenInv, TokensHaveCleanup, CertTokensOK
    <3>2. CASE n = m /\ e = d /\ t = tok
      <4>1. ~DeleteMemory(m, d, tok)
        BY <1>1, <3>1, <3>2, TypeParts DEF TokenTypes, DeleteMemory
      <4> QED
        BY <3>1, <3>2, <4>1
    <3>3. CASE ~(n = m /\ e = d /\ t = tok)
      BY <3>1, <3>3
    <3> QED
      BY <3>2, <3>3
  <2> QED
    BY <2>1, <2>2, <2>3
<1>2. ASSUME NEW n \in Manager, NEW t \in httpTokens'[n]
      PROVE  \E e \in Domain : HasCleanup(n, e, t)'
  <2>1. t \in httpTokens[n] => \E e \in Domain : HasCleanup(n, e, t)
    BY DEF TokenInv, TokensHaveCleanup
  <2>2. CASE DeleteMemory(m, d, tok)
    <3>1. t \in httpTokens[n] /\ ~(n = m /\ t = tok)
      BY <2>2, TypeParts DEF TokenTypes, DeleteMemory
    <3>2. PICK e \in Domain : HasCleanup(n, e, t)
      BY <2>1, <3>1
    <3> QED
      BY <3>1, <3>2
  <2>3. CASE PutMemory(m, d, tok) /\ HasCleanup(m, d, tok)'
    <3>1. CASE n = m /\ t = tok
      BY <2>3, <3>1
    <3>2. CASE ~(n = m /\ t = tok)
      <4>1. t \in httpTokens[n]
        BY <2>3, <3>2, TypeParts DEF TokenTypes, PutMemory
      <4>2. PICK e \in Domain : HasCleanup(n, e, t)
        BY <2>1, <4>1
      <4> QED
        BY <3>2, <4>2
    <3> QED
      BY <3>1, <3>2
  <2> QED
    BY <2>2, <2>3
<1> QED
  BY <1>1, <1>2 DEF TokenInv, TokensHaveCleanup, CertTokensOK

\* Every step keeps somebody bound to remove every token.
LEMMA TokenStep ==
  ASSUME TypeOK, TokenInv, [Next]_vars
  PROVE  TokenInv'
<1> USE DEF tokenVars, caVars, laterVars, flowVars, flowData
<1>1. ASSUME UNCHANGED <<certTokens, httpTokens>>, cleaning \subseteq cleaning',
             UNCHANGED cleanups
      PROVE  TokenInv'
  BY <1>1, CleanupsStay DEF HasCleanup
<1>2. ASSUME NEW f \in Flow, NEW authzURLs, Return(f, authzURLs), UNCHANGED tokenVars
      PROVE  TokenInv'
  BY <1>2, CleanupsStay, ReturnCleanups
<1>3. ASSUME NEW f \in Flow, FlowStep(f), ~Fulfill(f) PROVE TokenInv'
  <2>1. /\ UNCHANGED tokenVars
        /\ UNCHANGED <<cleaning, cleanups>> \/ \E authzURLs : Return(f, authzURLs)
    <3>1. CASE NewOrder(f) \/ NewOrderFails(f)
      BY <3>1 DEF NewOrder, NewOrderFails
    <3>2. CASE GetAuthz(f)
      BY <3>2 DEF GetAuthz, PickChallenge, GiveUp
    <3>3. CASE Accept(f) \/ WaitAuthz(f) \/ WaitOrder(f)
      BY <3>3 DEF Accept, WaitAuthz, WaitOrder
    <3> QED
      BY <1>3, <3>1, <3>2, <3>3 DEF FlowStep
  <2> QED
    BY <1>1, <1>2, <2>1
<1>4. ASSUME NEW f \in Flow, Fulfill(f) PROVE TokenInv'
  <2>1. CASE Put(f) /\ cleanups' = [cleanups EXCEPT ![f] = @ \union {CleanupOf(f)}]
    <3>1. PICK m, d, tok : m = mgr[f] /\ d = dom[f] /\ tok = chal[f]
      OBVIOUS
    <3>2. /\ m \in Manager /\ d \in Domain /\ tok \in Token
          /\ PutMemory(m, d, tok) /\ UNCHANGED cleaning
      BY <2>1, <3>1, FlowAtHand DEF Put
    <3>3. CleanupOf(f).mgr = m /\ CleanupOf(f).dom = d /\ CleanupOf(f).tok = tok
      BY <3>1 DEF CleanupOf
    <3>4. /\ CleanupOf(f) \in cleanups'[f]
          /\ \A g \in Flow : cleanups[g] \subseteq cleanups'[g]
      BY <2>1, <3>3, TypeParts DEF FlowTypes
    <3>5. HasCleanup(m, d, tok)'
      BY <3>3, <3>4 DEF HasCleanup
    <3>6. \A n, e, t : HasCleanup(n, e, t) => HasCleanup(n, e, t)'
      BY <3>2, <3>4 DEF HasCleanup
    <3> QED
      BY <3>2, <3>5, <3>6, MemoryStep
  <2>2. CASE UNCHANGED <<tokenVars, cleaning, cleanups>>
    BY <1>1, <2>2
  <2> QED
    BY <1>4, <2>1, <2>2 DEF Fulfill
<1>5. ASSUME NEW k \in Cleanup, RunCleanup(k) PROVE TokenInv'
  <2>1. k.mgr \in Manager /\ k.dom \in Domain /\ k.tok \in Token
    BY DEF Cleanup
  <2>2. \A n, e, t : HasCleanup(n, e, t) /\ ~(n = k.mgr /\ e = k.dom /\ t = k.tok)
                       => HasCleanup(n, e, t)'
    BY <1>5 DEF RunCleanup, HasCleanup
  <2> QED
    BY <1>5, <2>1, <2>2, MemoryStep DEF RunCleanup
<1>6. ASSUME Crash PROVE TokenInv'
  BY <1>6 DEF Crash, TokenInv, TokensHaveCleanup, CertTokensOK
<1>7. ASSUME \/ \E f \in Flow : \/ \E m \in Manager, d \in Domain : Start(f, m, d)
                                \/ EndContext(f)
             \/ \E k \in Cleanup : LateWrite(k)
             \/ \E a \in Authz : Validate(a) \/ Deactivate(a)
             \/ UNCHANGED vars
      PROVE  TokenInv'
  BY <1>1, <1>7 DEF Start, EndContext, LateWrite, Validate, Deactivate, vars, stateVars
<1> QED
  BY <1>3, <1>4, <1>5, <1>6, <1>7 DEF Next

\* Every token that a Manager keeps in memory has a flow or a goroutine that is bound
\* to remove it, whatever other flows for the same domain put or remove: a removal
\* takes away all that it is responsible for, and the others keep theirs.
THEOREM TokensHaveCleanupAlways == Spec => []TokensHaveCleanup
<1>1. Init => TokenInv
  BY DEF Init, TokenInv, TokensHaveCleanup, CertTokensOK
<1>2. TokenInv => TokensHaveCleanup
  BY DEF TokenInv
<1> QED
  BY <1>1, <1>2, TokenStep, TypeOKAlways, PTL DEF Spec

---------------------------------------------------------------------------
(* Authorizations are relinquished.                                        *)

\* Those to whom an authorization is still known.
Known == hanging \union deactivating \union UNION {urls[f] : f \in Flow}

\* A flow that ends passes its authorizations on.
LEMMA ReturnKnown ==
  ASSUME TypeOK, NEW f \in Flow, NEW authzURLs, urls[f] \subseteq authzURLs,
         Return(f, authzURLs), hanging \subseteq hanging'
  PROVE  Known \subseteq Known' /\ authzURLs \subseteq Known'
<1>1. /\ deactivating' = deactivating \union authzURLs
      /\ \A g \in Flow \ {f} : urls'[g] = urls[g]
  BY TypeParts DEF Return, FlowTypes
<1> QED
  BY <1>1 DEF Known

\* Every step keeps pending authorizations known.
LEMMA PendingStep ==
  ASSUME TypeOK, PendingIsRelinquished, [Next]_vars
  PROVE  PendingIsRelinquished'
<1> USE DEF tokenVars, caVars, laterVars, flowVars, flowData
<1>1. \A a \in Authz : status[a] = "pending" => a \in Known
  BY DEF PendingIsRelinquished, Known
<1>2. ASSUME Known \subseteq Known',
             \A a \in Authz : status'[a] = "pending" => status[a] = "pending" \/ a \in Known'
      PROVE  PendingIsRelinquished'
  BY <1>1, <1>2 DEF PendingIsRelinquished, Known
<1>3. ASSUME NEW f \in Flow, Return(f, urls[f]), UNCHANGED <<status, hanging>>
      PROVE  PendingIsRelinquished'
  BY <1>2, <1>3, ReturnKnown
<1>4. ASSUME UNCHANGED <<hanging, deactivating, urls, status>> PROVE PendingIsRelinquished'
  BY <1>4 DEF PendingIsRelinquished
<1>5. ASSUME NEW f \in Flow, NewOrder(f) PROVE PendingIsRelinquished'
  <2>1. PICK a \in Authz :
          /\ Granted(a, dom[f])
          /\ \/ Return(f, AuthzURLs(f, a)) /\ UNCHANGED hanging
             \/ /\ urls' = [urls EXCEPT ![f] = AuthzURLs(f, a)]
                /\ UNCHANGED laterVars
    BY <1>5 DEF NewOrder
  <2>2. \A b \in Authz : status'[b] = "pending" => status[b] = "pending" \/ b = a
    BY <2>1, TypeParts DEF Granted, CATypes
  <2>3. Known \subseteq Known' /\ a \in Known'
    <3>1. CASE Return(f, AuthzURLs(f, a))
      BY <2>1, <3>1, ReturnKnown DEF AuthzURLs
    <3>2. CASE urls' = [urls EXCEPT ![f] = AuthzURLs(f, a)] /\ UNCHANGED laterVars
      <4>1. /\ urls'[f] = urls[f] \union {a} /\ \A g \in Flow : urls[g] \subseteq urls'[g]
            /\ UNCHANGED <<hanging, deactivating>>
        BY <3>2, TypeParts DEF AuthzURLs, FlowTypes
      <4> QED
        BY <4>1 DEF Known
    <3> QED
      BY <2>1, <3>1, <3>2
  <2> QED
    BY <1>2, <2>2, <2>3
<1>11. ASSUME NEW f \in Flow, NewOrderFails(f) PROVE PendingIsRelinquished'
  <2>1. Return(f, urls[f])
    BY <1>11 DEF NewOrderFails
  <2>2. CASE UNCHANGED <<caVars, hanging>>
    BY <1>3, <2>1, <2>2
  <2>3. CASE \E a \in Authz : Granted(a, dom[f]) /\ hanging' = hanging \union {a}
    <3>1. PICK a \in Authz : Granted(a, dom[f]) /\ hanging' = hanging \union {a}
      BY <2>3
    <3>2. \A b \in Authz : status'[b] = "pending" => status[b] = "pending" \/ b = a
      BY <3>1, TypeParts DEF Granted, CATypes
    <3>3. Known \subseteq Known' /\ a \in Known'
      BY <2>1, <3>1, ReturnKnown DEF Known
    <3> QED
      BY <1>2, <3>2, <3>3
  <2> QED
    BY <1>11, <2>2, <2>3 DEF NewOrderFails
<1>6. ASSUME NEW f \in Flow, FlowStep(f), ~NewOrder(f), ~NewOrderFails(f)
      PROVE  PendingIsRelinquished'
  <2>1. /\ UNCHANGED status
        /\ UNCHANGED hanging
        /\ UNCHANGED <<deactivating, urls>> \/ Return(f, urls[f])
    <3>2. CASE GetAuthz(f)
      BY <3>2 DEF GetAuthz, PickChallenge, GiveUp
    <3>3. CASE Fulfill(f)
      BY <3>3 DEF Fulfill, Put
    <3>4. CASE Accept(f) \/ WaitAuthz(f) \/ WaitOrder(f)
      BY <3>4 DEF Accept, WaitAuthz, WaitOrder
    <3> QED
      BY <1>6, <3>2, <3>3, <3>4 DEF FlowStep
  <2> QED
    BY <1>3, <1>4, <2>1
<1>7. ASSUME NEW a \in Authz, Validate(a) PROVE PendingIsRelinquished'
  <2>1. \A b \in Authz : status'[b] = "pending" => status[b] = "pending"
    BY <1>7, TypeParts DEF Validate, CATypes
  <2> QED
    BY <1>2, <1>7, <2>1 DEF Validate, Known
<1>8. ASSUME NEW a \in Authz, Deactivate(a) PROVE PendingIsRelinquished'
  <2>1. \A b \in Authz \ {a} : status'[b] = status[b]
    BY <1>8, TypeParts DEF Deactivate, CATypes
  <2>2. status'[a] = "pending" => a \in hanging'
    BY <1>8, TypeParts DEF Deactivate, CATypes
  <2>3. /\ deactivating \ {a} \subseteq deactivating' /\ hanging \subseteq hanging' /\ UNCHANGED urls
    BY <1>8 DEF Deactivate
  <2> QED
    BY <1>1, <2>1, <2>2, <2>3 DEF PendingIsRelinquished, Known
<1>9. ASSUME Crash PROVE PendingIsRelinquished'
  <2>1. Known \subseteq Known' /\ UNCHANGED status
    BY <1>9 DEF Crash, Known
  <2> QED
    BY <1>2, <2>1
<1>10. ASSUME \/ \E f \in Flow : \/ \E m \in Manager, d \in Domain : Start(f, m, d)
                                 \/ EndContext(f)
              \/ \E k \in Cleanup : RunCleanup(k) \/ LateWrite(k)
              \/ UNCHANGED vars
       PROVE  PendingIsRelinquished'
  BY <1>4, <1>10 DEF Start, EndContext, RunCleanup, LateWrite, vars, stateVars
<1> QED
  BY <1>5, <1>6, <1>7, <1>8, <1>9, <1>10, <1>11 DEF Next, FlowStep

\* No authorization is left pending at the CA without somebody who knows of it, but
\* for failed requests and crashes: flows collect the authorizations of all their
\* orders, and pass them on when they end.
THEOREM PendingIsRelinquishedAlways == Spec => []PendingIsRelinquished
<1>1. Init => PendingIsRelinquished
  BY DEF Init, PendingIsRelinquished
<1> QED
  BY <1>1, PendingStep, TypeOKAlways, PTL DEF Spec

---------------------------------------------------------------------------
(* The token of a flow that is alone is served.                            *)

\* An authorization keeps its name once it has been made.
LEMMA NamesStay ==
  ASSUME TypeOK, [Next]_vars, NEW a \in Authz, status[a] # "none"
  PROVE  status'[a] # "none" /\ names'[a] = names[a]
<1> USE DEF caVars
<1>1. CASE UNCHANGED <<status, names>>
  BY <1>1
<1>2. ASSUME NEW f \in Flow, NewOrder(f) \/ NewOrderFails(f)
      PROVE  status'[a] # "none" /\ names'[a] = names[a]
  <2>1. UNCHANGED caVars \/ \E b \in Authz : Granted(b, dom[f])
    BY <1>2 DEF NewOrder, NewOrderFails
  <2> QED BY <2>1, TypeParts DEF Granted, CATypes
<1>3. ASSUME NEW b \in Authz, Validate(b) \/ Deactivate(b)
      PROVE  status'[a] # "none" /\ names'[a] = names[a]
  BY <1>3, TypeParts DEF Validate, Deactivate, CATypes
<1>4. ASSUME NEW f \in Flow, NEW m \in Manager, NEW d \in Domain,
             Start(f, m, d) \/ EndContext(f) \/ (FlowStep(f) /\ ~NewOrder(f) /\ ~NewOrderFails(f))
      PROVE  UNCHANGED <<status, names>>
  BY <1>4 DEF Start, EndContext, FlowStep, GetAuthz, PickChallenge,
     GiveUp, Fulfill, Put, Accept, WaitAuthz, WaitOrder
<1>5. ASSUME NEW k \in Cleanup, RunCleanup(k) \/ LateWrite(k)
      PROVE  UNCHANGED <<status, names>>
  BY <1>5 DEF RunCleanup, LateWrite
<1>6. ASSUME Crash \/ UNCHANGED vars
      PROVE  UNCHANGED <<status, names>>
  BY <1>6 DEF Crash, vars, stateVars
<1>7. ASSUME NEW f \in Flow, EndContext(f) \/ (FlowStep(f) /\ ~NewOrder(f) /\ ~NewOrderFails(f))
      PROVE  UNCHANGED <<status, names>>
  BY <1>7 DEF EndContext, FlowStep, GetAuthz, PickChallenge,
     GiveUp, Fulfill, Put, Accept, WaitAuthz, WaitOrder
<1> QED BY <1>1, <1>2, <1>3, <1>4, <1>5, <1>6, <1>7 DEF Next

\* What OwnTokens says of one flow, and of removals.
FlowOwn(f) ==
  /\ pc[f] = "idle" => cur[f] = None /\ cleanups[f] = {}
  /\ cur[f] # None => status[cur[f]] # "none" /\ names[cur[f]] = dom[f]
  /\ pc[f] \in {"fulfill", "accept", "wait"} => chal[f].authz = cur[f]
  /\ \A k \in cleanups[f] : k.mgr = mgr[f] /\ k.dom = dom[f]

Named(k) == status[k.tok.authz] # "none" /\ names[k.tok.authz] = k.dom

LEMMA OwnParts ==
  OwnTokens <=> /\ \A f \in Flow : FlowOwn(f)
                /\ \A k \in cleaning : Named(k)
                /\ \A f \in Flow : \A k \in cleanups[f] : Named(k)
BY DEF OwnTokens, FlowOwn, Named

\* A removal stays named.
LEMMA NamedStays ==
  ASSUME TypeOK, [Next]_vars, NEW k \in Cleanup, Named(k)
  PROVE  Named(k)'
BY NamesStay DEF Named, Cleanup, Token

\* A flow that a step leaves alone, but for names of authorizations, stays in order.
LEMMA FlowOwnStays ==
  ASSUME TypeOK, [Next]_vars, NEW f \in Flow, FlowOwn(f),
         UNCHANGED <<mgr[f], dom[f], cur[f], chal[f], cleanups[f]>>,
         pc'[f] # pc[f] => pc'[f] \in {"order", "authz", "finish"}
                           \/ (pc'[f] = "wait" /\ pc[f] = "accept")
  PROVE  FlowOwn(f)'
BY NamesStay, TypeParts DEF FlowOwn, FlowTypes

\* The end of a flow leaves everybody's own.
LEMMA ReturnOwn ==
  ASSUME TypeOK, OwnTokens, [Next]_vars, NEW f \in Flow, NEW authzURLs,
         Return(f, authzURLs)
  PROVE  OwnTokens'
<1>1. /\ pc'[f] = "idle" /\ cur'[f] = None /\ cleanups'[f] = {}
      /\ cleaning' = cleaning \union cleanups[f]
      /\ \A g \in Flow \ {f} :
           UNCHANGED <<pc[g], mgr[g], dom[g], cur[g], chal[g], cleanups[g]>>
  BY TypeParts DEF Return, Goto, FlowTypes
<1>2. FlowOwn(f)'
  BY <1>1 DEF FlowOwn
<1>3. \A g \in Flow \ {f} : FlowOwn(g)'
  BY <1>1, OwnParts, FlowOwnStays
<1>4. \A k \in cleaning' : Named(k)'
  BY <1>1, OwnParts, NamedStays, TypeParts DEF LaterTypes, FlowTypes
<1>5. \A g \in Flow : \A k \in cleanups'[g] : Named(k)'
  BY <1>1, OwnParts, NamedStays, TypeParts DEF FlowTypes
<1> QED BY <1>2, <1>3, <1>4, <1>5 DEF OwnTokens, FlowOwn, Named

\* Every step keeps what flows have their own.
LEMMA OwnStep ==
  ASSUME TypeOK, OwnTokens, [Next]_vars
  PROVE  OwnTokens'
<1> USE DEF caVars, tokenVars, laterVars, flowData, flowVars
<1>1. ASSUME cleaning' \subseteq cleaning, NEW f \in Flow, FlowOwn(f)',
             \A k \in cleanups'[f] : Named(k)',
             \A g \in Flow \ {f} :
               UNCHANGED <<pc[g], mgr[g], dom[g], cur[g], chal[g], cleanups[g]>>
      PROVE  OwnTokens'
  <2>1. \A g \in Flow : FlowOwn(g)'
    BY <1>1, OwnParts, FlowOwnStays
  <2>2. \A k \in cleaning' : Named(k)'
    BY <1>1, OwnParts, NamedStays, TypeParts DEF LaterTypes
  <2>3. \A g \in Flow : \A k \in cleanups'[g] : Named(k)'
    BY <1>1, OwnParts, NamedStays, TypeParts DEF FlowTypes
  <2> QED BY <2>1, <2>2, <2>3 DEF OwnTokens, FlowOwn, Named
<1>2. ASSUME cleaning' \subseteq cleaning, UNCHANGED <<mgr, dom, cur, chal, cleanups>>,
             \A f \in Flow : pc'[f] # pc[f] =>
               \/ pc'[f] \in {"order", "authz", "finish"}
               \/ pc'[f] = "wait" /\ pc[f] = "accept"
      PROVE  OwnTokens'
  <2>1. \A g \in Flow : FlowOwn(g)'
    BY <1>2, OwnParts, FlowOwnStays
  <2>2. \A k \in cleaning' : Named(k)'
    BY <1>2, OwnParts, NamedStays, TypeParts DEF LaterTypes
  <2>3. \A g \in Flow : \A k \in cleanups'[g] : Named(k)'
    BY <1>2, OwnParts, NamedStays, TypeParts DEF FlowTypes
  <2> QED BY <2>1, <2>2, <2>3 DEF OwnTokens, FlowOwn, Named
<1>3. ASSUME NEW f \in Flow, NEW m \in Manager, NEW d \in Domain, Start(f, m, d)
      PROVE  OwnTokens'
  <2>1. /\ pc'[f] = "order" /\ cur'[f] = None /\ cleanups'[f] = {} /\ UNCHANGED cleaning
        /\ \A g \in Flow \ {f} :
             UNCHANGED <<pc[g], mgr[g], dom[g], cur[g], chal[g], cleanups[g]>>
    BY <1>3, OwnParts, TypeParts DEF Start, Goto, FlowTypes, FlowOwn
  <2>2. FlowOwn(f)'
    BY <2>1 DEF FlowOwn
  <2> QED BY <1>1, <2>1, <2>2
<1>4. ASSUME NEW f \in Flow, NewOrder(f)
      PROVE  OwnTokens'
  <2>1. CASE \E authzURLs : Return(f, authzURLs)
    BY <2>1, ReturnOwn
  <2>2. CASE ~\E authzURLs : Return(f, authzURLs)
    <3>1. PICK a \in Authz :
            /\ Granted(a, dom[f])
            /\ Goto(f, "authz") /\ cur' = [cur EXCEPT ![f] = a]
            /\ UNCHANGED <<mgr, dom, chal, cleanups, cleaning>>
      BY <1>4, <2>2 DEF NewOrder
    <3>0. env.reuses \subseteq {"pending", "valid", "invalid"}
      BY TypeParts DEF Environment
    <3>2. status'[a] # "none" /\ names'[a] = dom[f]
      BY <3>0, <3>1, TypeParts DEF Granted, CATypes
    <3>3. /\ pc'[f] = "authz" /\ cur'[f] = a
          /\ \A g \in Flow \ {f} :
             UNCHANGED <<pc[g], mgr[g], dom[g], cur[g], chal[g], cleanups[g]>>
      BY <3>1, TypeParts DEF Goto, FlowTypes
    <3>4. FlowOwn(f)'
      BY <3>1, <3>2, <3>3, OwnParts DEF FlowOwn
    <3>5. \A k \in cleanups'[f] : Named(k)'
      BY <3>1, OwnParts, NamedStays, TypeParts DEF FlowTypes
    <3> QED BY <1>1, <3>1, <3>3, <3>4, <3>5
  <2> QED BY <2>1, <2>2
<1>5. ASSUME NEW f \in Flow, GetAuthz(f)
      PROVE  OwnTokens'
  <2>1. CASE \E authzURLs : Return(f, authzURLs)
    BY <2>1, ReturnOwn
  <2>2. CASE Goto(f, "finish") /\ UNCHANGED <<flowData, laterVars>>
    BY <1>2, <2>2, TypeParts DEF Goto, FlowTypes
  <2>3. CASE PickChallenge(f)
    <3>1. PICK type : chal' = [chal EXCEPT ![f] = [authz |-> cur[f], type |-> type]]
      BY <2>3 DEF PickChallenge
    <3>2. /\ pc'[f] = "fulfill" /\ chal'[f].authz = cur[f]
          /\ UNCHANGED <<mgr, dom, cur, cleanups, cleaning, status, names>>
          /\ \A g \in Flow \ {f} :
             UNCHANGED <<pc[g], mgr[g], dom[g], cur[g], chal[g], cleanups[g]>>
      BY <2>3, <3>1, TypeParts DEF PickChallenge, Goto, FlowTypes
    <3>3. FlowOwn(f)'
      BY <3>2, OwnParts DEF FlowOwn
    <3>4. \A k \in cleanups'[f] : Named(k)'
      BY <3>2, OwnParts, NamedStays, TypeParts DEF FlowTypes
    <3> QED BY <1>1, <3>2, <3>3, <3>4
  <2> QED BY <1>5, <2>1, <2>2, <2>3 DEF GetAuthz, GiveUp
<1>6. ASSUME NEW f \in Flow, Fulfill(f)
      PROVE  OwnTokens'
  <2>1. CASE Goto(f, "order") /\ UNCHANGED <<flowData, laterVars>>
    BY <1>2, <2>1, TypeParts DEF Goto, FlowTypes
  <2>2. CASE Put(f) /\ cleanups' = [cleanups EXCEPT ![f] = @ \union {CleanupOf(f)}]
    <3>1. /\ pc[f] = "fulfill" /\ pc'[f] = "accept"
          /\ UNCHANGED <<mgr, dom, cur, chal, cleaning, status, names>>
          /\ cleanups'[f] = cleanups[f] \union {CleanupOf(f)}
          /\ \A g \in Flow \ {f} :
             UNCHANGED <<pc[g], mgr[g], dom[g], cur[g], chal[g], cleanups[g]>>
      BY <2>2, TypeParts DEF Put, Goto, FlowTypes
    <3>2. FlowOwn(f) /\ cur[f] # None
      BY <3>1, OwnParts, FlowAtHand
    <3>3. FlowOwn(f)'
      BY <3>1, <3>2 DEF FlowOwn, CleanupOf
    <3>4. \A k : k = CleanupOf(f) => Named(k)'
      BY <3>1, <3>2 DEF FlowOwn, Named, CleanupOf
    <3>5. \A k \in cleanups'[f] : Named(k)'
      BY <3>1, <3>4, OwnParts, NamedStays, TypeParts DEF FlowTypes
    <3> QED BY <1>1, <3>1, <3>3, <3>5
  <2> QED BY <1>6, <2>1, <2>2 DEF Fulfill
<1>7. ASSUME NEW f \in Flow, Accept(f)
      PROVE  OwnTokens'
  BY <1>2, <1>7, TypeParts DEF Accept, Goto, FlowTypes
<1>8. ASSUME NEW f \in Flow, NewOrderFails(f) \/ WaitAuthz(f) \/ WaitOrder(f)
      PROVE  OwnTokens'
  <2>1. CASE \E authzURLs : Return(f, authzURLs)
    BY <2>1, ReturnOwn
  <2>2. CASE \E label \in {"order", "finish"} :
               Goto(f, label) /\ UNCHANGED <<flowData, laterVars>>
    BY <1>2, <2>2, TypeParts DEF Goto, FlowTypes
  <2> QED BY <1>8, <2>1, <2>2 DEF NewOrderFails, WaitAuthz, WaitOrder
<1>9. ASSUME \/ \E f \in Flow : EndContext(f)
             \/ \E k \in Cleanup : RunCleanup(k) \/ LateWrite(k)
             \/ \E a \in Authz : Validate(a) \/ Deactivate(a)
             \/ UNCHANGED vars
      PROVE  OwnTokens'
  BY <1>2, <1>9 DEF EndContext, RunCleanup, LateWrite, Validate, Deactivate, vars, stateVars
<1>10. ASSUME Crash
       PROVE  OwnTokens'
  BY <1>10 DEF Crash, OwnTokens
<1> QED
  BY <1>3, <1>4, <1>5, <1>6, <1>7, <1>8, <1>9, <1>10 DEF Next, FlowStep

\* What LeftAlone says of one flow that is alone.
AloneOK(f) ==
  /\ dom[f] # None
  /\ \A g \in Flow \ {f} : dom[g] # dom[f]
  /\ \A k \in cleaning : k.dom # dom[f]
  /\ \A k \in late : k.dom = dom[f] => ~live[f] /\ pc[f] \in {"accept", "order"}

\* The end of a flow leaves the others alone.
LEMMA ReturnAlone ==
  ASSUME TypeOK, OwnTokens, LeftAlone, NEW f \in Flow, NEW authzURLs, Return(f, authzURLs)
  PROVE  LeftAlone'
<1> SUFFICES ASSUME NEW g \in Flow, alone'[g] PROVE AloneOK(g)'
  BY DEF LeftAlone, AloneOK
<1>1. g # f /\ alone[g] /\ AloneOK(g)
  BY TypeParts DEF Return, FlowTypes, LeftAlone, AloneOK
<1>2. /\ cleaning' = cleaning \union cleanups[f] /\ late' = late
      /\ dom'[f] = None /\ \A h \in Flow \ {f} : dom'[h] = dom[h]
      /\ live'[g] = live[g] /\ pc'[g] = pc[g]
  BY <1>1, TypeParts DEF Return, Goto, FlowTypes
<1>3. \A k \in cleanups[f] : k.dom = dom[f]
  BY OwnParts DEF FlowOwn
<1> QED BY <1>1, <1>2, <1>3 DEF AloneOK

\* Every step leaves the flows alone that are alone.
LEMMA AloneStep ==
  ASSUME TypeOK, OwnTokens, LeftAlone, [Next]_vars
  PROVE  LeftAlone'
<1> USE DEF caVars, tokenVars, laterVars, flowData, flowVars
<1>1. \A f \in Flow : alone[f] => AloneOK(f)
  BY DEF LeftAlone, AloneOK
<1>2. ASSUME UNCHANGED <<dom, alone>>, cleaning' \subseteq cleaning,
             late' \subseteq late,
             \A f \in Flow : live'[f] => live[f],
             \A f \in Flow : (pc[f] \in {"accept", "order"} /\ ~live[f])
                               => pc'[f] \in {"accept", "order"}
      PROVE  LeftAlone'
  BY <1>1, <1>2 DEF LeftAlone, AloneOK
<1>3. ASSUME NEW f \in Flow, NEW m \in Manager, NEW d \in Domain, Start(f, m, d)
      PROVE  LeftAlone'
  <2>1. /\ dom' = [dom EXCEPT ![f] = d] /\ UNCHANGED <<cleaning, late>> /\ d # None
        /\ \A g \in Flow \ {f} : live'[g] = live[g] /\ pc'[g] = pc[g]
    BY <1>3, TypeParts DEF Start, Goto, FlowTypes
  <2>2. ASSUME alone'[f]
        PROVE  AloneOK(f)'
    <3>1. /\ \A h \in Flow \ {f} : dom[h] # d
          /\ \A k \in cleaning \union late : k.dom # d
      BY <1>3, <2>2 DEF Start
    <3> QED BY <2>1, <3>1, TypeParts DEF AloneOK, FlowTypes
  <2>3. ASSUME NEW g \in Flow \ {f}, alone'[g]
        PROVE  AloneOK(g)'
    <3>1. alone[g] /\ dom[g] # d
      BY <1>3, <2>3 DEF Start
    <3> QED BY <1>1, <2>1, <3>1, TypeParts DEF AloneOK, FlowTypes
  <2> QED BY <2>2, <2>3 DEF LeftAlone, AloneOK
<1>4. ASSUME NEW f \in Flow, NewOrder(f) \/ NewOrderFails(f)
      PROVE  LeftAlone'
  <2>1. CASE \E authzURLs : Return(f, authzURLs)
    BY <2>1, ReturnAlone
  <2>2. CASE ~\E authzURLs : Return(f, authzURLs)
    BY <1>2, <1>4, <2>2, TypeParts DEF NewOrder, NewOrderFails, Goto, FlowTypes
  <2> QED BY <2>1, <2>2
<1>5. ASSUME NEW f \in Flow, GetAuthz(f) \/ WaitAuthz(f) \/ WaitOrder(f)
      PROVE  LeftAlone'
  <2>1. CASE \E authzURLs : Return(f, authzURLs)
    BY <2>1, ReturnAlone
  <2>2. CASE ~\E authzURLs : Return(f, authzURLs)
    <3>1. /\ UNCHANGED <<dom, alone, live, cleaning, late>>
          /\ \E label : Goto(f, label)
          /\ pc[f] \notin {"accept", "order"}
      BY <1>5, <2>2 DEF GetAuthz, PickChallenge, GiveUp, WaitAuthz, WaitOrder
    <3> QED BY <1>2, <3>1, TypeParts DEF Goto, FlowTypes
  <2> QED BY <2>1, <2>2
<1>6. ASSUME NEW f \in Flow, Fulfill(f)
      PROVE  LeftAlone'
  <2>1. /\ pc[f] = "fulfill" /\ pc'[f] \in {"accept", "order"}
        /\ \A g \in Flow \ {f} : pc'[g] = pc[g] /\ live'[g] = live[g]
        /\ UNCHANGED <<dom, alone, cleaning>>
    BY <1>6, TypeParts DEF Fulfill, Put, Goto, FlowTypes
  <2>2. \/ late' = late
        \/ late' = late \union {CleanupOf(f)} /\ ~live'[f]
    BY <1>6, TypeParts DEF Fulfill, Put, FlowTypes
  <2>3. CleanupOf(f).dom = dom[f]
    BY DEF CleanupOf
  <2>4. ASSUME NEW g \in Flow, alone[g]
        PROVE  AloneOK(g)'
    <3>1. CASE g = f
      BY <1>1, <2>1, <2>2, <2>3, <2>4, <3>1 DEF AloneOK
    <3>2. CASE g # f
      BY <1>1, <2>1, <2>2, <2>3, <2>4, <3>2 DEF AloneOK
    <3> QED BY <3>1, <3>2
  <2> QED BY <2>1, <2>4 DEF LeftAlone, AloneOK
<1>7. ASSUME NEW f \in Flow, Accept(f)
      PROVE  LeftAlone'
  <2>1. /\ UNCHANGED <<dom, alone, live, cleaning, late>>
        /\ \E label : Goto(f, label) /\ (~live[f] => label = "order")
    BY <1>7 DEF Accept
  <2> QED BY <1>2, <2>1, TypeParts DEF Goto, FlowTypes
<1>8. ASSUME \/ \E f \in Flow : EndContext(f)
             \/ \E k \in Cleanup : RunCleanup(k) \/ LateWrite(k)
             \/ \E a \in Authz : Validate(a) \/ Deactivate(a)
             \/ UNCHANGED vars
      PROVE  LeftAlone'
  BY <1>2, <1>8, TypeParts
     DEF EndContext, RunCleanup, LateWrite, Validate, Deactivate, vars, stateVars, FlowTypes
<1>9. ASSUME Crash
      PROVE  LeftAlone'
  BY <1>9 DEF Crash, LeftAlone
<1> QED BY <1>3, <1>4, <1>5, <1>6, <1>7, <1>8, <1>9 DEF Next, FlowStep

\* Tokens that are put for another domain, or removed for another domain and not the
\* token itself, do not change how it is served.
LEMMA ServedElsewhere ==
  ASSUME TypeOK, UNCHANGED env, NEW m \in Manager, NEW d \in Domain, NEW e \in Domain, d # e,
         NEW other, NEW tok \in Token, Served(tok, d),
         \/ PutMemory(m, e, other) \/ (DeleteMemory(m, e, other) /\ other # tok)
         \/ UNCHANGED <<certTokens, httpTokens>>,
         \/ PutStored(e, other) \/ (DeleteStored(e, other) /\ other # tok)
         \/ NothingStored
  PROVE  Served(tok, d)'
<1> USE TypeParts DEF TokenTypes
<1>1. certTokens'[Server][d] = certTokens[Server][d]
  BY DEF PutMemory, DeleteMemory
<1>2. tok \in httpTokens[Server] => tok \in httpTokens'[Server]
  <2>1. CASE PutMemory(m, e, other)
    BY <2>1 DEF PutMemory
  <2>2. CASE DeleteMemory(m, e, other) /\ other # tok
    BY <2>2 DEF DeleteMemory
  <2> QED BY <2>1, <2>2
<1>3. /\ cachedCert'[d] = cachedCert[d] /\ txt'[d] = txt[d]
      /\ tok \in cachedHTTP => tok \in cachedHTTP'
  BY DEF PutStored, DeleteStored, NothingStored
<1> QED BY <1>1, <1>2, <1>3 DEF Served, ServedTLS, ServedHTTP

\* A flow that is alone and puts its token has it served.
LEMMA PutServes ==
  ASSUME TypeOK, UNCHANGED env, TokensHaveCleanup, OwnTokens, NEW f \in Flow, AloneOK(f),
         Put(f), live'[f], CanServe(f)
  PROVE  Served(chal[f], dom[f])'
<1> USE TypeParts DEF TokenTypes
<1> DEFINE m == mgr[f]
           d == dom[f]
           tok == chal[f]
<1>1. /\ m \in Manager /\ d \in Domain /\ tok \in Token
      /\ PutMemory(m, d, tok) /\ UNCHANGED <<chal, dom>>
  BY FlowAtHand DEF Put
<1>2. PutStored(d, tok) \/ (m = Server /\ tok.type # "dns-01")
  BY DEF Put, CanServe, FlowTypes
<1>3. m # Server => certTokens[Server][d] = None
  <2> SUFFICES ASSUME m # Server, certTokens[Server][d] # None PROVE FALSE
    OBVIOUS
  <2>1. HasCleanup(Server, d, certTokens[Server][d])
    BY <1>1 DEF TokensHaveCleanup
  <2>2. PICK k \in cleaning \union UNION {cleanups[h] : h \in Flow} :
          k.mgr = Server /\ k.dom = d
    BY <2>1 DEF HasCleanup
  <2>3. PICK h \in Flow : k \in cleanups[h]
    BY <2>2 DEF AloneOK
  <2>4. dom[h] = d /\ mgr[h] = Server
    BY <2>2, <2>3, OwnParts DEF FlowOwn
  <2> QED BY <2>4 DEF AloneOK
<1>4. CASE tok.type = "tls-alpn-01"
  <2>1. m = Server => certTokens'[Server][d] = tok
    BY <1>1, <1>4 DEF PutMemory
  <2>2. m # Server => certTokens'[Server][d] = None /\ cachedCert'[d] = tok
    BY <1>1, <1>2, <1>3, <1>4 DEF PutMemory, PutStored
  <2> QED BY <1>1, <1>4, <2>1, <2>2 DEF Served, ServedTLS, CanServe
<1>5. CASE tok.type = "http-01"
  <2>1. m = Server => tok \in httpTokens'[Server]
    BY <1>1, <1>5 DEF PutMemory
  <2>2. m # Server => tok \in cachedHTTP'
    BY <1>2, <1>5 DEF PutStored
  <2> QED BY <1>1, <1>5, <2>1, <2>2 DEF Served, ServedHTTP, CanServe
<1>6. CASE tok.type = "dns-01"
  BY <1>1, <1>2, <1>6 DEF Served, PutStored
<1> QED BY <1>1, <1>4, <1>5, <1>6 DEF Token, Type

\* A flow that is alone has put its token and has not turned away.
Waits(f) == alone[f] /\ (pc[f] = "wait" \/ (pc[f] = "accept" /\ live[f])) /\ CanServe(f)

\* A flow that waits has a token for its own domain, which no removal or late write
\* is about.
LEMMA WaitingAlone ==
  ASSUME TypeOK, OwnTokens, LeftAlone, NEW f \in Flow, Waits(f)
  PROVE  /\ chal[f] \in Token /\ dom[f] \in Domain /\ AloneOK(f)
         /\ \A g \in Flow \ {f} : dom[g] # dom[f]
         /\ \A k \in late : k.dom # dom[f]
         /\ \A k \in cleaning : k.dom # dom[f] /\ k.tok # chal[f]
<1>1. AloneOK(f) /\ pc[f] \in {"accept", "wait"} /\ chal[f] \in Token /\ dom[f] \in Domain
  BY FlowAtHand DEF Waits, LeftAlone, AloneOK
<1>2. \A k \in late : k.dom # dom[f]
  BY <1>1 DEF AloneOK, Waits
<1>3. names[chal[f].authz] = dom[f]
  BY <1>1, OwnParts, FlowAtHand DEF FlowOwn
<1>4. \A k \in cleaning : k.dom # dom[f] /\ k.tok # chal[f]
  BY <1>1, <1>3, OwnParts DEF AloneOK, Named
<1> QED BY <1>1, <1>2, <1>4 DEF AloneOK

\* A flow's end, and every step that only moves flows on, keeps tokens served.
LEMMA ServedStays ==
  ASSUME ServedInTime, UNCHANGED <<env, tokenVars>>,
         \A f \in Flow : Waits(f)' => Waits(f) /\ UNCHANGED <<chal[f], dom[f]>>
  PROVE  ServedInTime'
<1> SUFFICES ASSUME NEW f \in Flow, Waits(f)' PROVE Served(chal[f], dom[f])'
  BY DEF ServedInTime, Waits
<1>1. Served(chal[f], dom[f]) /\ UNCHANGED <<chal[f], dom[f]>>
  BY DEF ServedInTime, Waits
<1> QED BY <1>1 DEF Served, ServedTLS, ServedHTTP, tokenVars

\* Every step keeps tokens served.
LEMMA ServedStep ==
  ASSUME TypeOK, TokensHaveCleanup, AloneInv, [Next]_vars
  PROVE  ServedInTime'
<1> USE DEF caVars, tokenVars, laterVars, flowData, flowVars
<1>0. OwnTokens /\ LeftAlone /\ ServedInTime /\ UNCHANGED env
  BY DEF AloneInv, Next, vars
<1>1. \A f \in Flow : Waits(f) => Served(chal[f], dom[f])
  BY <1>0 DEF ServedInTime, Waits
<1>2. ASSUME NEW f \in Flow, FlowStep(f), ~Put(f)
      PROVE  ServedInTime'
  <2>1. UNCHANGED tokenVars
    BY <1>2 DEF FlowStep, NewOrder, NewOrderFails, GetAuthz, PickChallenge, GiveUp,
       Fulfill, Accept, WaitAuthz, WaitOrder
  <2>2. \A g \in Flow \ {f} :
          UNCHANGED <<pc[g], mgr[g], dom[g], live[g], chal[g], alone[g]>>
    <3>1. CASE \E authzURLs : Return(f, authzURLs)
      BY <3>1, TypeParts DEF Return, Goto, FlowTypes
    <3>2. CASE ~\E authzURLs : Return(f, authzURLs)
      <4>1. /\ \E label : Goto(f, label)
            /\ UNCHANGED <<mgr, dom, live, alone>>
            /\ \A g \in Flow \ {f} : chal'[g] = chal[g]
        <5>1. CASE GetAuthz(f)
          BY <3>2, <5>1, TypeParts DEF GetAuthz, PickChallenge, GiveUp, FlowTypes
        <5>2. CASE ~GetAuthz(f)
          BY <1>2, <3>2, <5>2 DEF FlowStep, NewOrder, NewOrderFails,
             Fulfill, Accept, WaitAuthz, WaitOrder
        <5> QED BY <5>1, <5>2
      <4> QED BY <4>1, TypeParts DEF Goto, FlowTypes
    <3> QED BY <3>1, <3>2
  <2>3. Waits(f)' => Waits(f) /\ UNCHANGED <<chal[f], dom[f]>>
    <3>1. CASE Accept(f)
      BY <1>0, <3>1, TypeParts DEF Accept, Goto, FlowTypes, Waits, CanServe
    <3>2. CASE ~Accept(f)
      <4>1. pc'[f] \notin {"accept", "wait"}
        BY <1>2, <3>2, TypeParts DEF FlowStep, NewOrder, NewOrderFails, GetAuthz,
           PickChallenge, GiveUp, Fulfill, WaitAuthz, WaitOrder, Return, Goto, FlowTypes
      <4> QED BY <4>1 DEF Waits
    <3> QED BY <3>1, <3>2
  <2>4. \A g \in Flow \ {f} : Waits(g)' => Waits(g) /\ UNCHANGED <<chal[g], dom[g]>>
    BY <1>0, <2>2 DEF Waits, CanServe
  <2> QED BY <1>0, <2>1, <2>3, <2>4, ServedStays
<1>3. ASSUME NEW f \in Flow, Put(f)
      PROVE  ServedInTime'
  <2>1. /\ pc[f] = "fulfill" /\ pc'[f] = "accept"
        /\ \A g \in Flow \ {f} : pc'[g] = pc[g] /\ live'[g] = live[g]
        /\ UNCHANGED <<mgr, dom, alone, chal>>
        /\ mgr[f] \in Manager /\ dom[f] \in Domain
        /\ PutMemory(mgr[f], dom[f], chal[f])
        /\ PutStored(dom[f], chal[f]) \/ NothingStored
    BY <1>3, FlowAtHand, TypeParts DEF Put, Goto, FlowTypes
  <2>2. ASSUME NEW g \in Flow \ {f}, Waits(g)'
        PROVE  Served(chal[g], dom[g])'
    <3>1. Waits(g)
      BY <1>0, <2>1, <2>2 DEF Waits, CanServe
    <3>2. /\ Served(chal[g], dom[g]) /\ chal[g] \in Token /\ dom[g] \in Domain
          /\ dom[g] # dom[f]
      BY <1>0, <1>1, <3>1, WaitingAlone
    <3> DEFINE Kept(tok, d) == Served(tok, d)'
    <3>3. Kept(chal[g], dom[g])
      BY <1>0, <2>1, <3>2, ServedElsewhere
    <3> QED BY <2>1, <3>3 DEF Served, ServedTLS, ServedHTTP
  <2>3. ASSUME Waits(f)'
        PROVE  Served(chal[f], dom[f])'
    <3>1. AloneOK(f) /\ live'[f] /\ CanServe(f)
      BY <1>0, <2>1, <2>3 DEF Waits, CanServe, LeftAlone, AloneOK
    <3> QED BY <1>0, <1>3, <3>1, PutServes
  <2> QED BY <2>2, <2>3 DEF ServedInTime, Waits
<1>4. ASSUME NEW k \in Cleanup, RunCleanup(k) \/ LateWrite(k)
      PROVE  ServedInTime'
  <2> SUFFICES ASSUME NEW g \in Flow, Waits(g)
               PROVE  Served(chal[g], dom[g])'
    BY <1>0, <1>4 DEF RunCleanup, LateWrite, Waits, CanServe, ServedInTime
  <2>1. k.mgr \in Manager /\ k.dom \in Domain
    BY DEF Cleanup
  <2>2. /\ Served(chal[g], dom[g]) /\ chal[g] \in Token /\ dom[g] \in Domain
        /\ dom[g] # k.dom /\ (RunCleanup(k) => chal[g] # k.tok)
    BY <1>0, <1>1, <1>4, WaitingAlone DEF RunCleanup, LateWrite
  <2>3. UNCHANGED <<chal, dom>>
    BY <1>4 DEF RunCleanup, LateWrite
  <2> DEFINE Kept(tok, d) == Served(tok, d)'
  <2>4. Kept(chal[g], dom[g])
    BY <1>0, <1>4, <2>1, <2>2, ServedElsewhere DEF RunCleanup, LateWrite
  <2> QED BY <2>3, <2>4 DEF Served, ServedTLS, ServedHTTP
<1>5. ASSUME NEW f \in Flow, NEW m \in Manager, NEW d \in Domain, Start(f, m, d)
      PROVE  ServedInTime'
  <2>1. \A g \in Flow : Waits(g)' => Waits(g) /\ UNCHANGED <<chal[g], dom[g]>>
    <3>1. ~Waits(f)'
      BY <1>5, TypeParts DEF Start, Goto, FlowTypes, Waits
    <3>2. ASSUME NEW g \in Flow \ {f}, Waits(g)'
          PROVE  Waits(g) /\ UNCHANGED <<chal[g], dom[g]>>
      BY <1>0, <1>5, <3>2, TypeParts DEF Start, Goto, FlowTypes, Waits, CanServe
    <3> QED BY <3>1, <3>2
  <2> QED BY <1>0, <1>5, <2>1, ServedStays DEF Start
<1>6. ASSUME \/ \E f \in Flow : EndContext(f)
             \/ \E a \in Authz : Validate(a) \/ Deactivate(a)
             \/ UNCHANGED vars
      PROVE  ServedInTime'
  BY <1>0, <1>6, ServedStays, TypeParts
     DEF EndContext, Validate, Deactivate, vars, stateVars, Waits, CanServe, FlowTypes
<1>7. ASSUME Crash
      PROVE  ServedInTime'
  BY <1>7 DEF Crash, ServedInTime
<1> QED BY <1>2, <1>3, <1>4, <1>5, <1>6, <1>7 DEF Next

\* While a flow that nobody disturbs waits for the CA, the ports of the server answer
\* with the token it has put: the removals of other flows and writes that outlived
\* their contexts are about other domains, or find the flow on its way out.
THEOREM AloneIsServedAlways == Spec => []AloneIsServed
<1>1. Init => AloneInv
  BY DEF Init, AloneInv, OwnTokens, LeftAlone, ServedInTime
<1>2. TypeOK /\ TokensHaveCleanup /\ AloneInv /\ [Next]_vars => AloneInv'
  BY OwnStep, AloneStep, ServedStep DEF AloneInv
<1>3. AloneInv => AloneIsServed
  BY DEF AloneInv, ServedInTime, AloneIsServed
<1> QED
  BY <1>1, <1>2, <1>3, TypeOKAlways, TokensHaveCleanupAlways, PTL DEF Spec
=============================================================================
