---------------------------- MODULE TestCAProofs ----------------------------
(***************************************************************************)
(* Theorems about TestCA, for any number of domains, orders, validations   *)
(* and certificates.                                                       *)
(***************************************************************************)
EXTENDS TestCA, TLAPS

USE TestCAConstants

\* Orders are orders, and their names are domains.
LEMMA OrdersType ==
  ASSUME TypeOK
  PROVE  /\ Len(orders) \in Nat /\ DOMAIN orders = 1 .. Len(orders)
         /\ judged \in Nat /\ judged <= Len(orders) /\ 1 .. judged \subseteq DOMAIN orders
         /\ \A i \in DOMAIN orders : orders[i] \in Order
         /\ \A i \in DOMAIN orders : orders[i].names \subseteq Domain
<1>1. \A i \in DOMAIN orders : orders[i] \in Order
  BY DEF TypeOK
<1>2. \A o \in Order : o.names \subseteq Domain
  BY DEF Order
<1>3. /\ Len(orders) \in Nat /\ DOMAIN orders = 1 .. Len(orders)
      /\ judged \in 0 .. Len(orders)
  BY DEF TypeOK
<1> QED
  BY <1>1, <1>2, <1>3

\* An authorization is never taken away by Authz, and those that were made stay as
\* they are.
LEMMA AuthzKeeps ==
  ASSUME TypeOK, NEW names \in SUBSET Domain, Authz(names)
  PROVE  /\ authorizations' \in [Domain -> {"none", "pending", "valid", "invalid"}]
         /\ \A d \in Domain : authorizations[d] # "none"
                                => authorizations'[d] = authorizations[d]
         /\ \A d \in names : authorizations'[d] # "none"
         /\ \A d \in Domain : authorizations'[d] \in {"valid", "invalid"}
                                => authorizations'[d] = authorizations[d]
BY DEF TypeOK, Authz

\* What an order becomes when its authorizations have changed.
LEMMA UpdatedOrder ==
  ASSUME NEW o \in Order, NEW authz \in [Domain -> {"none", "pending", "valid", "invalid"}]
  PROVE  /\ Updated(o, authz) \in Order
         /\ Updated(o, authz).names = o.names /\ Updated(o, authz).leaf = o.leaf
         /\ o.status # "pending" => Updated(o, authz) = o
         /\ o.status = "pending" =>
              LET s == Updated(o, authz).status IN
              /\ s \in {"pending", "ready", "invalid"}
              /\ s = "pending" => Updated(o, authz) = o
              /\ s = "ready" => \A d \in o.names : authz[d] = "valid"
              /\ s = "invalid" <=> \E d \in o.names : authz[d] = "invalid"
              /\ s = "pending" => \E d \in o.names : authz[d] # "valid"
BY DEF Updated, Order

\* All orders are gone through at the end of a validation.
LEMMA UpdateOrders ==
  ASSUME TypeOK, NEW v \in Validation, Update(v)
  PROVE  /\ authorizations' \in [Domain -> {"none", "pending", "valid", "invalid"}]
         /\ \A d \in Domain : authorizations[d] # "none" => authorizations'[d] # "none"
         /\ orders' \in Seq(Order) /\ DOMAIN orders' = DOMAIN orders
         /\ Len(orders') = Len(orders)
         /\ \A i \in DOMAIN orders : orders'[i] = Updated(orders[i], authorizations')
<1> DEFINE d == validation[v].domain
           status == IF validation[v].ok THEN "valid" ELSE "invalid"
<1>1. d \in Domain /\ status \in {"valid", "invalid"}
  BY DEF TypeOK, Update
<1>2. authorizations' = [authorizations EXCEPT ![d] = status]
  BY DEF Update
<1> HIDE DEF d, status
<1>3. /\ authorizations' \in [Domain -> {"none", "pending", "valid", "invalid"}]
      /\ \A e \in Domain : authorizations[e] # "none" => authorizations'[e] # "none"
  BY <1>1, <1>2 DEF TypeOK
<1>4. orders' = [i \in DOMAIN orders |-> Updated(orders[i], authorizations')]
  BY DEF Update
<1>5. \A i \in DOMAIN orders : Updated(orders[i], authorizations') \in Order
  BY <1>3, UpdatedOrder DEF TypeOK
<1>6. Len(orders) \in Nat /\ DOMAIN orders = 1 .. Len(orders)
  BY DEF TypeOK
<1>7. orders' \in Seq(Order) /\ DOMAIN orders' = DOMAIN orders /\ Len(orders') = Len(orders)
  BY <1>4, <1>5, <1>6
<1> QED
  BY <1>3, <1>4, <1>7

\* The order for which a certificate is issued, and the others.
LEMMA NewCertOrders ==
  ASSUME TypeOK, NEW i \in DOMAIN orders, NewCert(i)
  PROVE  /\ orders[i].status = "ready" /\ certCount' = certCount + 1
         /\ orders' \in Seq(Order) /\ DOMAIN orders' = DOMAIN orders
         /\ Len(orders') = Len(orders)
         /\ \A j \in DOMAIN orders \ {i} : orders'[j] = orders[j]
         /\ orders'[i].names = orders[i].names
         /\ \/ orders'[i] = orders[i]
            \/ /\ orders'[i].status = "valid" /\ orders'[i].leaf # None
               /\ orders'[i].leaf.serial = certCount + 1
               /\ Authorized(orders'[i].leaf.names \ {None})
               /\ MatchWhitelist(orders'[i].leaf.names \ {None})
<1>1. PICK dnsNames \in SUBSET Domain, commonName \in Domain \union {None} :
        /\ MatchWhitelist(dnsNames \union ({commonName} \ {None}))
        /\ Authorized(dnsNames \union ({commonName} \ {None}))
        /\ \/ orders' = [orders EXCEPT ![i].status = "valid", ![i].leaf =
                [serial |-> certCount + 1,
                 names |-> IF dnsNames = {} THEN {commonName} ELSE dnsNames]]
           \/ UNCHANGED orders
  BY DEF NewCert
<1>2. /\ orders[i].status = "ready" /\ certCount' = certCount + 1
      /\ orders \in Seq(Order) /\ orders[i] \in Order /\ certCount \in Nat
  BY DEF NewCert, TypeOK
<1>3. CASE UNCHANGED orders
  BY <1>2, <1>3
<1>4. CASE ~UNCHANGED orders
  <2> DEFINE names == IF dnsNames = {} THEN {commonName} ELSE dnsNames
             leaf == [serial |-> certCount + 1, names |-> names]
             new == [orders[i] EXCEPT !.status = "valid", !.leaf = leaf]
  <2>1. /\ leaf \in Leaf /\ leaf.serial = certCount + 1
        /\ Authorized(leaf.names \ {None}) /\ MatchWhitelist(leaf.names \ {None})
    BY <1>1, <1>2 DEF Leaf, Authorized, MatchWhitelist
  <2>2. orders' = [orders EXCEPT ![i] = new]
    BY <1>1, <1>4
  <2> HIDE DEF leaf
  <2>3. new \in Order /\ new.status = "valid" /\ new.leaf = leaf /\ new.names = orders[i].names
    BY <1>2, <2>1 DEF Order
  <2> HIDE DEF new
  <2>4. /\ orders' \in Seq(Order) /\ DOMAIN orders' = DOMAIN orders
        /\ Len(orders') = Len(orders) /\ orders'[i] = new
        /\ \A j \in DOMAIN orders \ {i} : orders'[j] = orders[j]
    BY <1>2, <2>2, <2>3
  <2>5. leaf # None
    BY <2>1
  <2> QED
    BY <1>2, <2>1, <2>3, <2>4, <2>5
<1> QED
  BY <1>3, <1>4

\* What TypeOK says of the authorizations that orders and validations refer to.
AuthzMade ==
  /\ \A i \in DOMAIN orders : \A d \in orders[i].names : authorizations[d] # "none"
  /\ \A v \in Validation : validation[v].at # "idle" =>
       /\ validation[v].domain \in Domain
       /\ authorizations[validation[v].domain] # "none"

\* An authorization that was made is not unmade.
LEMMA AuthzStays ==
  ASSUME TypeOK, orders \in Seq(Order), \A i \in DOMAIN orders' :
           i \in DOMAIN orders /\ orders'[i].names = orders[i].names,
         \A d \in Domain : authorizations[d] # "none" => authorizations'[d] # "none",
         \A v \in Validation : validation'[v].at # "idle" =>
           validation[v].at # "idle" /\ validation'[v].domain = validation[v].domain
  PROVE  AuthzMade'
BY OrdersType DEF AuthzMade, TypeOK

\* Every step keeps the types.
LEMMA TypeStep ==
  ASSUME TypeOK, [Next]_vars
  PROVE  TypeOK'
<1>1. CASE NewOrder
  <2>1. PICK names \in SUBSET Domain :
          /\ Authz(names)
          /\ orders' = Append(orders,
               [status |-> "pending", names |-> names, leaf |-> None])
    BY <1>1 DEF NewOrder
  <2> DEFINE new == [status |-> "pending", names |-> names, leaf |-> None]
  <2>2. new \in Order /\ new.status = "pending" /\ new.names = names /\ new.leaf = None
    BY DEF Order
  <2>3. orders' = Append(orders, new)
    BY <2>1
  <2> HIDE DEF new
  <2>4. /\ orders' \in Seq(Order) /\ Len(orders') = Len(orders) + 1
        /\ DOMAIN orders' = 1 .. Len(orders) + 1 /\ Len(orders) \in Nat
        /\ DOMAIN orders = 1 .. Len(orders)
        /\ \A i \in DOMAIN orders : orders'[i] = orders[i]
        /\ orders'[Len(orders) + 1] = new
    BY <2>2, <2>3 DEF TypeOK
  <2>5. /\ authorizations' \in [Domain -> {"none", "pending", "valid", "invalid"}]
        /\ \A d \in Domain : authorizations[d] # "none"
                               => authorizations'[d] = authorizations[d]
        /\ \A d \in names : authorizations'[d] # "none"
    BY <2>1, AuthzKeeps
  <2>6. \A i \in DOMAIN orders' : orders'[i].status = "valid" <=> orders'[i].leaf # None
    BY <2>2, <2>4 DEF TypeOK
  <2>7. ASSUME NEW i \in DOMAIN orders', NEW d \in orders'[i].names
        PROVE  authorizations'[d] # "none"
    <3>1. CASE i = Len(orders) + 1
      BY <2>2, <2>4, <2>5, <3>1
    <3>2. CASE i # Len(orders) + 1
      <4>1. i \in DOMAIN orders /\ orders'[i] = orders[i]
        BY <2>4, <3>2
      <4>2. d \in Domain /\ authorizations[d] # "none"
        BY <4>1, OrdersType DEF TypeOK
      <4> QED
        BY <2>5, <4>2
    <3> QED
      BY <3>1, <3>2
  <2>8. judged' \in 0 .. Len(orders')
    BY <1>1, <2>4 DEF NewOrder, TypeOK
  <2> QED
    BY <1>1, <2>4, <2>5, <2>6, <2>7, <2>8 DEF NewOrder, TypeOK
<1>2. ASSUME NEW d \in Domain, NewAuthz(d) PROVE TypeOK'
  <2>1. /\ authorizations' \in [Domain -> {"none", "pending", "valid", "invalid"}]
        /\ \A e \in Domain : authorizations[e] # "none" => authorizations'[e] # "none"
    BY <1>2, AuthzKeeps DEF NewAuthz
  <2>2. AuthzMade'
    BY <1>2, <2>1, AuthzStays DEF NewAuthz, TypeOK
  <2> QED
    BY <1>2, <2>1, <2>2 DEF NewAuthz, TypeOK, AuthzMade
<1>3. ASSUME NEW d \in Domain, Resolve(d) PROVE TypeOK'
  BY <1>3 DEF Resolve, TypeOK
<1>4. ASSUME NEW v \in Validation, NEW d \in Domain, Accept(v, d) PROVE TypeOK'
  <2> DEFINE new == [at |-> "addr", domain |-> d, ok |-> FALSE]
  <2>1. /\ validation' = [validation EXCEPT ![v] = new] /\ authorizations[d] # "none"
        /\ UNCHANGED <<authorizations, orders, certCount, domainAddr, proved, refused, judged>>
    BY <1>4 DEF Accept
  <2>2. /\ new \in [at : {"idle", "addr", "dial", "update"}, domain : Domain \union {None},
                    ok : BOOLEAN]
        /\ new.domain = d
    OBVIOUS
  <2> HIDE DEF new
  <2> QED
    BY <2>1, <2>2 DEF TypeOK
<1>5. ASSUME NEW i \in DOMAIN orders, NewCert(i) PROVE TypeOK'
  <2>1. UNCHANGED <<authorizations, domainAddr, validation, proved, refused, judged>>
    BY <1>5 DEF NewCert
  <2>2. /\ orders' \in Seq(Order) /\ DOMAIN orders' = DOMAIN orders
        /\ Len(orders') = Len(orders) /\ certCount' \in Nat
    <3>1. certCount \in Nat
      BY DEF TypeOK
    <3>2. certCount' = certCount + 1
      BY <1>5, NewCertOrders
    <3>3. /\ orders' \in Seq(Order) /\ DOMAIN orders' = DOMAIN orders
          /\ Len(orders') = Len(orders)
      BY <1>5, NewCertOrders
    <3> QED
      BY <3>1, <3>2, <3>3
  <2>3. ASSUME NEW j \in DOMAIN orders'
        PROVE  /\ j \in DOMAIN orders /\ orders'[j].names = orders[j].names
               /\ orders'[j].status = "valid" <=> orders'[j].leaf # None
    <3>1. j \in DOMAIN orders /\ (orders[j].status = "valid" <=> orders[j].leaf # None)
      BY <2>2 DEF TypeOK
    <3>2. CASE j = i
      BY <1>5, <3>1, <3>2, NewCertOrders
    <3>3. CASE j # i
      BY <1>5, <3>1, <3>3, NewCertOrders
    <3> QED
      BY <3>2, <3>3
  <2>4. AuthzMade'
    <3>1. \A j \in DOMAIN orders' : j \in DOMAIN orders /\ orders'[j].names = orders[j].names
      BY <2>3
    <3>2. orders \in Seq(Order)
      BY DEF TypeOK
    <3> QED
      BY <2>1, <3>1, <3>2, AuthzStays
  <2> QED
    BY <2>1, <2>2, <2>3, <2>4 DEF TypeOK, AuthzMade
<1>6. ASSUME NEW v \in Validation, Addr(v) \/ Dial(v) PROVE TypeOK'
  <2>1. PICK at \in {"dial", "update"}, ok \in BOOLEAN :
          validation' = [validation EXCEPT ![v].at = at, ![v].ok = ok]
    BY <1>6 DEF Addr, Dial, TypeOK
  <2> DEFINE new == [validation[v] EXCEPT !.at = at, !.ok = ok]
  <2>2. /\ new \in [at : {"idle", "addr", "dial", "update"}, domain : Domain \union {None},
                    ok : BOOLEAN]
        /\ new.domain = validation[v].domain
    BY DEF TypeOK
  <2>3. /\ validation' = [validation EXCEPT ![v] = new] /\ validation[v].at # "idle"
        /\ UNCHANGED <<authorizations, orders, certCount, domainAddr, proved, refused, judged>>
    BY <1>6, <2>1 DEF Addr, Dial
  <2> HIDE DEF new
  <2> QED
    BY <2>2, <2>3 DEF TypeOK
<1>7. ASSUME NEW v \in Validation, Update(v) PROVE TypeOK'
  <2>1. ASSUME NEW i \in DOMAIN orders'
        PROVE  /\ i \in DOMAIN orders /\ orders'[i].names = orders[i].names
               /\ orders'[i].status = "valid" <=> orders'[i].leaf # None
    <3>1. i \in DOMAIN orders /\ orders'[i] = Updated(orders[i], authorizations')
      BY <1>7, UpdateOrders
    <3>2. orders[i] \in Order /\ (orders[i].status = "valid" <=> orders[i].leaf # None)
      BY <3>1 DEF TypeOK
    <3>3. authorizations' \in [Domain -> {"none", "pending", "valid", "invalid"}]
      BY <1>7, UpdateOrders
    <3> HIDE DEF Updated
    <3> QED
      BY <3>1, <3>2, <3>3, UpdatedOrder
  <2>2. /\ validation' = [validation EXCEPT ![v] = Idle] /\ validation[v].domain \in Domain
        /\ judged' = Len(orders) /\ UNCHANGED <<certCount, domainAddr>>
        /\ proved' \subseteq proved \union {validation[v].domain}
        /\ refused' \subseteq refused \union {validation[v].domain}
    BY <1>7 DEF Update, TypeOK
  <2>3. /\ validation' \in [Validation -> [at : {"idle", "addr", "dial", "update"},
                                           domain : Domain \union {None}, ok : BOOLEAN]]
        /\ \A w \in Validation : validation'[w].at # "idle" => validation'[w] = validation[w]
    BY <2>2 DEF Idle, TypeOK
  <2>4. AuthzMade'
    BY <1>7, <2>1, <2>3, UpdateOrders, AuthzStays DEF TypeOK
  <2>5. judged' \in 0 .. Len(orders')
    BY <1>7, <2>2, UpdateOrders DEF TypeOK
  <2> QED
    BY <1>7, <2>1, <2>2, <2>3, <2>4, <2>5, UpdateOrders DEF TypeOK, AuthzMade
<1>8. CASE UNCHANGED vars
  BY <1>8 DEF vars, TypeOK
<1> QED
  BY <1>1, <1>2, <1>3, <1>4, <1>5, <1>6, <1>7, <1>8 DEF Next

\* Every variable of TestCA keeps its type: an order has a certificate exactly when it
\* is valid, and the authorizations of orders and of running validations exist.
THEOREM TypeOKAlways == Spec => []TypeOK
<1>1. Init => TypeOK
  BY DEF Init, TypeOK, Idle
<1> QED
  BY <1>1, TypeStep, PTL DEF Spec

---------------------------------------------------------------------------
(* Orders.                                                                 *)

\* What a step makes of one order.
LEMMA OrderSteps ==
  ASSUME TypeOK, Next, NEW i \in DOMAIN orders
  PROVE  /\ i \in DOMAIN orders' /\ orders'[i].names = orders[i].names
         /\ \/ orders'[i] = orders[i]
            \/ orders[i].status = "pending" /\ orders'[i].status \in {"ready", "invalid"}
            \/ orders[i].status = "ready" /\ orders'[i].status = "valid"
<1>1. CASE NewOrder
  <2>1. PICK o : orders' = Append(orders, o) /\ o \in Order
    BY <1>1 DEF NewOrder, Order
  <2> QED
    BY <2>1 DEF TypeOK
<1>2. ASSUME NEW j \in DOMAIN orders, NewCert(j)
      PROVE  /\ i \in DOMAIN orders' /\ orders'[i].names = orders[i].names
             /\ \/ orders'[i] = orders[i]
                \/ orders[i].status = "ready" /\ orders'[i].status = "valid"
  BY <1>2, NewCertOrders
<1>3. ASSUME NEW v \in Validation, Update(v)
      PROVE  /\ i \in DOMAIN orders' /\ orders'[i].names = orders[i].names
             /\ \/ orders'[i] = orders[i]
                \/ /\ orders[i].status = "pending"
                   /\ orders'[i].status \in {"ready", "invalid"}
  <2>1. orders[i] \in Order
    BY DEF TypeOK
  <2> QED
    BY <1>3, <2>1, UpdateOrders, UpdatedOrder
<1>4. CASE UNCHANGED orders
  BY <1>4
<1>5. \/ NewOrder \/ UNCHANGED orders
      \/ \E j \in DOMAIN orders : NewCert(j)
      \/ \E v \in Validation : Update(v)
  BY DEF Next, NewAuthz, Resolve, Accept, Addr, Dial
<1> QED
  BY <1>1, <1>2, <1>3, <1>4, <1>5

\* Orders go forward only, however many validations end, and with whatever results.
THEOREM OrdersGoForwardAlways == Spec => OrdersGoForward
<1> DEFINE A == \A i \in DOMAIN orders :
       \/ orders'[i] = orders[i]
       \/ /\ <<orders[i].status, orders'[i].status>> \in
               {<<"pending", "ready">>, <<"ready", "valid">>, <<"pending", "invalid">>}
          /\ orders'[i].names = orders[i].names
<1>1. TypeOK /\ [Next]_vars => [A]_vars
  BY OrderSteps DEF vars
<1> QED
  BY <1>1, TypeOKAlways, PTL DEF Spec, OrdersGoForward

\* Why orders and certificates have a reason: authorizations have theirs, and are what
\* orders are judged by.
VerdictsOK ==
  \A d \in Domain : /\ authorizations[d] = "valid" => d \in proved
                    /\ authorizations[d] = "invalid" => d \in refused

\* Results are only ever added to what the verdicts rest on.
LEMMA VerdictsStep ==
  ASSUME TypeOK, VerdictsOK, [Next]_vars
  PROVE  VerdictsOK' /\ proved \subseteq proved' /\ refused \subseteq refused'
<1>1. ASSUME UNCHANGED <<proved, refused>>,
             \A d \in Domain : authorizations'[d] \in {"valid", "invalid"}
                                 => authorizations'[d] = authorizations[d]
      PROVE  VerdictsOK' /\ proved \subseteq proved' /\ refused \subseteq refused'
  BY <1>1 DEF VerdictsOK
<1>2. ASSUME NEW v \in Validation, Update(v)
      PROVE  VerdictsOK' /\ proved \subseteq proved' /\ refused \subseteq refused'
  BY <1>2 DEF Update, VerdictsOK, TypeOK
<1>3. NewOrder \/ (\E d \in Domain : NewAuthz(d))
        => VerdictsOK' /\ proved \subseteq proved' /\ refused \subseteq refused'
  BY <1>1, AuthzKeeps DEF NewOrder, NewAuthz
<1>4. \/ NewOrder \/ \E d \in Domain : NewAuthz(d)
      \/ \E v \in Validation : Update(v)
      \/ UNCHANGED <<authorizations, proved, refused>>
  BY DEF Next, Resolve, Accept, NewCert, Addr, Dial, vars
<1> QED
  BY <1>1, <1>2, <1>3, <1>4

\* The order stays, or becomes ready or invalid for its reason, or valid.
LEMMA JudgedStep ==
  ASSUME TypeOK, TypeOK', VerdictsOK, JudgedByValidation, [Next]_vars
  PROVE  JudgedByValidation'
<1>1. VerdictsOK' /\ proved \subseteq proved' /\ refused \subseteq refused'
  BY VerdictsStep
<1>2. ASSUME NEW i \in DOMAIN orders, i \in DOMAIN orders', orders'[i].names = orders[i].names,
             \/ orders'[i] = orders[i]
             \/ orders[i].status = "ready" /\ orders'[i].status = "valid"
      PROVE  /\ orders'[i].status \in {"ready", "valid"} => orders'[i].names \subseteq proved'
             /\ orders'[i].status = "invalid" => orders'[i].names \intersect refused' # {}
  BY <1>1, <1>2 DEF JudgedByValidation
<1>3. CASE NewOrder
  <2>1. PICK names \in SUBSET Domain :
          orders' = Append(orders, [status |-> "pending", names |-> names, leaf |-> None])
    BY <1>3 DEF NewOrder
  <2> DEFINE new == [status |-> "pending", names |-> names, leaf |-> None]
  <2>2. new.status = "pending" /\ new \in Order
    BY DEF Order
  <2>3. orders' = Append(orders, new)
    BY <2>1
  <2> HIDE DEF new
  <2>4. /\ DOMAIN orders' = 1 .. Len(orders) + 1 /\ orders'[Len(orders) + 1].status = "pending"
        /\ \A i \in DOMAIN orders : orders'[i] = orders[i]
        /\ DOMAIN orders = 1 .. Len(orders) /\ Len(orders) \in Nat
    BY <2>2, <2>3 DEF TypeOK
  <2>5. \A i \in DOMAIN orders' : i = Len(orders) + 1 \/ i \in DOMAIN orders
    BY <2>4
  <2> QED
    BY <1>2, <2>4, <2>5 DEF JudgedByValidation
<1>4. ASSUME NEW i \in DOMAIN orders, NewCert(i) PROVE JudgedByValidation'
  <2>1. DOMAIN orders' = DOMAIN orders
    BY <1>4, NewCertOrders
  <2>2. \A j \in DOMAIN orders :
          /\ orders'[j].names = orders[j].names
          /\ \/ orders'[j] = orders[j]
             \/ orders[j].status = "ready" /\ orders'[j].status = "valid"
    BY <1>4, NewCertOrders
  <2> QED
    BY <1>2, <2>1, <2>2 DEF JudgedByValidation
<1>5. ASSUME NEW v \in Validation, Update(v) PROVE JudgedByValidation'
  <2> SUFFICES ASSUME NEW i \in DOMAIN orders
               PROVE  /\ orders'[i].status \in {"ready", "valid"}
                           => orders'[i].names \subseteq proved'
                      /\ orders'[i].status = "invalid"
                           => orders'[i].names \intersect refused' # {}
    BY <1>5, UpdateOrders DEF JudgedByValidation
  <2> DEFINE o == orders[i]
  <2>1. /\ orders'[i] = Updated(o, authorizations') /\ o \in Order /\ i \in DOMAIN orders'
        /\ authorizations' \in [Domain -> {"none", "pending", "valid", "invalid"}]
        /\ o.names \subseteq Domain
    BY <1>5, UpdateOrders, OrdersType
  <2>2. orders'[i].names = o.names
    BY <2>1, UpdatedOrder
  <2>3. CASE o.status # "pending"
    <3>1. orders'[i] = o
      BY <2>1, <2>3, UpdatedOrder
    <3> QED
      BY <1>2, <2>1, <3>1
  <2>4. CASE o.status = "pending"
    <3>1. /\ orders'[i].status \in {"pending", "ready", "invalid"}
          /\ orders'[i].status = "ready" => \A d \in o.names : authorizations'[d] = "valid"
          /\ orders'[i].status = "invalid" => \E d \in o.names : authorizations'[d] = "invalid"
      BY <2>1, <2>4, UpdatedOrder
    <3> QED
      BY <1>1, <2>1, <2>2, <3>1 DEF VerdictsOK
  <2> QED
    BY <2>3, <2>4
<1>6. CASE UNCHANGED orders
  BY <1>2, <1>6 DEF JudgedByValidation
<1> QED
  BY <1>3, <1>4, <1>5, <1>6 DEF Next, NewAuthz, Resolve, Accept, Addr, Dial, vars

\* Orders become what they are for a reason, although an authorization that an order
\* was judged by may be given another verdict later.
THEOREM JudgedByValidationAlways == Spec => []JudgedByValidation
<1>1. Init => VerdictsOK /\ JudgedByValidation
  BY DEF Init, VerdictsOK, JudgedByValidation
<1>2. TypeOK /\ TypeOK' /\ VerdictsOK /\ JudgedByValidation /\ [Next]_vars
        => VerdictsOK' /\ JudgedByValidation'
  BY VerdictsStep, JudgedStep
<1> QED
  BY <1>1, <1>2, TypeOKAlways, PTL DEF Spec

---------------------------------------------------------------------------
(* Certificates, and orders that wait.                                     *)

\* What an issued certificate promises, of one order.
LeafOK(o) ==
  o.leaf # None =>
    /\ o.leaf.names \ {None} \subseteq proved /\ MatchWhitelist(o.leaf.names \ {None})
    /\ o.leaf.serial \in Nat /\ o.leaf.serial <= certCount

\* The same for all orders, with the serial numbers used so far.
LeavesOK ==
  /\ \A i \in DOMAIN orders : LeafOK(orders[i])
  /\ \A i, j \in DOMAIN orders :
       i # j /\ orders[i].leaf # None /\ orders[j].leaf # None
         => orders[i].leaf.serial # orders[j].leaf.serial

\* Issuing a certificate, and all else that leaves certificates as they are.
LEMMA LeavesStep ==
  ASSUME TypeOK, TypeOK', VerdictsOK, LeavesOK, [Next]_vars
  PROVE  LeavesOK'
<1>1. proved \subseteq proved' /\ certCount \in Nat
  BY VerdictsStep DEF TypeOK
<1>2. ASSUME certCount' = certCount,
             \A i \in DOMAIN orders' : \/ orders'[i].leaf = None
                                       \/ /\ i \in DOMAIN orders
                                          /\ orders'[i].leaf = orders[i].leaf
      PROVE  LeavesOK'
  <2>1. \A i \in DOMAIN orders' : LeafOK(orders[i])'
    BY <1>1, <1>2 DEF LeavesOK, LeafOK, MatchWhitelist
  <2> QED
    BY <1>2, <2>1 DEF LeavesOK
<1>3. CASE NewOrder
  <2>1. PICK names \in SUBSET Domain :
          orders' = Append(orders, [status |-> "pending", names |-> names, leaf |-> None])
    BY <1>3 DEF NewOrder
  <2> DEFINE new == [status |-> "pending", names |-> names, leaf |-> None]
  <2>2. new.leaf = None /\ new \in Order
    BY DEF Order
  <2>3. orders' = Append(orders, new)
    BY <2>1
  <2> HIDE DEF new
  <2>4. /\ DOMAIN orders' = 1 .. Len(orders) + 1 /\ orders'[Len(orders) + 1].leaf = None
        /\ \A i \in DOMAIN orders : orders'[i] = orders[i]
        /\ DOMAIN orders = 1 .. Len(orders) /\ Len(orders) \in Nat
    BY <2>2, <2>3 DEF TypeOK
  <2>5. \A i \in DOMAIN orders' : i = Len(orders) + 1 \/ i \in DOMAIN orders
    BY <2>4
  <2> QED
    BY <1>2, <1>3, <2>4, <2>5 DEF NewOrder
<1>4. ASSUME NEW i \in DOMAIN orders, NewCert(i) PROVE LeavesOK'
  <2>1. /\ DOMAIN orders' = DOMAIN orders /\ certCount' = certCount + 1
        /\ \A j \in DOMAIN orders \ {i} : orders'[j] = orders[j]
        /\ UNCHANGED <<authorizations, proved>>
    BY <1>4, NewCertOrders DEF NewCert
  <2>2. ASSUME NEW j \in DOMAIN orders, orders'[j] = orders[j] PROVE LeafOK(orders[j])'
    BY <1>1, <2>1, <2>2 DEF LeavesOK, LeafOK, MatchWhitelist
  <2>3. CASE orders'[i] = orders[i]
    <3>1. \A j \in DOMAIN orders : orders'[j] = orders[j]
      BY <2>1, <2>3
    <3> QED
      BY <2>1, <2>2, <3>1 DEF LeavesOK
  <2>4. CASE orders'[i] # orders[i]
    <3> DEFINE leaf == orders'[i].leaf
    <3>1. /\ leaf # None /\ leaf.serial = certCount + 1
          /\ Authorized(leaf.names \ {None}) /\ MatchWhitelist(leaf.names \ {None})
      BY <1>4, <2>4, NewCertOrders
    <3>2. leaf \in Leaf
      <4>1. orders' \in Seq(Order) /\ i \in DOMAIN orders'
        BY <2>1 DEF TypeOK
      <4>2. orders'[i] \in Order
        BY <4>1
      <4> QED
        BY <3>1, <4>2 DEF Order
    <3>3. leaf.names \ {None} \subseteq proved
      BY <3>1, <3>2 DEF Leaf, Authorized, VerdictsOK
    <3>4. LeafOK(orders[i])'
      BY <1>1, <2>1, <3>1, <3>3 DEF LeafOK, MatchWhitelist
    <3>5. \A j \in DOMAIN orders \ {i} : orders[j].leaf # None
                                           => orders[j].leaf.serial # leaf.serial
      <4>1. \A j \in DOMAIN orders : orders[j].leaf # None =>
              orders[j].leaf.serial \in Nat /\ orders[j].leaf.serial <= certCount
        BY DEF LeavesOK, LeafOK
      <4>2. \A n \in Nat : n <= certCount => n # certCount + 1
        BY <1>1
      <4> QED
        BY <3>1, <4>1, <4>2
    <3> HIDE DEF leaf
    <3>6. \A j \in DOMAIN orders : LeafOK(orders[j])'
      BY <2>1, <2>2, <3>4
    <3>7. ASSUME NEW j \in DOMAIN orders, NEW k \in DOMAIN orders, j # k,
                 orders'[j].leaf # None, orders'[k].leaf # None
          PROVE  orders'[j].leaf.serial # orders'[k].leaf.serial
      <4>1. CASE j = i
        BY <2>1, <3>5, <3>7, <4>1 DEF leaf
      <4>2. CASE k = i
        BY <2>1, <3>5, <3>7, <4>2 DEF leaf
      <4>3. CASE j # i /\ k # i
        BY <2>1, <3>7, <4>3 DEF LeavesOK
      <4> QED
        BY <4>1, <4>2, <4>3
    <3> QED
      BY <2>1, <3>6, <3>7 DEF LeavesOK
  <2> QED
    BY <2>3, <2>4
<1>5. ASSUME NEW v \in Validation, Update(v) PROVE LeavesOK'
  <2>1. DOMAIN orders' = DOMAIN orders /\ certCount' = certCount
    BY <1>5, UpdateOrders DEF Update
  <2>2. \A i \in DOMAIN orders : orders'[i].leaf = orders[i].leaf
    BY <1>5, UpdateOrders, UpdatedOrder, OrdersType
  <2> QED
    BY <1>2, <2>1, <2>2
<1>6. CASE UNCHANGED <<orders, certCount>>
  BY <1>2, <1>6
<1> QED
  BY <1>3, <1>4, <1>5, <1>6 DEF Next, NewAuthz, Resolve, Accept, Addr, Dial, vars

\* Certificates have serial numbers of their own, and names that were validated and are
\* allowed, although the names are not compared with those of the order.
THEOREM CertificatesGoodAlways == Spec => []CertificatesGood
<1>1. Init => VerdictsOK /\ LeavesOK
  BY DEF Init, VerdictsOK, LeavesOK
<1>2. TypeOK /\ TypeOK' /\ VerdictsOK /\ LeavesOK /\ [Next]_vars => VerdictsOK' /\ LeavesOK'
  BY VerdictsStep, LeavesStep
<1>3. LeavesOK => CertificatesGood
  BY DEF LeavesOK, LeafOK, CertificatesGood
<1> QED
  BY <1>1, <1>2, <1>3, TypeOKAlways, PTL DEF Spec

\* A pending order that was there when the last validation ended waits for another.
LEMMA PendingStep ==
  ASSUME TypeOK, TypeOK', PendingIsOpen, [Next]_vars
  PROVE  PendingIsOpen'
<1>1. ASSUME judged' = judged,
             \A i \in 1 .. judged : /\ orders'[i].names = orders[i].names
                                    /\ orders'[i].status = "pending"
                                         => orders[i].status = "pending",
             \A d \in Domain : authorizations[d] # "none"
                                 => authorizations'[d] = authorizations[d]
      PROVE  PendingIsOpen'
  <2> SUFFICES ASSUME NEW i \in 1 .. judged, orders'[i].status = "pending"
               PROVE  /\ \E d \in orders[i].names : authorizations'[d] = "pending"
                      /\ \A d \in orders[i].names : authorizations'[d] # "invalid"
    BY <1>1 DEF PendingIsOpen
  <2>1. /\ \E d \in orders[i].names : authorizations[d] = "pending"
        /\ \A d \in orders[i].names : authorizations[d] # "invalid"
    BY <1>1 DEF PendingIsOpen
  <2>2. \A d \in orders[i].names : d \in Domain /\ authorizations[d] # "none"
    BY OrdersType DEF TypeOK
  <2> QED
    BY <1>1, <2>1, <2>2
<1>2. CASE NewOrder
  <2>1. PICK names \in SUBSET Domain, o \in Order :
          Authz(names) /\ orders' = Append(orders, o) /\ judged' = judged
    BY <1>2 DEF NewOrder, Order
  <2>2. \A i \in DOMAIN orders : orders'[i] = orders[i]
    BY <2>1 DEF TypeOK
  <2> QED
    BY <1>1, <2>1, <2>2, AuthzKeeps, OrdersType
<1>3. ASSUME NEW d \in Domain, NewAuthz(d) PROVE PendingIsOpen'
  BY <1>1, <1>3, AuthzKeeps DEF NewAuthz
<1>4. ASSUME NEW i \in DOMAIN orders, NewCert(i) PROVE PendingIsOpen'
  <2>1. \A j \in DOMAIN orders : /\ orders'[j].names = orders[j].names
                                 /\ orders'[j].status = "pending"
                                      => orders[j].status = "pending"
    BY <1>4, NewCertOrders
  <2>2. authorizations' = authorizations /\ judged' = judged
    BY <1>4 DEF NewCert
  <2> QED
    BY <1>1, <2>1, <2>2, OrdersType
<1>5. ASSUME NEW v \in Validation, Update(v) PROVE PendingIsOpen'
  <2> SUFFICES ASSUME NEW i \in DOMAIN orders, orders'[i].status = "pending"
               PROVE  /\ \E d \in orders'[i].names : authorizations'[d] = "pending"
                      /\ \A d \in orders'[i].names : authorizations'[d] # "invalid"
    BY <1>5, OrdersType DEF PendingIsOpen, Update
  <2>1. /\ orders'[i] = Updated(orders[i], authorizations') /\ orders[i] \in Order
        /\ authorizations' \in [Domain -> {"none", "pending", "valid", "invalid"}]
        /\ i \in DOMAIN orders'
    BY <1>5, UpdateOrders, OrdersType
  <2>2. orders[i].status = "pending" /\ orders'[i].names = orders[i].names
    BY <2>1, UpdatedOrder
  <2>3. /\ \E d \in orders[i].names : authorizations'[d] # "valid"
        /\ \A d \in orders[i].names : authorizations'[d] # "invalid"
    BY <2>1, <2>2, UpdatedOrder
  <2>4. \A d \in orders'[i].names : d \in Domain /\ authorizations'[d] # "none"
    BY <2>1, <2>2, OrdersType DEF TypeOK
  <2> QED
    BY <2>1, <2>2, <2>3, <2>4
<1>6. CASE UNCHANGED <<authorizations, orders, judged>>
  BY <1>1, <1>6
<1> QED
  BY <1>2, <1>3, <1>4, <1>5, <1>6 DEF Next, Resolve, Accept, Addr, Dial, vars

\* No order waits for nothing, once a validation has ended since it was made.
THEOREM PendingIsOpenAlways == Spec => []PendingIsOpen
<1>1. Init => PendingIsOpen
  BY DEF Init, PendingIsOpen
<1>2. TypeOK /\ TypeOK' /\ PendingIsOpen /\ [Next]_vars => PendingIsOpen'
  BY PendingStep
<1> QED
  BY <1>1, <1>2, TypeOKAlways, PTL DEF Spec
=============================================================================
