------------------------------- MODULE TestCA -------------------------------
(***************************************************************************)
(* The ACME server against which the tests of autocert run (CAServer of    *)
(* internal/acmetest): authorizations, one for each domain and kept for    *)
(* ever, orders that refer to them, the goroutines that validate           *)
(* challenges, and the certificates that are issued.  Every handler works  *)
(* under ca.mu in one step; a validation dials the client without it.      *)
(***************************************************************************)
EXTENDS Naturals, Sequences

CONSTANTS
  Domain,
  Whitelist,      \* domainsWhitelist, empty for any domain
  Validation,     \* goroutines that run validateChallenge
  None,           \* nil, and the empty name
  MaxOrders, MaxCerts   \* bounds on orders, and on serial numbers

Leaf == [serial : Nat, names : SUBSET (Domain \union {None})]

ASSUME TestCAConstants ==
  /\ Whitelist \subseteq Domain /\ None \notin Domain \union Leaf
  /\ MaxOrders \in Nat /\ MaxCerts \in Nat

VARIABLES
  authorizations, \* the status of each domain's authorization, "none" before it is made
  orders, certCount,
  domainAddr,     \* domains of which Resolve has given an address
  validation,     \* the goroutines
  proved,         \* history: domains that have answered a validation
  refused,        \* history: domains of which a validation has failed
  judged          \* history: how many orders there were when the last one ended

vars == <<authorizations, orders, certCount, domainAddr, validation, proved, refused,
          judged>>

Order == [status : {"pending", "ready", "valid", "invalid"}, names : SUBSET Domain,
          leaf : Leaf \union {None}]
Idle == [at |-> "idle", domain |-> None, ok |-> FALSE]

TypeOK ==
  /\ authorizations \in [Domain -> {"none", "pending", "valid", "invalid"}]
  /\ orders \in Seq(Order) /\ certCount \in Nat
  /\ domainAddr \subseteq Domain /\ proved \subseteq Domain /\ refused \subseteq Domain
  /\ validation \in [Validation -> [at : {"idle", "addr", "dial", "update"},
                                    domain : Domain \union {None}, ok : BOOLEAN]]
  /\ judged \in 0 .. Len(orders)
  /\ \A i \in DOMAIN orders : orders[i].status = "valid" <=> orders[i].leaf # None
  /\ \A i \in DOMAIN orders : \A d \in orders[i].names : authorizations[d] # "none"
  /\ \A v \in Validation : validation[v].at # "idle" =>
       /\ validation[v].domain \in Domain
       /\ authorizations[validation[v].domain] # "none"

Init ==
  /\ authorizations = [d \in Domain |-> "none"]
  /\ orders = <<>> /\ certCount = 0 /\ domainAddr = {}
  /\ validation = [v \in Validation |-> Idle]
  /\ proved = {} /\ refused = {} /\ judged = 0

---------------------------------------------------------------------------
(* Requests of clients, and of the test.                                   *)

\* authz: an authorization is made once; whatever has become of it is used again.
Authz(names) ==
  authorizations' = [d \in Domain |->
    IF d \in names /\ authorizations[d] = "none" THEN "pending" ELSE authorizations[d]]

\* An order is pending, even if its authorizations are valid or invalid already.
NewOrder ==
  /\ Len(orders) < MaxOrders
  /\ \E names \in SUBSET Domain :
       /\ Authz(names)
       /\ orders' = Append(orders, [status |-> "pending", names |-> names, leaf |-> None])
  /\ UNCHANGED <<certCount, domainAddr, validation, proved, refused, judged>>

NewAuthz(d) ==
  /\ Authz({d})
  /\ UNCHANGED <<orders, certCount, domainAddr, validation, proved, refused, judged>>

Resolve(d) ==
  /\ domainAddr' = domainAddr \union {d}
  /\ UNCHANGED <<authorizations, orders, certCount, validation, proved, refused, judged>>

\* Whatever the state of the authorization, its challenge may be accepted again.
Accept(v, d) ==
  /\ validation[v].at = "idle" /\ authorizations[d] # "none"
  /\ validation' = [validation EXCEPT ![v] =
                     [at |-> "addr", domain |-> d, ok |-> FALSE]]
  /\ UNCHANGED <<authorizations, orders, certCount, domainAddr, proved, refused, judged>>

MatchWhitelist(names) == Whitelist = {} \/ names \subseteq Whitelist
Authorized(names) == \A d \in names : authorizations[d] = "valid"

\* Mutant: the order is ready, so its authorizations are not looked at.
NewCert_ReadyIsEnough(i) ==
  /\ orders[i].status = "ready" /\ certCount < MaxCerts
  /\ \E names \in SUBSET Domain :
       /\ MatchWhitelist(names)
       /\ orders' = [orders EXCEPT ![i].status = "valid", ![i].leaf =
                       [serial |-> certCount + 1, names |-> names]]
  /\ certCount' = certCount + 1
  /\ UNCHANGED <<authorizations, domainAddr, validation, proved, refused, judged>>

\* The names of a request and the next serial number; creating it may fail.  Nothing
\* compares the names with those of the order.
NewCert(i) ==
  /\ orders[i].status = "ready" /\ certCount < MaxCerts
  /\ \E dnsNames \in SUBSET Domain, commonName \in Domain \union {None} :
       /\ MatchWhitelist(dnsNames \union ({commonName} \ {None}))
       /\ Authorized(dnsNames \union ({commonName} \ {None}))
       /\ \/ orders' = [orders EXCEPT ![i].status = "valid", ![i].leaf =
               [serial |-> certCount + 1,
                names |-> IF dnsNames = {} THEN {commonName} ELSE dnsNames]]
          \/ UNCHANGED orders
  /\ certCount' = certCount + 1
  /\ UNCHANGED <<authorizations, domainAddr, validation, proved, refused, judged>>

---------------------------------------------------------------------------
(* validateChallenge.                                                      *)

\* verifyALPNChallenge looks the address up ...
Addr(v) ==
  /\ validation[v].at = "addr"
  /\ validation' = [validation EXCEPT
       ![v].at = IF validation[v].domain \in domainAddr THEN "dial" ELSE "update"]
  /\ UNCHANGED <<authorizations, orders, certCount, domainAddr, proved, refused, judged>>

\* ... and dials there, holding no lock.
Dial(v) ==
  /\ validation[v].at = "dial"
  /\ \E ok \in BOOLEAN :
       validation' = [validation EXCEPT ![v].at = "update", ![v].ok = ok]
  /\ UNCHANGED <<authorizations, orders, certCount, domainAddr, proved, refused, judged>>

\* Mutant: orders that are ready, valid or invalid are judged again.
Updated_Again(o, authz) ==
  IF \E d \in o.names : authz[d] = "invalid" THEN [o EXCEPT !.status = "invalid"]
  ELSE IF \A d \in o.names : authz[d] = "valid" THEN [o EXCEPT !.status = "ready"]
  ELSE o

\* Mutant: one valid authorization is enough.
Updated_OneIsEnough(o, authz) ==
  IF o.status # "pending" THEN o
  ELSE IF \E d \in o.names : authz[d] = "valid" THEN [o EXCEPT !.status = "ready"]
  ELSE IF \E d \in o.names : authz[d] = "invalid" THEN [o EXCEPT !.status = "invalid"]
  ELSE o

\* What an order becomes when the authorizations have changed: only pending ones.
Updated(o, authz) ==
  IF o.status # "pending" THEN o
  ELSE IF \E d \in o.names : authz[d] = "invalid" THEN [o EXCEPT !.status = "invalid"]
  ELSE IF \A d \in o.names : authz[d] = "valid" THEN [o EXCEPT !.status = "ready"]
  ELSE o

\* Mutant: the loop over the orders ends at the first pending one.
Update_First(v) ==
  LET d == validation[v].domain
      ok == validation[v].ok
      authz == [authorizations EXCEPT ![d] = IF ok THEN "valid" ELSE "invalid"]
      Waits(i) == orders[i].status = "pending"
  IN
  /\ validation[v].at = "update"
  /\ authorizations' = authz
  /\ orders' = [i \in DOMAIN orders |->
                 IF \E j \in 1 .. i - 1 : Waits(j) THEN orders[i]
                                                ELSE Updated(orders[i], authz)]
  /\ validation' = [validation EXCEPT ![v] = Idle]
  /\ proved' = IF ok THEN proved \union {d} ELSE proved
  /\ refused' = IF ok THEN refused ELSE refused \union {d}
  /\ judged' = Len(orders)
  /\ UNCHANGED <<certCount, domainAddr>>

\* The result replaces an earlier one, and all orders are gone through.
Update(v) ==
  LET d == validation[v].domain
      ok == validation[v].ok
      authz == [authorizations EXCEPT ![d] = IF ok THEN "valid" ELSE "invalid"]
  IN
  /\ validation[v].at = "update"
  /\ authorizations' = authz
  /\ orders' = [i \in DOMAIN orders |-> Updated(orders[i], authz)]
  /\ validation' = [validation EXCEPT ![v] = Idle]
  /\ proved' = IF ok THEN proved \union {d} ELSE proved
  /\ refused' = IF ok THEN refused ELSE refused \union {d}
  /\ judged' = Len(orders)
  /\ UNCHANGED <<certCount, domainAddr>>

Next ==
  \/ NewOrder
  \/ \E d \in Domain : NewAuthz(d) \/ Resolve(d)
  \/ \E v \in Validation, d \in Domain : Accept(v, d)
  \/ \E i \in DOMAIN orders : NewCert(i)
  \/ \E v \in Validation : Addr(v) \/ Dial(v) \/ Update(v)

Spec == Init /\ [][Next]_vars

---------------------------------------------------------------------------
(* What the server promises the tests.                                     *)

\* An order goes from pending to ready to valid or from pending to invalid, although
\* every validation that ends goes through all of them and may be the second one of
\* its domain, with another result; the certificate it has got stays.
OrdersGoForward ==
  [][\A i \in DOMAIN orders :
       \/ orders'[i] = orders[i]
       \/ /\ <<orders[i].status, orders'[i].status>> \in
               {<<"pending", "ready">>, <<"ready", "valid">>, <<"pending", "invalid">>}
          /\ orders'[i].names = orders[i].names]_vars

\* What an order has become has its reason: all its domains have answered a
\* validation, or one of them has failed one.
JudgedByValidation ==
  \A i \in DOMAIN orders :
    /\ orders[i].status \in {"ready", "valid"} => orders[i].names \subseteq proved
    /\ orders[i].status = "invalid" => orders[i].names \intersect refused # {}

\* Certificates differ in their serial numbers, and name only domains that have
\* answered a validation and are on the whitelist, whatever the order was for.
CertificatesGood ==
  \A i \in DOMAIN orders : orders[i].leaf # None =>
    /\ orders[i].leaf.names \ {None} \subseteq proved
    /\ MatchWhitelist(orders[i].leaf.names \ {None})
    /\ \A j \in DOMAIN orders \ {i} : orders[j].leaf # None =>
         orders[j].leaf.serial # orders[i].leaf.serial

\* No order waits for nothing: one that was there when the last validation ended and
\* is still pending has an authorization that is still to be validated, and none that
\* is invalid.  An order that was made later may wait although all are valid.
PendingIsOpen ==
  \A i \in 1 .. judged : orders[i].status = "pending" =>
    /\ \E d \in orders[i].names : authorizations[d] = "pending"
    /\ \A d \in orders[i].names : authorizations[d] # "invalid"
=============================================================================
