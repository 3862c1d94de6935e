---------------------------- MODULE DynDNSProofs ----------------------------
(***************************************************************************)
(* Theorems about DynDNS, for any number of updates and queries.           *)
(***************************************************************************)
EXTENDS DynDNS, TLAPS

\* What RequestsOK says about one update, and about one query.
UpdateOK(u) ==
  /\ update[u] \in UpdateState
  /\ update[u].at # "idle" => update[u].ips # {}
  /\ update[u].at \in {"compare", "put"}
       => Len(update[u].replies) < Len(update[u].hosts)
  /\ update[u].at = "put" => Current(u) \in Host

QueryOK(q) ==
  /\ query[q] \in QueryState
  /\ query[q].at # "idle" => query[q].name \in Name
  /\ query[q].at # "reply" => query[q].answer = None

\* The name at hand is one of the request's.
LEMMA CurrentIsName ==
  ASSUME NEW u \in Update, UpdateOK(u), update[u].at \in {"compare", "put"}
  PROVE  /\ Len(update[u].replies) + 1 \in DOMAIN update[u].hosts
         /\ Current(u) \in Name
         /\ Current(u) \in ElementsOf(update[u].hosts)
BY DEF UpdateOK, UpdateState, Current, ElementsOf

\* NextHost keeps the type of the update.
LEMMA NextHostType ==
  ASSUME NEW u \in Update, update \in [Update -> UpdateState], UpdateOK(u),
         update[u].at \in {"compare", "put"},
         NEW reply \in {"notfqdn", "stored", "dnserr"}, NextHost(u, reply)
  PROVE  /\ update' \in [Update -> UpdateState]
         /\ \A v \in Update \ {u} : update'[v] = update[v]
         /\ UpdateOK(u)'
         /\ update'[u].hosts = update[u].hosts /\ update'[u].ips = update[u].ips
         /\ update'[u].at \in {"compare", "reply"}
         /\ update'[u].replies = Append(update[u].replies, reply)
         /\ update'[u].at = "reply" <=> Len(update'[u].replies) = Len(update[u].hosts)
<1> DEFINE r == update[u]
<1>1. /\ r.hosts \in Seq(Name) /\ r.ips \subseteq Address /\ r.ips # {}
      /\ r.replies \in Seq({"notfqdn", "stored", "dnserr"}) /\ r \in UpdateState
      /\ Len(r.replies) \in Nat /\ Len(r.hosts) \in Nat
      /\ Len(r.replies) < Len(r.hosts)
  BY DEF UpdateOK, UpdateState
<1>2. /\ Append(r.replies, reply) \in Seq({"notfqdn", "stored", "dnserr"})
      /\ Len(Append(r.replies, reply)) = Len(r.replies) + 1
  BY <1>1
<1> DEFINE place == IF Len(r.replies) + 1 < Len(r.hosts) THEN "compare" ELSE "reply"
           new == [r EXCEPT !.replies = Append(r.replies, reply), !.told = "good",
                            !.at = place]
<1>3. update' = [update EXCEPT ![u] = new]
  BY DEF NextHost
<1>4. /\ new \in UpdateState /\ new.hosts = r.hosts /\ new.ips = r.ips /\ new.at = place
      /\ new.replies = Append(r.replies, reply)
  BY <1>1, <1>2 DEF UpdateState
<1>5. update'[u] = new /\ \A v \in Update \ {u} : update'[v] = update[v]
  BY <1>3
<1>6. update' \in [Update -> UpdateState]
  BY <1>3, <1>4
<1>7. /\ place \in {"compare", "reply"}
      /\ place = "compare" => Len(r.replies) + 1 < Len(r.hosts)
      /\ place = "reply" => Len(r.replies) + 1 = Len(r.hosts)
  BY <1>1
<1> HIDE DEF place, new
<1> QED
  BY <1>1, <1>2, <1>4, <1>5, <1>6, <1>7 DEF UpdateOK

USE DynDNSConstants

\* One update changes, and nothing else about the requests but their contexts.
LEMMA UpdateChanges ==
  ASSUME RequestsOK, NEW u \in Update, update' \in [Update -> UpdateState],
         \A v \in Update \ {u} : update'[v] = update[v], UpdateOK(u)',
         live' \subseteq Update, query' = query
  PROVE  RequestsOK'
<1>1. ASSUME NEW v \in Update PROVE UpdateOK(v)'
  BY <1>1 DEF RequestsOK, UpdateOK, Current
<1> QED
  BY <1>1 DEF RequestsOK, UpdateOK

\* One query changes.
LEMMA QueryChanges ==
  ASSUME RequestsOK, NEW q \in Query, NEW new \in QueryState,
         query' = [query EXCEPT ![q] = new],
         new.at # "idle" => new.name \in Name, new.at # "reply" => new.answer = None,
         UNCHANGED <<update, live>>
  PROVE  RequestsOK'
<1>1. query' \in [Query -> QueryState] /\ \A p \in Query \ {q} : query'[p] = query[p]
  BY DEF RequestsOK
<1>2. query'[q] = new
  BY DEF RequestsOK
<1> QED
  BY <1>1, <1>2 DEF RequestsOK, Current

\* What is observed of names is content.
LEMMA ObserveType ==
  ASSUME TypeOK, StoreOK', Observe, query' = query
  PROVE  seen' \in [Query -> SUBSET Content]
<1>1. ASSUME NEW q \in Query, query[q].at # "idle"
      PROVE  [addresses |-> addresses'[query[q].name],
              text |-> text'[query[q].name]] \in Content
  BY <1>1 DEF TypeOK, RequestsOK, StoreOK, Content
<1> QED
  BY <1>1 DEF TypeOK, Observe

\* Addresses are written for a host.
LEMMA WriteStore ==
  ASSUME StoreOK, NEW h \in Host, NEW s \in SUBSET Address,
         addresses' = [addresses EXCEPT ![h] = s], text' = text, late' \subseteq late
  PROVE  StoreOK'
BY DEF StoreOK, Name

\* The steps of updates keep the types.
LEMMA UpdateTypes ==
  ASSUME TypeOK, NEW u \in Update, Receive(u) \/ UpdateStep(u) \/ EndContext(u)
  PROVE  TypeOK'
<1>1. UpdateOK(u)
  BY DEF TypeOK, RequestsOK, UpdateOK
<1>2. ASSUME Receive(u) PROVE TypeOK'
  <2>1. PICK list \in HostList, addrs \in AddressList :
          /\ list # <<>> /\ addrs # {}
          /\ update' = [update EXCEPT ![u] =
               [at |-> "compare", hosts |-> list, ips |-> addrs, told |-> "good",
                replies |-> <<>>]]
          /\ shared' = (shared \ (ElementsOf(list) \intersect Host)) \union
                {h \in ElementsOf(list) \intersect Host : Contended(h)}
          /\ settled' = [h \in Host |->
                IF h \in ElementsOf(list) \intersect Host THEN {} ELSE settled[h]]
    BY <1>2 DEF Receive
  <2> DEFINE new == [at |-> "compare", hosts |-> list, ips |-> addrs, told |-> "good",
                     replies |-> <<>>]
  <2>2. /\ new \in UpdateState /\ new.ips # {} /\ new.at = "compare"
        /\ Len(new.replies) < Len(new.hosts)
    BY <2>1 DEF UpdateState
  <2>3. update' = [update EXCEPT ![u] = new]
    BY <2>1
  <2> HIDE DEF new
  <2>4. /\ update' \in [Update -> UpdateState] /\ update'[u] = new
        /\ \A v \in Update \ {u} : update'[v] = update[v]
    BY <2>2, <2>3 DEF TypeOK, RequestsOK
  <2>5. UpdateOK(u)'
    BY <2>2, <2>4 DEF UpdateOK
  <2>6. RequestsOK'
    BY <1>2, <2>4, <2>5, UpdateChanges DEF TypeOK, RequestsOK, Receive
  <2>7. StoreOK' /\ shared' \subseteq Host /\ settled' \in [Host -> SUBSET Address]
    BY <1>2, <2>1 DEF TypeOK, StoreOK, Receive
  <2> QED
    BY <1>2, <2>6, <2>7 DEF TypeOK, Receive
<1>3. ASSUME Reject(u) PROVE TypeOK'
  <2>1. RequestsOK'
    BY <1>1, <1>3, NextHostType, UpdateChanges DEF TypeOK, RequestsOK, Reject
  <2> QED
    BY <1>3, <2>1 DEF TypeOK, StoreOK, Reject, history
<1>4. ASSUME Compare(u) PROVE TypeOK'
  <2>1. PICK reply \in {"nochg", "good"} :
          update' = [update EXCEPT ![u].at = "put", ![u].told = reply]
    BY <1>4 DEF Compare
  <2> DEFINE new == [update[u] EXCEPT !.at = "put", !.told = reply]
  <2>2. /\ new \in UpdateState /\ new.ips = update[u].ips /\ new.at = "put"
        /\ new.replies = update[u].replies /\ new.hosts = update[u].hosts
    BY <1>1 DEF UpdateOK, UpdateState
  <2>3. /\ update' \in [Update -> UpdateState] /\ update'[u] = new
        /\ \A v \in Update \ {u} : update'[v] = update[v]
    BY <2>1, <2>2 DEF TypeOK, RequestsOK
  <2> HIDE DEF new
  <2>4. UpdateOK(u)'
    BY <1>1, <1>4, <2>2, <2>3 DEF UpdateOK, Compare, Current
  <2>5. RequestsOK'
    BY <1>4, <2>3, <2>4, UpdateChanges DEF TypeOK, RequestsOK, Compare
  <2> QED
    BY <1>4, <2>5 DEF TypeOK, StoreOK, Compare, history
<1>5. ASSUME Stored(u) PROVE TypeOK'
  <2>1. RequestsOK'
    BY <1>1, <1>5, NextHostType, UpdateChanges DEF TypeOK, RequestsOK, Stored
  <2>2. Current(u) \in Host /\ update[u].ips \in SUBSET Address
    BY <1>1, <1>5 DEF UpdateOK, UpdateState, Stored
  <2>3. StoreOK'
    BY <1>5, <2>2, WriteStore DEF TypeOK, StoreOK, Stored
  <2>4. settled' \in [Host -> SUBSET Address]
    BY <1>5, <2>2 DEF TypeOK, Stored
  <2> QED
    BY <1>5, <2>1, <2>3, <2>4, ObserveType DEF TypeOK, Stored
<1>6. ASSUME NotStored(u) PROVE TypeOK'
  <2>1. RequestsOK'
    BY <1>1, <1>6, NextHostType, UpdateChanges DEF TypeOK, RequestsOK, NotStored
  <2> QED
    BY <1>6, <2>1 DEF TypeOK, StoreOK, NotStored, history
<1>7. ASSUME Outlived(u) PROVE TypeOK'
  <2>1. RequestsOK'
    BY <1>1, <1>7, NextHostType, UpdateChanges DEF TypeOK, RequestsOK, Outlived
  <2>2. [host |-> Current(u), ips |-> update[u].ips] \in Write
    BY <1>1, <1>7 DEF UpdateOK, UpdateState, Outlived, Write
  <2> QED
    BY <1>7, <2>1, <2>2 DEF TypeOK, StoreOK, Outlived, history
<1>8. ASSUME Return(u) PROVE TypeOK'
  <2>1. NoUpdate \in UpdateState /\ NoUpdate.at = "idle"
    BY DEF NoUpdate, UpdateState
  <2>2. /\ update' \in [Update -> UpdateState] /\ update'[u] = NoUpdate
        /\ \A v \in Update \ {u} : update'[v] = update[v]
    BY <1>8, <2>1 DEF TypeOK, RequestsOK, Return
  <2>3. UpdateOK(u)'
    BY <2>1, <2>2 DEF UpdateOK
  <2>4. RequestsOK'
    BY <1>8, <2>2, <2>3, UpdateChanges DEF TypeOK, RequestsOK, Return
  <2> QED
    BY <1>8, <2>4 DEF TypeOK, StoreOK, Return, history
<1>9. ASSUME EndContext(u) PROVE TypeOK'
  BY <1>9 DEF TypeOK, StoreOK, RequestsOK, EndContext, Current, history
<1> QED
  BY <1>2, <1>3, <1>4, <1>5, <1>6, <1>7, <1>8, <1>9 DEF UpdateStep

\* The steps of queries keep the types.
LEMMA QueryTypes ==
  ASSUME TypeOK, NEW q \in Query, Ask(q) \/ QueryStep(q)
  PROVE  TypeOK'
<1>1. QueryOK(q)
  BY DEF TypeOK, RequestsOK, QueryOK
<1>2. CASE Ask(q)
  <2>1. PICK n \in Name, t \in {"A", "AAAA", "TXT", "other"} :
          /\ query' = [query EXCEPT ![q] =
               [at |-> "text", name |-> n, type |-> t, exists |-> addresses[n] # {},
                answer |-> None]]
          /\ seen' = [seen EXCEPT ![q] = {[addresses |-> addresses[n], text |-> text[n]]}]
    BY <1>2 DEF Ask
  <2> DEFINE new == [at |-> "text", name |-> n, type |-> t, exists |-> addresses[n] # {},
                     answer |-> None]
  <2>2. new \in QueryState /\ new.name \in Name /\ new.answer = None
    BY DEF QueryState
  <2>3. query' = [query EXCEPT ![q] = new]
    BY <2>1
  <2> HIDE DEF new
  <2>4. RequestsOK'
    BY <1>2, <2>2, <2>3, QueryChanges DEF TypeOK, Ask
  <2>5. [addresses |-> addresses[n], text |-> text[n]] \in Content
    BY DEF TypeOK, StoreOK, Content
  <2>6. seen' \in [Query -> SUBSET Content]
    BY <2>1, <2>5 DEF TypeOK
  <2> QED
    BY <1>2, <2>4, <2>6 DEF TypeOK, StoreOK, Ask
<1>3. CASE LookForText(q)
  <2> DEFINE new == [query[q] EXCEPT !.at = "fetch",
                       !.exists = query[q].exists \/ text[query[q].name] # None]
  <2>1. new \in QueryState /\ new.name \in Name /\ new.answer = None
    BY <1>1, <1>3 DEF QueryOK, QueryState, LookForText
  <2>2. query' = [query EXCEPT ![q] = new]
    BY <1>1, <1>3 DEF QueryOK, QueryState, LookForText
  <2> HIDE DEF new
  <2> QED
    BY <1>3, <2>1, <2>2, QueryChanges DEF TypeOK, StoreOK, LookForText, history
<1>4. CASE Fetch(q)
  <2>1. PICK found : /\ found = RecordsOf(query[q].type,
                          [addresses |-> addresses[query[q].name],
                           text |-> text[query[q].name]])
                     /\ query' = [query EXCEPT ![q].at = "reply", ![q].answer =
                          [nxdomain |-> found = {} /\ ~query[q].exists, records |-> found]]
    BY <1>4 DEF Fetch
  <2>2. query[q].name \in Name /\ query[q].type \in {"A", "AAAA", "TXT", "other"}
    BY <1>1, <1>4 DEF QueryOK, QueryState, Fetch
  <2>3. found \in SUBSET (Address \union Token)
    BY <2>1, <2>2 DEF TypeOK, StoreOK, RecordsOf
  <2> DEFINE a == [nxdomain |-> found = {} /\ ~query[q].exists, records |-> found]
             new == [query[q] EXCEPT !.at = "reply", !.answer = a]
  <2>4. a \in Answer
    BY <2>3 DEF Answer
  <2>5. query' = [query EXCEPT ![q] = new]
    BY <2>1
  <2> HIDE DEF a
  <2>6. new \in QueryState /\ new.name \in Name /\ new.at = "reply"
    BY <1>1, <2>2, <2>4 DEF QueryOK, QueryState
  <2> HIDE DEF new
  <2> QED
    BY <1>4, <2>5, <2>6, QueryChanges DEF TypeOK, StoreOK, Fetch, history
<1>5. CASE GiveUp(q)
  <2> DEFINE new == [query[q] EXCEPT !.at = "reply"]
  <2>1. new \in QueryState /\ new.name \in Name /\ new.at = "reply"
    BY <1>1, <1>5 DEF QueryOK, QueryState, GiveUp
  <2>2. query' = [query EXCEPT ![q] = new]
    BY <1>5 DEF GiveUp
  <2> HIDE DEF new
  <2> QED
    BY <1>5, <2>1, <2>2, QueryChanges DEF TypeOK, StoreOK, GiveUp, history
<1>6. CASE Reply(q)
  <2>1. NoQuery \in QueryState /\ NoQuery.at = "idle" /\ NoQuery.answer = None
    BY DEF NoQuery, QueryState
  <2>2. RequestsOK'
    BY <1>6, <2>1, QueryChanges DEF TypeOK, Reply
  <2> QED
    BY <1>6, <2>2 DEF TypeOK, StoreOK, Reply
<1> QED
  BY <1>2, <1>3, <1>4, <1>5, <1>6 DEF QueryStep

\* Every step keeps the types.
LEMMA TypeStep ==
  ASSUME TypeOK, [Next]_vars
  PROVE  TypeOK'
<1>1. ASSUME NEW w \in late, LateWrite(w) PROVE TypeOK'
  <2>1. w.host \in Host /\ w.ips \in SUBSET Address
    BY <1>1 DEF TypeOK, StoreOK, Write
  <2>2. StoreOK'
    BY <1>1, <2>1, WriteStore DEF TypeOK, StoreOK, LateWrite
  <2>3. RequestsOK'
    BY <1>1 DEF TypeOK, RequestsOK, LateWrite, Current
  <2> QED
    BY <1>1, <2>2, <2>3, ObserveType DEF TypeOK, LateWrite
<1>2. ASSUME NEW n \in ChallengeName, NEW value \in Token \union {None},
             ChangeText(n, value)
      PROVE  TypeOK'
  <2>1. StoreOK' /\ RequestsOK'
    BY <1>2 DEF TypeOK, StoreOK, RequestsOK, ChangeText, Current, Name
  <2> QED
    BY <1>2, <2>1, ObserveType DEF TypeOK, ChangeText
<1>3. CASE Crash
  <2>1. /\ NoUpdate \in UpdateState /\ NoUpdate.at = "idle"
        /\ NoQuery \in QueryState /\ NoQuery.at = "idle" /\ NoQuery.answer = None
    BY DEF NoUpdate, NoQuery, UpdateState, QueryState
  <2> QED
    BY <1>3, <2>1 DEF TypeOK, StoreOK, RequestsOK, Crash
<1>4. CASE UNCHANGED vars
  BY <1>4 DEF TypeOK, StoreOK, RequestsOK, vars, history, Current
<1> QED
  BY <1>1, <1>2, <1>3, <1>4, UpdateTypes, QueryTypes DEF Next

\* Every variable of DynDNS keeps its type: addresses belong to hosts and texts to
\* challenges, and a request that writes has a host to write for.
THEOREM TypeOKAlways == Spec => []TypeOK
<1>1. Init => TypeOK
  <2>1. /\ NoUpdate \in UpdateState /\ NoUpdate.at = "idle"
        /\ NoQuery \in QueryState /\ NoQuery.at = "idle" /\ NoQuery.answer = None
    BY DEF NoUpdate, NoQuery, UpdateState, QueryState
  <2> QED
    BY <2>1 DEF Init, TypeOK, StoreOK, RequestsOK
<1> QED
  BY <1>1, TypeStep, PTL DEF Spec

---------------------------------------------------------------------------
(* Answers.                                                                *)

ContentOf(n) == [addresses |-> addresses[n], text |-> text[n]]

\* What has been observed of the name of a query: what it has now, nothing that is
\* both a host's and a challenge's, and what an absent name has been concluded from.
Observed(q) ==
  LET n == query[q].name IN
  query[q].at # "idle" =>
    /\ ContentOf(n) \in seen[q]
    /\ \A c \in seen[q] : /\ n \in Host => c.text = None
                          /\ n \in ChallengeName => c.addresses = {}
    /\ query[q].at = "text" /\ ~query[q].exists => \E c \in seen[q] : c.addresses = {}
    /\ query[q].at = "fetch" /\ ~query[q].exists
         => \E c \in seen[q] : c.addresses = {} /\ c.text = None

TrueAnswer(q) ==
  query[q].answer # None =>
    LET a == query[q].answer IN
    /\ \E c \in seen[q] : a.records = RecordsOf(query[q].type, c)
    /\ a.nxdomain => \E c \in seen[q] : c.addresses = {} /\ c.text = None

AnswerInv == \A q \in Query : Observed(q) /\ TrueAnswer(q)

\* More is seen of the names of queries while the queries themselves wait.
LEMMA ObserveAnswers ==
  ASSUME TypeOK, TypeOK', AnswerInv, Observe, query' = query
  PROVE  AnswerInv'
<1> SUFFICES ASSUME NEW q \in Query PROVE Observed(q)' /\ TrueAnswer(q)'
  BY DEF AnswerInv
<1>1. CASE query[q].at = "idle"
  BY <1>1 DEF AnswerInv, TypeOK, RequestsOK, Observe, Observed, TrueAnswer
<1>2. CASE query[q].at # "idle"
  <2> DEFINE n == query[q].name
             c == [addresses |-> addresses'[n], text |-> text'[n]]
  <2>1. n \in Name
    BY <1>2 DEF TypeOK, RequestsOK
  <2>2. seen'[q] = seen[q] \union {c}
    BY <1>2 DEF Observe
  <2>3. (n \in Host => c.text = None) /\ (n \in ChallengeName => c.addresses = {})
    BY <2>1 DEF TypeOK, StoreOK
  <2>4. ContentOf(n)' = c
    BY DEF ContentOf
  <2> HIDE DEF c
  <2>5. Observed(q)'
    BY <1>2, <2>2, <2>3, <2>4 DEF AnswerInv, Observed
  <2>6. TrueAnswer(q)'
    BY <2>2 DEF AnswerInv, TrueAnswer
  <2> QED
    BY <2>5, <2>6
<1> QED
  BY <1>1, <1>2

\* A step of one query.
LEMMA QueryAnswers ==
  ASSUME TypeOK, TypeOK', AnswerInv, NEW q \in Query, Ask(q) \/ QueryStep(q)
  PROVE  AnswerInv'
<1>1. ASSUME NEW p \in Query \ {q} PROVE Observed(p)' /\ TrueAnswer(p)'
  <2>1. query'[p] = query[p] /\ seen'[p] = seen[p] /\ UNCHANGED <<addresses, text>>
    BY DEF TypeOK, RequestsOK, Ask, QueryStep, LookForText, Fetch, GiveUp, Reply, history
  <2> QED
    BY <2>1 DEF AnswerInv, Observed, TrueAnswer, ContentOf
<1> DEFINE n == query[q].name
<1>2. query[q].at # "idle" => n \in Name /\ query[q] \in QueryState
  BY DEF TypeOK, RequestsOK
<1>3. Observed(q) /\ TrueAnswer(q)
  BY DEF AnswerInv
<1>4. CASE Ask(q)
  <2>1. PICK m \in Name, t \in {"A", "AAAA", "TXT", "other"} :
          /\ query' = [query EXCEPT ![q] =
               [at |-> "text", name |-> m, type |-> t, exists |-> addresses[m] # {},
                answer |-> None]]
          /\ seen' = [seen EXCEPT ![q] = {[addresses |-> addresses[m], text |-> text[m]]}]
    BY <1>4 DEF Ask
  <2>2. /\ query'[q].at = "text" /\ query'[q].name = m /\ query'[q].answer = None
        /\ query'[q].exists = (addresses[m] # {})
        /\ seen'[q] = {[addresses |-> addresses[m], text |-> text[m]]}
        /\ UNCHANGED <<addresses, text>>
    BY <1>4, <2>1 DEF TypeOK, RequestsOK, Ask
  <2>4. (m \in Host => text[m] = None) /\ (m \in ChallengeName => addresses[m] = {})
    BY DEF TypeOK, StoreOK
  <2> DEFINE c == [addresses |-> addresses[m], text |-> text[m]]
  <2>3. /\ c.addresses = addresses[m] /\ c.text = text[m] /\ seen'[q] = {c}
        /\ ContentOf(query[q].name)' = c
    BY <2>2 DEF ContentOf
  <2> HIDE DEF c
  <2>5. Observed(q)'
    BY <2>2, <2>3, <2>4 DEF Observed
  <2>6. TrueAnswer(q)'
    BY <2>2 DEF TrueAnswer
  <2> QED
    BY <1>1, <2>5, <2>6 DEF AnswerInv
<1>5. CASE LookForText(q)
  <2>1. /\ query[q].at = "text" /\ query'[q].at = "fetch" /\ query'[q].name = n
        /\ query'[q].exists = (query[q].exists \/ text[n] # None)
        /\ query'[q].answer = None
        /\ UNCHANGED <<addresses, text, seen>>
    BY <1>2, <1>5 DEF TypeOK, RequestsOK, QueryState, LookForText, history
  <2>2. ~query'[q].exists => \E c \in seen[q] : c.addresses = {} /\ c.text = None
    <3> SUFFICES ASSUME ~query[q].exists, text[n] = None
                 PROVE  \E c \in seen[q] : c.addresses = {} /\ c.text = None
      BY <2>1
    <3>1. CASE n \in Host
      BY <1>3, <2>1, <3>1 DEF Observed
    <3>2. CASE n \in ChallengeName
      <4>1. ContentOf(n) \in seen[q] /\ ContentOf(n).text = None
        BY <1>3, <2>1 DEF Observed, ContentOf
      <4> QED
        BY <1>3, <2>1, <3>2, <4>1 DEF Observed
    <3> QED
      BY <1>2, <2>1, <3>1, <3>2 DEF Name
  <2>3. Observed(q)'
    BY <1>3, <2>1, <2>2 DEF Observed, ContentOf
  <2>4. TrueAnswer(q)'
    BY <2>1 DEF TrueAnswer
  <2> QED
    BY <1>1, <2>3, <2>4 DEF AnswerInv
<1>6. CASE Fetch(q)
  <2> DEFINE found == RecordsOf(query[q].type, ContentOf(n))
             a == [nxdomain |-> found = {} /\ ~query[q].exists, records |-> found]
  <2>1. /\ query[q].at = "fetch" /\ query'[q].at = "reply" /\ query'[q].name = n
        /\ query'[q].type = query[q].type /\ query'[q].exists = query[q].exists
        /\ query'[q].answer = a /\ UNCHANGED <<addresses, text, seen>>
    BY <1>2, <1>6 DEF TypeOK, RequestsOK, QueryState, Fetch, ContentOf, history
  <2>2. a.records = found /\ (a.nxdomain => ~query[q].exists)
    OBVIOUS
  <2> HIDE DEF a
  <2>3. Observed(q)'
    BY <1>3, <2>1 DEF Observed, ContentOf
  <2>4. TrueAnswer(q)'
    <3>1. ContentOf(n) \in seen[q]
      BY <1>3, <2>1 DEF Observed
    <3>2. \E c \in seen[q] : a.records = RecordsOf(query[q].type, c)
      BY <2>2, <3>1
    <3>3. a.nxdomain => \E c \in seen[q] : c.addresses = {} /\ c.text = None
      BY <1>3, <2>1, <2>2 DEF Observed
    <3> QED
      BY <2>1, <3>2, <3>3 DEF TrueAnswer
  <2> QED
    BY <1>1, <2>3, <2>4 DEF AnswerInv
<1>7. CASE GiveUp(q)
  <2>1. /\ query[q].at \in {"text", "fetch"} /\ query'[q].at = "reply"
        /\ query'[q].name = n /\ query'[q].answer = query[q].answer
        /\ UNCHANGED <<addresses, text, seen>>
    BY <1>7 DEF TypeOK, RequestsOK, QueryState, GiveUp, history
  <2>2. query[q].answer = None
    BY <2>1 DEF TypeOK, RequestsOK
  <2> QED
    BY <1>1, <1>3, <2>1, <2>2 DEF AnswerInv, Observed, TrueAnswer, ContentOf
<1>8. CASE Reply(q)
  <2>1. query'[q].at = "idle" /\ query'[q].answer = None
    BY <1>8 DEF TypeOK, RequestsOK, Reply, NoQuery
  <2> QED
    BY <1>1, <2>1 DEF AnswerInv, Observed, TrueAnswer
<1> QED
  BY <1>4, <1>5, <1>6, <1>7, <1>8 DEF QueryStep

\* Whatever updates, late writes and challenges change while a query makes its three
\* reads, its answer was true at one moment of it: AnswerWasTrue.  It rests on that
\* addresses and texts never belong to one name.
THEOREM AnswerWasTrueAlways == Spec => []AnswerWasTrue
<1>1. Init => AnswerInv
  BY DEF Init, AnswerInv, Observed, TrueAnswer, NoQuery
<1>2. TypeOK /\ TypeOK' /\ AnswerInv /\ [Next]_vars => AnswerInv'
  <2> SUFFICES ASSUME TypeOK, TypeOK', AnswerInv, [Next]_vars PROVE AnswerInv'
    OBVIOUS
  <2>1. ASSUME UNCHANGED <<addresses, text, query, seen>> PROVE AnswerInv'
    BY <2>1 DEF AnswerInv, Observed, TrueAnswer, ContentOf
  <2>2. ASSUME NEW u \in Update, Receive(u) \/ UpdateStep(u) \/ EndContext(u)
        PROVE  AnswerInv'
    <3>1. CASE Stored(u)
      BY <3>1, ObserveAnswers DEF Stored
    <3>2. CASE ~Stored(u)
      BY <2>1, <2>2, <3>2 DEF UpdateStep, Receive, Reject, Compare, NotStored, Outlived,
         Return, EndContext, history
    <3> QED
      BY <3>1, <3>2
  <2>3. ASSUME NEW w \in late, LateWrite(w) PROVE AnswerInv'
    BY <2>3, ObserveAnswers DEF LateWrite
  <2>4. ASSUME NEW n \in ChallengeName, NEW value \in Token \union {None},
               ChangeText(n, value)
        PROVE  AnswerInv'
    BY <2>4, ObserveAnswers DEF ChangeText
  <2>5. CASE Crash
    BY <2>5 DEF Crash, AnswerInv, Observed, TrueAnswer, NoQuery
  <2>6. CASE UNCHANGED vars
    BY <2>1, <2>6 DEF vars, history
  <2> QED
    BY <2>2, <2>3, <2>4, <2>5, <2>6, QueryAnswers DEF Next
<1>3. AnswerInv => AnswerWasTrue
  BY DEF AnswerInv, TrueAnswer, AnswerWasTrue
<1> QED
  BY <1>1, <1>2, <1>3, TypeOKAlways, PTL DEF Spec

---------------------------------------------------------------------------
(* What updates are told.                                                  *)

Running(u, h) == update[u].at # "idle" /\ h \in ElementsOf(update[u].hosts)

\* Why nobody overwrites what an update that was alone has been told: who may still
\* write to the host is that update itself, with the same addresses, and only once
\* its context has ended.
HostKept(h) ==
  /\ settled[h] # {} =>
       /\ h \notin shared /\ addresses[h] = settled[h]
       /\ \A u \in Update : Running(u, h) => update[u].ips = settled[h]
       /\ \A w \in late : w.host = h => w.ips = settled[h]
  /\ h \notin shared =>
       /\ \A u, v \in Update : Running(u, h) /\ Running(v, h) => u = v
       /\ \A u \in Update, w \in late :
            Running(u, h) /\ w.host = h => u \notin live /\ w.ips = update[u].ips

ToldInv == (\A h \in Host : HostKept(h)) /\ NoChangeIsTrue

\* A host that a step leaves alone.
LEMMA HostLeftAlone ==
  ASSUME NEW h \in Host, HostKept(h), h \in shared' <=> h \in shared,
         settled'[h] = settled[h], addresses'[h] = addresses[h],
         \A w \in late' : w.host = h => w \in late,
         \A u \in Update : Running(u, h)' =>
           Running(u, h) /\ update'[u].ips = update[u].ips /\ (u \in live' => u \in live)
  PROVE  HostKept(h)'
BY DEF HostKept

\* The name at hand of an update that is about to write is a host of it.
LEMMA WritesToHost ==
  ASSUME TypeOK, NEW u \in Update, update[u].at \in {"compare", "put"}
  PROVE  /\ UpdateOK(u) /\ update[u] \in UpdateState /\ update[u].ips # {}
         /\ Running(u, Current(u)) /\ (update[u].at = "put" => Current(u) \in Host)
<1>1. UpdateOK(u)
  BY DEF TypeOK, RequestsOK, UpdateOK
<1>2. Current(u) \in ElementsOf(update[u].hosts)
  BY <1>1, CurrentIsName
<1>3. Running(u, Current(u))
  BY <1>2 DEF Running
<1> QED
  BY <1>1, <1>3 DEF UpdateOK

\* What NextHost leaves as it is.
LEMMA NextHostRunning ==
  ASSUME TypeOK, NEW u \in Update, update[u].at \in {"compare", "put"},
         NEW reply \in {"notfqdn", "stored", "dnserr"}, NextHost(u, reply)
  PROVE  /\ \A v \in Update : update'[v].ips = update[v].ips
         /\ \A v \in Update, h \in Host : Running(v, h)' <=> Running(v, h)
         /\ \A v \in Update : update'[v].at = "put" => v # u /\ update'[v] = update[v]
<1>1. /\ \A v \in Update \ {u} : update'[v] = update[v]
      /\ update'[u].hosts = update[u].hosts /\ update'[u].ips = update[u].ips
      /\ update'[u].at \in {"compare", "reply"}
  BY WritesToHost, NextHostType DEF TypeOK, RequestsOK
<1> QED
  BY <1>1 DEF Running

\* The steps of updates.
LEMMA UpdateTold ==
  ASSUME TypeOK, ToldInv, NEW u \in Update, Receive(u) \/ UpdateStep(u) \/ EndContext(u)
  PROVE  ToldInv'
<1> PICK h : h = Current(u)
  OBVIOUS
<1>1. \A g \in Host : HostKept(g)
  BY DEF ToldInv
<1>2. CASE Receive(u)
  <2>1. PICK list \in HostList, addrs \in AddressList :
          /\ update' = [update EXCEPT ![u] =
               [at |-> "compare", hosts |-> list, ips |-> addrs, told |-> "good",
                replies |-> <<>>]]
          /\ shared' = (shared \ (ElementsOf(list) \intersect Host)) \union
                {g \in ElementsOf(list) \intersect Host : Contended(g)}
          /\ settled' = [g \in Host |->
                IF g \in ElementsOf(list) \intersect Host THEN {} ELSE settled[g]]
    BY <1>2 DEF Receive
  <2>2. /\ update'[u].at = "compare" /\ update'[u].hosts = list
        /\ \A v \in Update \ {u} : update'[v] = update[v]
        /\ UNCHANGED <<addresses, late>> /\ live' = live \union {u}
        /\ update[u].at = "idle"
    BY <1>2, <2>1 DEF TypeOK, RequestsOK, Receive
  <2>3. ASSUME NEW g \in Host PROVE HostKept(g)'
    <3>1. CASE g \in ElementsOf(list)
      <4>1. settled'[g] = {} /\ (g \notin shared' => ~Contended(g))
        BY <2>1, <3>1
      <4>2. ~Contended(g) => /\ \A v \in Update \ {u} : ~Running(v, g)'
                             /\ \A w \in late : w.host # g
        BY <2>2 DEF Contended, Running
      <4> QED
        BY <2>2, <4>1, <4>2 DEF HostKept
    <3>2. CASE g \notin ElementsOf(list)
      <4>1. ~Running(u, g)' /\ \A v \in Update \ {u} : Running(v, g)' <=> Running(v, g)
        BY <2>2, <3>2 DEF Running
      <4>2. settled'[g] = settled[g] /\ (g \in shared' <=> g \in shared)
        BY <2>1, <3>2
      <4> QED
        BY <1>1, <2>2, <4>1, <4>2, HostLeftAlone
    <3> QED
      BY <3>1, <3>2
  <2>4. NoChangeIsTrue'
    <3> SUFFICES ASSUME NEW v \in Update, (update[v].at = "put")',
                        (update[v].told = "nochg")'
                 PROVE  (Current(v) \in shared \/ addresses[Current(v)] = update[v].ips)'
      BY DEF NoChangeIsTrue
    <3>1. v # u /\ update'[v] = update[v] /\ Current(v)' = Current(v)
      BY <2>2 DEF Current
    <3>2. Current(v) \in Host /\ Running(v, Current(v))
      BY <3>1, WritesToHost
    <3>3. Current(v) \in shared => Current(v) \in shared'
      BY <2>1, <3>1, <3>2 DEF Contended, Running
    <3> QED
      BY <2>2, <3>1, <3>3 DEF ToldInv, NoChangeIsTrue
  <2> QED
    BY <2>3, <2>4 DEF ToldInv
<1>3. ASSUME update[u].at \in {"compare", "put"},
             NEW reply \in {"notfqdn", "stored", "dnserr"}, NextHost(u, reply),
             UNCHANGED <<addresses, late, live, shared, settled>>
      PROVE  ToldInv'
  <2>1. \A g \in Host : HostKept(g)'
    BY <1>1, <1>3, NextHostRunning, HostLeftAlone
  <2>2. NoChangeIsTrue'
    BY <1>3, NextHostRunning DEF ToldInv, NoChangeIsTrue, Current
  <2> QED
    BY <2>1, <2>2 DEF ToldInv
<1>4. CASE Reject(u)
  BY <1>3, <1>4 DEF Reject, history
<1>5. CASE NotStored(u)
  BY <1>3, <1>5 DEF NotStored, history
<1>6. CASE Compare(u)
  <2>1. PICK reply \in {"nochg", "good"} :
          /\ reply = "nochg" => addresses[h] = update[u].ips
          /\ update' = [update EXCEPT ![u].at = "put", ![u].told = reply]
    BY <1>6 DEF Compare, HaveAddressesChanged
  <2>2. /\ \A v \in Update \ {u} : update'[v] = update[v]
        /\ update'[u].hosts = update[u].hosts /\ update'[u].ips = update[u].ips
        /\ update'[u].replies = update[u].replies /\ update'[u].told = reply
        /\ update'[u].at # "idle" /\ update[u].at # "idle"
        /\ UNCHANGED <<addresses, late, live, shared, settled>>
    BY <1>6, <2>1 DEF TypeOK, RequestsOK, UpdateState, Compare, history
  <2>3. \A v \in Update, g \in Host : Running(v, g)' <=> Running(v, g)
    BY <2>2 DEF Running
  <2>4. \A g \in Host : HostKept(g)'
    BY <1>1, <2>2, <2>3, HostLeftAlone
  <2>5. Current(u)' = h /\ \A v \in Update \ {u} : Current(v)' = Current(v)
    BY <2>2 DEF Current
  <2>6. NoChangeIsTrue'
    <3> SUFFICES ASSUME NEW v \in Update, (update[v].at = "put")',
                        (update[v].told = "nochg")'
                 PROVE  (Current(v) \in shared \/ addresses[Current(v)] = update[v].ips)'
      BY DEF NoChangeIsTrue
    <3>1. CASE v = u
      BY <2>1, <2>2, <2>5, <3>1
    <3>2. CASE v # u
      BY <2>2, <2>5, <3>2 DEF ToldInv, NoChangeIsTrue
    <3> QED
      BY <3>1, <3>2
  <2> QED
    BY <2>4, <2>6 DEF ToldInv
<1>7. CASE Stored(u)
  <2>1. /\ h \in Host /\ update[u].ips # {} /\ Running(u, h)
        /\ NextHost(u, "stored") /\ update[u].at = "put"
        /\ UNCHANGED <<late, live, shared>>
    BY <1>7, WritesToHost DEF Stored
  <2>2. CASE u \notin live
    BY <1>3, <1>7, <2>1, <2>2 DEF Stored
  <2>3. CASE u \in live
    <3>1. /\ addresses' = [addresses EXCEPT ![h] = update[u].ips]
          /\ settled' = [settled EXCEPT ![h] = IF h \in shared THEN settled[h]
                                                               ELSE update[u].ips]
      BY <1>7, <2>3 DEF Stored
    <3>2. /\ addresses'[h] = update[u].ips
          /\ settled'[h] = IF h \in shared THEN settled[h] ELSE update[u].ips
          /\ \A g \in Host \ {h} : addresses'[g] = addresses[g] /\ settled'[g] = settled[g]
      BY <2>1, <3>1 DEF TypeOK, StoreOK, Name
    <3>3. \A g \in Host \ {h} : HostKept(g)'
      BY <1>1, <2>1, <3>2, NextHostRunning, HostLeftAlone
    <3>4. HostKept(h)'
      BY <1>1, <2>1, <2>3, <3>2, NextHostRunning DEF HostKept
    <3>5. NoChangeIsTrue'
      <4> SUFFICES ASSUME NEW v \in Update, (update[v].at = "put")',
                          (update[v].told = "nochg")'
                   PROVE  (Current(v) \in shared \/ addresses[Current(v)] = update[v].ips)'
        BY DEF NoChangeIsTrue
      <4>1. v # u /\ update'[v] = update[v] /\ Current(v)' = Current(v)
        BY <2>1, NextHostRunning DEF Current
      <4>2. Current(v) \in Host /\ Running(v, Current(v))
        BY <4>1, WritesToHost
      <4>3. CASE Current(v) = h
        BY <1>1, <2>1, <4>1, <4>2, <4>3 DEF HostKept
      <4>4. CASE Current(v) # h
        BY <2>1, <3>2, <4>1, <4>2, <4>4 DEF ToldInv, NoChangeIsTrue
      <4> QED
        BY <4>3, <4>4
    <3> QED
      BY <3>3, <3>4, <3>5 DEF ToldInv
  <2> QED
    BY <2>2, <2>3
<1>8. CASE Outlived(u)
  <2>1. /\ h \in Host /\ Running(u, h) /\ NextHost(u, "dnserr") /\ update[u].at = "put"
        /\ late' = late \union {[host |-> h, ips |-> update[u].ips]}
        /\ live' = live \ {u} /\ UNCHANGED <<addresses, shared, settled>>
    BY <1>8, WritesToHost DEF Outlived, history
  <2>2. ASSUME NEW g \in Host PROVE HostKept(g)'
    <3>1. CASE g # h
      <4>1. \A w \in late' : w.host = g => w \in late
        BY <2>1, <3>1
      <4> QED
        BY <1>1, <2>1, <4>1, NextHostRunning, HostLeftAlone
    <3>2. CASE g = h
      BY <1>1, <2>1, <3>2, NextHostRunning DEF HostKept
    <3> QED
      BY <3>1, <3>2
  <2>3. NoChangeIsTrue'
    BY <2>1, NextHostRunning DEF ToldInv, NoChangeIsTrue, Current
  <2> QED
    BY <2>2, <2>3 DEF ToldInv
<1>9. CASE Return(u)
  <2>1. /\ update'[u].at = "idle" /\ \A v \in Update \ {u} : update'[v] = update[v]
        /\ live' \subseteq live /\ UNCHANGED <<addresses, late, shared, settled>>
    BY <1>9 DEF TypeOK, RequestsOK, Return, NoUpdate, history
  <2>2. \A v \in Update, g \in Host :
          Running(v, g)' => Running(v, g) /\ update'[v].ips = update[v].ips
    BY <2>1 DEF Running
  <2>3. \A g \in Host : HostKept(g)'
    BY <1>1, <2>1, <2>2, HostLeftAlone
  <2>4. NoChangeIsTrue'
    BY <2>1 DEF ToldInv, NoChangeIsTrue, Current
  <2> QED
    BY <2>3, <2>4 DEF ToldInv
<1>10. CASE EndContext(u)
  BY <1>10 DEF ToldInv, EndContext, HostKept, Running, NoChangeIsTrue, Current, history
<1> QED
  BY <1>2, <1>4, <1>5, <1>6, <1>7, <1>8, <1>9, <1>10 DEF UpdateStep

\* Every step keeps what updates are told.
LEMMA ToldStep ==
  ASSUME TypeOK, ToldInv, [Next]_vars
  PROVE  ToldInv'
<1>1. \A h \in Host : HostKept(h)
  BY DEF ToldInv
<1>2. ASSUME UNCHANGED <<update, live, late, shared, settled>>,
             \A h \in Host : addresses'[h] = addresses[h]
      PROVE  ToldInv'
  <2>1. \A h \in Host : HostKept(h)'
    BY <1>1, <1>2 DEF HostKept, Running
  <2>2. \A u \in Update : update[u].at = "put" => Current(u) \in Host
    BY DEF TypeOK, RequestsOK
  <2>3. NoChangeIsTrue'
    BY <1>2, <2>2 DEF ToldInv, NoChangeIsTrue, Current
  <2> QED
    BY <2>1, <2>3 DEF ToldInv
<1>3. ASSUME NEW w \in late, LateWrite(w) PROVE ToldInv'
  <2>1. /\ w.host \in Host /\ late' \subseteq late
        /\ UNCHANGED <<update, live, shared, settled>>
        /\ addresses'[w.host] \in {w.ips, addresses[w.host]}
        /\ \A h \in Host \ {w.host} : addresses'[h] = addresses[h]
    BY <1>3 DEF TypeOK, StoreOK, Write, Name, LateWrite
  <2>2. \A h \in Host : HostKept(h)'
    BY <1>1, <2>1 DEF HostKept, Running
  <2>3. NoChangeIsTrue'
    <3> SUFFICES ASSUME NEW u \in Update, update[u].at = "put", update[u].told = "nochg"
                 PROVE  (Current(u) \in shared \/ addresses[Current(u)] = update[u].ips)'
      BY <2>1 DEF NoChangeIsTrue, Current
    <3>1. PICK h : h = Current(u)
      OBVIOUS
    <3>2. /\ h \in Host /\ Running(u, h) /\ Current(u)' = h
          /\ h \in shared \/ addresses[h] = update[u].ips
      BY <2>1, <3>1, WritesToHost DEF ToldInv, NoChangeIsTrue, Current
    <3>3. h \notin shared /\ h = w.host => w.ips = update[u].ips
      BY <1>1, <3>2 DEF HostKept
    <3> QED
      BY <2>1, <3>2, <3>3
  <2> QED
    BY <2>2, <2>3 DEF ToldInv
<1>4. CASE Crash
  <2>1. /\ \A u \in Update : update'[u].at = "idle"
        /\ late' = {} /\ UNCHANGED <<addresses, shared, settled>>
    BY <1>4 DEF Crash, NoUpdate
  <2> QED
    BY <1>1, <2>1 DEF ToldInv, HostKept, Running, NoChangeIsTrue
<1>5. ASSUME NEW q \in Query, Ask(q) \/ QueryStep(q) PROVE ToldInv'
  BY <1>2, <1>5 DEF QueryStep, Ask, LookForText, Fetch, GiveUp, Reply, history
<1>6. ASSUME NEW n \in ChallengeName, NEW value \in Token \union {None},
             ChangeText(n, value)
      PROVE  ToldInv'
  BY <1>2, <1>6 DEF ChangeText
<1>7. CASE UNCHANGED vars
  BY <1>2, <1>7 DEF vars, history
<1> QED
  BY <1>3, <1>4, <1>5, <1>6, <1>7, UpdateTold DEF Next

LEMMA ToldAlways == Spec => []ToldInv
<1>1. Init => ToldInv
  BY DEF Init, ToldInv, HostKept, Running, NoChangeIsTrue, NoUpdate
<1> QED
  BY <1>1, ToldStep, TypeOKAlways, PTL DEF Spec

\* What an update that was alone has been told is stored is found stored, until the
\* next update of the host: AckedIsStored.  Who may still write to the host in the
\* meantime is that same update, from beyond the end of its context, and it writes
\* the same addresses.
THEOREM AckedIsStoredAlways == Spec => []AckedIsStored
<1>1. ToldInv => AckedIsStored
  BY DEF ToldInv, HostKept, AckedIsStored
<1> QED
  BY <1>1, ToldAlways, PTL

\* An update that is told nochg has found the addresses that it writes again, and
\* nobody has written others since, unless updates of the host overlap.
THEOREM NoChangeIsTrueAlways == Spec => []NoChangeIsTrue
<1>1. ToldInv => NoChangeIsTrue
  BY DEF ToldInv
<1> QED
  BY <1>1, ToldAlways, PTL

---------------------------------------------------------------------------
(* Complete replies.                                                       *)

\* The part of the answer that a request has so far.
AnsweredSoFar(u) ==
  /\ Len(update[u].replies) <= Len(update[u].hosts)
  /\ update[u].at = "reply" => Len(update[u].replies) = Len(update[u].hosts)
  /\ \A i \in 1 .. Len(update[u].replies) :
       update[u].replies[i] = "notfqdn" <=> update[u].hosts[i] \notin Host

LEMMA NextHostAnswers ==
  ASSUME TypeOK, NEW u \in Update, update[u].at \in {"compare", "put"}, AnsweredSoFar(u),
         NEW reply \in {"notfqdn", "stored", "dnserr"}, NextHost(u, reply),
         reply = "notfqdn" <=> Current(u) \notin Host
  PROVE  AnsweredSoFar(u)'
<1> DEFINE old == update[u].replies  new == update'[u].replies  hosts == update[u].hosts
<1>1. /\ update'[u].hosts = hosts /\ new = Append(old, reply)
      /\ update'[u].at = "reply" <=> Len(new) = Len(hosts)
      /\ UpdateOK(u) /\ UpdateOK(u)'
  BY WritesToHost, NextHostType DEF TypeOK, RequestsOK
<1>2. old \in Seq({"notfqdn", "stored", "dnserr"}) /\ hosts \in Seq(Name)
  BY <1>1 DEF UpdateOK, UpdateState
<1>3. /\ Len(new) = Len(old) + 1 /\ new[Len(old) + 1] = reply
      /\ \A i \in 1 .. Len(old) : new[i] = old[i]
      /\ Len(old) \in Nat /\ Len(hosts) \in Nat /\ Len(old) < Len(hosts)
  BY <1>1, <1>2 DEF UpdateOK
<1>4. Current(u) = hosts[Len(old) + 1]
  BY DEF Current
<1> HIDE DEF old, new, hosts
<1>5. \A i \in 1 .. Len(new) : new[i] = "notfqdn" <=> hosts[i] \notin Host
  <2> SUFFICES ASSUME NEW i \in 1 .. Len(new)
               PROVE  new[i] = "notfqdn" <=> hosts[i] \notin Host
    OBVIOUS
  <2>1. CASE i = Len(old) + 1
    BY <1>3, <1>4, <2>1
  <2>2. CASE i # Len(old) + 1
    <3>1. i \in 1 .. Len(old)
      BY <1>3, <2>2
    <3> QED
      BY <1>3, <3>1 DEF AnsweredSoFar, old, hosts
  <2> QED
    BY <2>1, <2>2
<1>6. Len(new) <= Len(hosts)
  BY <1>3
<1> QED
  BY <1>1, <1>5, <1>6 DEF AnsweredSoFar, new, hosts

\* Every name of an update is answered, whatever has failed before it.
THEOREM EveryNameAnsweredAlways == Spec => []EveryNameAnswered
<1> DEFINE Inv == \A u \in Update : AnsweredSoFar(u)
<1>1. Init => Inv
  BY DEF Init, NoUpdate, AnsweredSoFar
<1>2. TypeOK /\ Inv /\ [Next]_vars => Inv'
  <2> SUFFICES ASSUME TypeOK, Inv, [Next]_vars PROVE Inv'
    OBVIOUS
  <2>1. CASE UNCHANGED update
    BY <2>1 DEF AnsweredSoFar
  <2>2. ASSUME NEW u \in Update, AnsweredSoFar(u)',
               \A v \in Update \ {u} : update'[v] = update[v]
        PROVE  Inv'
    BY <2>2 DEF AnsweredSoFar
  <2>3. ASSUME NEW u \in Update, update[u].at \in {"compare", "put"},
               NEW reply \in {"notfqdn", "stored", "dnserr"}, NextHost(u, reply),
               reply = "notfqdn" <=> Current(u) \notin Host
        PROVE  Inv'
    <3>1. \A v \in Update \ {u} : update'[v] = update[v]
      BY <2>3, WritesToHost, NextHostType DEF TypeOK, RequestsOK
    <3> QED
      BY <2>2, <2>3, <3>1, NextHostAnswers
  <2>4. ASSUME NEW u \in Update, Receive(u) PROVE Inv'
    <3>1. /\ update'[u].replies = <<>> /\ update'[u].at = "compare"
          /\ update'[u].hosts \in Seq(Name)
          /\ \A v \in Update \ {u} : update'[v] = update[v]
      BY <2>4 DEF TypeOK, RequestsOK, Receive
    <3>2. AnsweredSoFar(u)'
      BY <3>1 DEF AnsweredSoFar
    <3> QED
      BY <2>2, <3>1, <3>2
  <2>5. ASSUME NEW u \in Update, Compare(u) PROVE Inv'
    <3>1. /\ update'[u].replies = update[u].replies /\ update'[u].at = "put"
          /\ update'[u].hosts = update[u].hosts
          /\ \A v \in Update \ {u} : update'[v] = update[v]
      BY <2>5 DEF TypeOK, RequestsOK, UpdateState, Compare
    <3>2. AnsweredSoFar(u)'
      BY <3>1 DEF AnsweredSoFar
    <3> QED
      BY <2>2, <3>1, <3>2
  <2>6. ASSUME NEW u \in Update, Return(u) PROVE Inv'
    <3>1. update'[u] = NoUpdate /\ \A v \in Update \ {u} : update'[v] = update[v]
      BY <2>6 DEF TypeOK, RequestsOK, Return
    <3>2. AnsweredSoFar(u)'
      BY <3>1 DEF AnsweredSoFar, NoUpdate
    <3> QED
      BY <2>2, <3>1, <3>2
  <2>7. ASSUME NEW u \in Update, Stored(u) \/ NotStored(u) \/ Outlived(u) \/ Reject(u)
        PROVE  Inv'
    BY <2>3, <2>7, WritesToHost DEF Stored, NotStored, Outlived, Reject
  <2>8. CASE Crash
    BY <2>8 DEF Crash, AnsweredSoFar, NoUpdate
  <2>9. ASSUME NEW q \in Query, Ask(q) \/ QueryStep(q) PROVE Inv'
    BY <2>1, <2>9 DEF QueryStep, Ask, LookForText, Fetch, GiveUp, Reply
  <2>10. ASSUME \/ \E u \in Update : EndContext(u)
                \/ \E w \in late : LateWrite(w)
                \/ \E n \in ChallengeName, value \in Token \union {None} :
                     ChangeText(n, value)
                \/ UNCHANGED vars
         PROVE  Inv'
    BY <2>1, <2>10 DEF EndContext, LateWrite, ChangeText, vars
  <2> QED
    BY <2>4, <2>5, <2>6, <2>7, <2>8, <2>9, <2>10 DEF Next, UpdateStep
<1>3. TypeOK /\ Inv => EveryNameAnswered
  BY DEF AnsweredSoFar, EveryNameAnswered, TypeOK, RequestsOK, UpdateState
<1> QED
  BY <1>1, <1>2, <1>3, TypeOKAlways, PTL DEF Spec
=============================================================================
