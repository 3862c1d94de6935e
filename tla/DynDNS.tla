------------------------------- MODULE DynDNS -------------------------------
(***************************************************************************)
(* The dynamic DNS of alley-oop: requests of /v1/update (API.v1update)     *)
(* store the addresses of hosts, DNS queries (processQuery) read them,     *)
(* together with the texts that ACME conversations put and delete.  All of *)
(* them run concurrently over one Database without a lock of their own.  A *)
(* read is atomic; a write is one of FileDatabase, which may fail and may  *)
(* outlive the context of its request.                                     *)
(***************************************************************************)
EXTENDS Naturals, Sequences, FiniteSets

CONSTANTS
  Update, Query,  \* goroutines that run v1update, and processQuery
  Host,           \* names that hostnameRegexp accepts, in lower case
  ChallengeName,  \* names of dns-01 challenges, which begin with an underscore
  HostList,       \* lists of names that requests carry
  Address, V4,    \* addresses, and those of them that are IPv4
  AddressList,    \* sets of addresses that requests carry
  Token, None,    \* texts, and nil
  MaxHosts,       \* how many names v1update allows, 20
  IOMayFail,
  MaxLate         \* bound on the writes that go on after their contexts have ended

Name == Host \union ChallengeName

ASSUME DynDNSConstants ==
  /\ Host \intersect ChallengeName = {} /\ HostList \subseteq Seq(Name)
  /\ V4 \subseteq Address /\ AddressList \subseteq SUBSET Address
  /\ None \notin Token \union Name
  /\ MaxHosts \in Nat /\ MaxLate \in Nat /\ IOMayFail \in BOOLEAN

VARIABLES
  addresses, text,  \* what is stored for each name
  late,             \* writes that go on after their contexts have ended
  update, query,    \* the requests and the queries
  live,             \* requests whose context has not ended
  shared,           \* history: hosts whose last updates have overlapped
  settled,          \* history: what an update that was alone was told is stored
  seen              \* history: what the name of a query had while it ran

history == <<shared, settled, seen>>
vars == <<addresses, text, late, update, query, live, history>>

Content == [addresses : SUBSET Address, text : Token \union {None}]
Write == [host : Host, ips : (SUBSET Address) \ {{}}]
UpdateState ==      \* v1update: hostnames, ips, whether it has said nochg, its answer
  [at : {"idle", "compare", "put", "reply"}, hosts : Seq(Name), ips : SUBSET Address,
   told : {"nochg", "good"}, replies : Seq({"notfqdn", "stored", "dnserr"})]
Answer == [nxdomain : BOOLEAN, records : SUBSET (Address \union Token)]
QueryState ==       \* processQuery: the question, domainExists, the answer
  [at : {"idle", "text", "fetch", "reply"}, name : Name \union {None},
   type : {"A", "AAAA", "TXT", "other"}, exists : BOOLEAN, answer : Answer \union {None}]
NoUpdate == [at |-> "idle", hosts |-> <<>>, ips |-> {}, told |-> "good", replies |-> <<>>]
NoQuery == [at |-> "idle", name |-> None, type |-> "other", exists |-> FALSE,
            answer |-> None]

\* The name a request is about to look at, its answer having come so far.
Current(u) == update[u].hosts[Len(update[u].replies) + 1]

\* Addresses belong to hosts and texts to challenges.
StoreOK ==
  /\ addresses \in [Name -> SUBSET Address] /\ text \in [Name -> Token \union {None}]
  /\ \A n \in ChallengeName : addresses[n] = {}
  /\ \A h \in Host : text[h] = None
  /\ late \subseteq Write

RequestsOK ==
  /\ update \in [Update -> UpdateState] /\ query \in [Query -> QueryState]
  /\ live \subseteq Update
  /\ \A u \in Update : update[u].at # "idle" => update[u].ips # {}
  /\ \A u \in Update : update[u].at \in {"compare", "put"}
                         => Len(update[u].replies) < Len(update[u].hosts)
  /\ \A u \in Update : update[u].at = "put" => Current(u) \in Host
  /\ \A q \in Query : query[q].at # "idle" => query[q].name \in Name
  /\ \A q \in Query : query[q].at # "reply" => query[q].answer = None

TypeOK ==
  /\ StoreOK /\ RequestsOK
  /\ shared \subseteq Host /\ settled \in [Host -> SUBSET Address]
  /\ seen \in [Query -> SUBSET Content]

Init ==
  /\ addresses \in [Name -> SUBSET Address] /\ text \in [Name -> Token \union {None}]
  /\ \A n \in ChallengeName : addresses[n] = {}
  /\ \A h \in Host : text[h] = None
  /\ late = {} /\ live = {}
  /\ update = [u \in Update |-> NoUpdate] /\ query = [q \in Query |-> NoQuery]
  /\ shared = {} /\ settled = [h \in Host |-> {}] /\ seen = [q \in Query |-> {}]

---------------------------------------------------------------------------
(* Updates.                                                                *)

ElementsOf(list) == {list[i] : i \in DOMAIN list}

\* Requests and writes of earlier ones that a new one for the host may overlap with.
Contended(h) ==
  \/ \E v \in Update : update[v].at # "idle" /\ h \in ElementsOf(update[v].hosts)
  \/ \E w \in late : w.host = h

\* Mutant: a request without addresses is not refused.
Receive_NoAddresses(u) ==
  /\ update[u].at = "idle"
  /\ \E list \in HostList, addrs \in AddressList :
       /\ list # <<>> /\ Len(list) <= MaxHosts
       /\ update' = [update EXCEPT ![u] =
            [NoUpdate EXCEPT !.at = "compare", !.hosts = list, !.ips = addrs]]
  /\ live' = live \union {u}
  /\ UNCHANGED <<addresses, text, late, query, history>>

\* v1update has parsed its form; a request without names, with too many, or without
\* addresses is answered without a look at the database.
Receive(u) ==
  /\ update[u].at = "idle"
  /\ \E list \in HostList, addrs \in AddressList :
       LET wanted == ElementsOf(list) \intersect Host IN
       /\ list # <<>> /\ Len(list) <= MaxHosts /\ addrs # {}
       /\ update' = [update EXCEPT ![u] =
            [at |-> "compare", hosts |-> list, ips |-> addrs, told |-> "good",
             replies |-> <<>>]]
       /\ shared' = (shared \ wanted) \union {h \in wanted : Contended(h)}
       /\ settled' = [h \in Host |-> IF h \in wanted THEN {} ELSE settled[h]]
  /\ live' = live \union {u}
  /\ UNCHANGED <<addresses, text, late, query, seen>>

\* One name has its part of the answer; on with the next, whatever it was.
NextHost(u, reply) ==
  LET r == update[u] IN
  update' = [update EXCEPT
    ![u].replies = Append(r.replies, reply), ![u].told = "good",
    ![u].at = IF Len(r.replies) + 1 < Len(r.hosts) THEN "compare" ELSE "reply"]

Reject(u) ==
  /\ update[u].at = "compare" /\ Current(u) \notin Host
  /\ NextHost(u, "notfqdn")
  /\ UNCHANGED <<addresses, text, late, query, live, history>>

\* Mutant: hostnameRegexp accepts underscores.
Compare_AnyName(u) ==
  /\ update[u].at = "compare"
  /\ update' = [update EXCEPT ![u].at = "put"]
  /\ UNCHANGED <<addresses, text, late, query, live, history>>

\* Mutant: when the read fails the answer is "nochg".
Compare_FailedIsNoChange(u) ==
  /\ update[u].at = "compare" /\ Current(u) \in Host
  /\ update' = [update EXCEPT ![u].at = "put", ![u].told = "nochg"]
  /\ UNCHANGED <<addresses, text, late, query, live, history>>

\* Lists of addresses, compared as the sets they are.
HaveAddressesChanged(original, updated) == original # updated

\* A read that fails, or finds other addresses, is answered "good".
Compare(u) ==
  /\ update[u].at = "compare" /\ Current(u) \in Host
  /\ \E reply \in {"nochg", "good"} :
       /\ \/ reply = "nochg" /\ ~HaveAddressesChanged(addresses[Current(u)], update[u].ips)
          \/ reply = "good" /\ HaveAddressesChanged(addresses[Current(u)], update[u].ips)
          \/ reply = "good" /\ (IOMayFail \/ u \notin live)
       /\ update' = [update EXCEPT ![u].at = "put", ![u].told = reply]
  /\ UNCHANGED <<addresses, text, late, query, live, history>>

\* What the name of every running query has now.
Observe ==
  seen' = [q \in Query |->
    IF query[q].at = "idle" THEN seen[q]
    ELSE seen[q] \union {[addresses |-> addresses'[query[q].name],
                          text |-> text'[query[q].name]]}]

\* Mutant: the write is left to a goroutine and the request answered at once.
Stored_Later(u) ==
  /\ update[u].at = "put" /\ Cardinality(late) < MaxLate
  /\ NextHost(u, "stored")
  /\ late' = late \union {[host |-> Current(u), ips |-> update[u].ips]}
  /\ settled' = [settled EXCEPT ![Current(u)] =
                   IF Current(u) \in shared THEN @ ELSE update[u].ips]
  /\ UNCHANGED <<addresses, text, query, live, shared, seen>>

\* Addresses are written whether or not they have changed.  FileDatabase.putFile
\* writes nothing when the context has ended, of which v1update may not be told.
Stored(u) ==
  LET h == Current(u) IN
  /\ update[u].at = "put"
  /\ NextHost(u, "stored")
  /\ IF u \in live
       THEN /\ addresses' = [addresses EXCEPT ![h] = update[u].ips]
            /\ settled' = [settled EXCEPT ![h] = IF h \in shared THEN @ ELSE update[u].ips]
       ELSE UNCHANGED <<addresses, settled>>
  /\ UNCHANGED <<text, late, query, live, shared>>
  /\ Observe

\* Mutant: v1update returns at the first error.
NotStored_Returns(u) ==
  /\ update[u].at = "put" /\ (IOMayFail \/ u \notin live)
  /\ update' = [update EXCEPT ![u].at = "reply",
                              ![u].replies = Append(@, "dnserr")]
  /\ UNCHANGED <<addresses, text, late, query, live, history>>

NotStored(u) ==
  /\ update[u].at = "put" /\ (IOMayFail \/ u \notin live)
  /\ NextHost(u, "dnserr")
  /\ UNCHANGED <<addresses, text, late, query, live, history>>

\* The context ends between the look at it and the rename.
Outlived(u) ==
  /\ update[u].at = "put" /\ u \in live /\ Cardinality(late) < MaxLate
  /\ late' = late \union {[host |-> Current(u), ips |-> update[u].ips]}
  /\ live' = live \ {u}
  /\ NextHost(u, "dnserr")
  /\ UNCHANGED <<addresses, text, query, history>>

LateWrite(w) ==
  /\ w \in late
  /\ late' = late \ {w}
  /\ addresses' = [addresses EXCEPT ![w.host] = w.ips] \/ UNCHANGED addresses
  /\ UNCHANGED <<text, update, query, live, shared, settled>>
  /\ Observe

Return(u) ==
  /\ update[u].at = "reply"
  /\ update' = [update EXCEPT ![u] = NoUpdate]
  /\ live' = live \ {u}
  /\ UNCHANGED <<addresses, text, late, query, history>>

---------------------------------------------------------------------------
(* Queries.                                                                *)

\* A question, and the first of DoesDomainExist's two reads.
Ask(q) ==
  /\ query[q].at = "idle"
  /\ \E n \in Name, t \in {"A", "AAAA", "TXT", "other"} :
       /\ query' = [query EXCEPT ![q] =
            [at |-> "text", name |-> n, type |-> t, exists |-> addresses[n] # {},
             answer |-> None]]
       /\ seen' = [seen EXCEPT ![q] = {[addresses |-> addresses[n], text |-> text[n]]}]
  /\ UNCHANGED <<addresses, text, late, update, live, shared, settled>>

LookForText(q) ==
  /\ query[q].at = "text"
  /\ query' = [query EXCEPT ![q].at = "fetch",
                            ![q].exists = @ \/ text[query[q].name] # None]
  /\ UNCHANGED <<addresses, text, late, update, live, history>>

\* The records of a type among what a name has: getARecords and its like.
RecordsOf(type, content) ==
  CASE type = "A"     -> content.addresses \intersect V4
    [] type = "AAAA"  -> content.addresses \ V4
    [] type = "TXT"   -> {content.text} \ {None}
    [] type = "other" -> {}

\* The one read of what was asked for, and the answer: with no record of the type it
\* is NXDOMAIN if the name was not found to exist before.
Fetch(q) ==
  LET n == query[q].name
      found == RecordsOf(query[q].type, [addresses |-> addresses[n], text |-> text[n]])
  IN
  /\ query[q].at = "fetch"
  /\ query' = [query EXCEPT ![q].at = "reply", ![q].answer =
       [nxdomain |-> found = {} /\ ~query[q].exists, records |-> found]]
  /\ UNCHANGED <<addresses, text, late, update, live, history>>

\* A read fails, or the context ends, after a second: the reply is left empty, and not authoritative.
GiveUp(q) ==
  /\ query[q].at \in {"text", "fetch"}
  /\ query' = [query EXCEPT ![q].at = "reply"]
  /\ UNCHANGED <<addresses, text, late, update, live, history>>

\* WriteMsg.
Reply(q) ==
  /\ query[q].at = "reply"
  /\ query' = [query EXCEPT ![q] = NoQuery]
  /\ seen' = [seen EXCEPT ![q] = {}]
  /\ UNCHANGED <<addresses, text, late, update, live, shared, settled>>

---------------------------------------------------------------------------
(* Contexts, conversations with the CA, and the process.                   *)

\* v1update has ten seconds.
EndContext(u) ==
  /\ update[u].at \in {"compare", "put"} /\ u \in live
  /\ live' = live \ {u}
  /\ UNCHANGED <<addresses, text, late, update, query, history>>

\* dbTxtHandler puts or deletes the text of a challenge; errors are only printed.
ChangeText(n, value) ==
  /\ text' = [text EXCEPT ![n] = value]
  /\ UNCHANGED <<addresses, late, update, query, live, shared, settled>>
  /\ Observe

\* The process is started again; the files remain.
Crash ==
  /\ late' = {} /\ live' = {}
  /\ update' = [u \in Update |-> NoUpdate] /\ query' = [q \in Query |-> NoQuery]
  /\ seen' = [q \in Query |-> {}]
  /\ UNCHANGED <<addresses, text, shared, settled>>

UpdateStep(u) ==
  Reject(u) \/ Compare(u) \/ Stored(u) \/ NotStored(u) \/ Outlived(u) \/ Return(u)
QueryStep(q) ==
  LookForText(q) \/ Fetch(q) \/ GiveUp(q) \/ Reply(q)

Next ==
  \/ \E u \in Update : Receive(u) \/ UpdateStep(u) \/ EndContext(u)
  \/ \E w \in late : LateWrite(w)
  \/ \E q \in Query : Ask(q) \/ QueryStep(q)
  \/ \E n \in ChallengeName, value \in Token \union {None} : ChangeText(n, value)
  \/ Crash

Spec == Init /\ [][Next]_vars

---------------------------------------------------------------------------
(* What the updates and the queries promise.                               *)

\* An update that no other update of the host and no late write of an earlier one
\* has met, and that was told its addresses are stored before its context had ended,
\* finds them stored, and they stay until the next update.
AckedIsStored == \A h \in Host : settled[h] # {} => addresses[h] = settled[h]

\* An update is told that nothing changes only if that is so; between two that
\* overlap it may be otherwise.
NoChangeIsTrue ==
  \A u \in Update : update[u].at = "put" /\ update[u].told = "nochg" =>
    Current(u) \in shared \/ addresses[Current(u)] = update[u].ips

\* Although processQuery reads three times while updates and challenges write, an
\* answer was true at some moment of the query: its records are all those of the
\* type that the name had then, and NXDOMAIN means that it had none of any type.
AnswerWasTrue ==
  \A q \in Query : query[q].answer # None =>
    LET a == query[q].answer IN
    /\ \E c \in seen[q] : a.records = RecordsOf(query[q].type, c)
    /\ a.nxdomain => \E c \in seen[q] : c.addresses = {} /\ c.text = None

\* Each name of an update gets its part of the answer, whatever has failed for those
\* before it, and "notfqdn" goes to those and only those that are not host names.
EveryNameAnswered ==
  \A u \in Update : update[u].at = "reply" =>
    /\ Len(update[u].replies) = Len(update[u].hosts)
    /\ \A i \in DOMAIN update[u].hosts :
         update[u].replies[i] = "notfqdn" <=> update[u].hosts[i] \notin Host
=============================================================================
