# A verification of alley-oop

alley-oop is a dynamic DNS server that also obtains TLS certificates for the
hosts it manages. This directory holds TLA+ models of its stateful parts, TLC
configurations that check them on small instances, and TLAPS proofs of theorems
that hold for every instance. Source lines are those of `src/src/*.go` and
`src/src/autocert/*.go`.

## 1. The system

| part | source | state | operations | interacts with |
|---|---|---|---|---|
| certificate manager | `autocert/autocert.go` | `m.state` (map of `certState`, each with a lock), `m.renewal`, `m.client`, challenge tokens | `GetCertificate` (one goroutine per TLS handshake), `cert`, `createCert`, removal timer of failed entries | cache, CA, renewal loops, DNS handler |
| renewal loops | `autocert/renewal.go` | per host: timer, key | timer callback `renew`, `do`, `updateState`; `start`, `stop` | `m.state`, cache, CA |
| ACME conversation | `autocert.go:667-1011` | orders at the CA; `certTokens`, `httpTokens`, TXT records | `verifyRFC`, `verify`, `fulfill`, cleanup, deactivation | CA, cache, database |
| ACME account | `autocert.go:1047-1122` | `m.client`, the account key in the cache | `acmeClient`, `accountKey` | cache, CA |
| DirCache | `autocert/cache.go` | files, temporary files | `Get`, `Put`, `Delete`, each with a goroutine of its own and a context | disk |
| FileDatabase | `filedb.go` | files for addresses, texts, certificates | `getFile`, `putFile`, `deleteFile` (as DirCache), typed accessors, `DoesDomainExist` | disk |
| MemoryDatabase | `memdb.go` | three maps under one lock | the same accessors | - |
| dynamic DNS API | `api.go` | none of its own | `v1update`, `v1certificate`, `v1privatekey`; `dbCertCache`, `dbTxtHandler` | database, certificate manager |
| DNS server | `dns.go` | none of its own | `processQuery` for A, AAAA, TXT | database |
| test CA | `autocert/internal/acmetest/ca.go` | authorizations, orders, addresses, one lock | ACME requests, `Resolve`, `validateChallenge` (a goroutine for each accepted challenge) | tests of autocert, the Manager under test |
| diagnostics | `diagnostics.go` | channels, a listener | `testTCPConnectivity`, which nothing calls | network |
| configuration, start | `main.go`, `cert.go` | - | `main` starts DNS and HTTP(S) | all |

The API and the DNS server share one `Database`. There are two `Manager`s over
the same database (`dbCertCache`), so certificates, the account key and challenge
tokens are files that both use:

* the one of `main` (main.go:51): its `HostPolicy` admits the name server's own
  name, it answers TLS handshakes and, through `HTTPHandler`, port 80, and it
  answers http-01 challenges. Its TLS port has no `acme.ALPNProto` in `NextProtos`
  (main.go:57), so no tls-alpn-01 challenge can succeed there;
* the one of `NewAPI` (api.go:292): without policy, it makes the certificates that
  `/v1/certificate` hands out, for any host, with tls-alpn-01 and dns-01. The
  tokens of its tls-alpn-01 challenges reach the TLS port through the cache only.

Handshakes and requests run `GetCertificate`, each in its own goroutine.

What is hard, and what correctness means:

* **Handshakes.** Several calls for one host must share one `certState`: one
  leads and talks to the CA, the others block on the object's read lock, which
  its maker took for writing. The lock must always have an owner bound to
  release it; a failed object must be removed, by a timer that fires a minute
  later on whatever entry is there then.
* **Renewal.** A certificate comes into `m.state` by three paths, and each has to
  leave exactly one renewal loop for the host, with the right key and expiry,
  although several Managers share a cache and adopt each other's keys.
* **Files.** An operation runs in a goroutine that outlives the caller's
  context. A write must be atomic through crashes, errors and canceled calls.
* **Challenges and account.** Tokens are keyed by domain only while flows for one
  domain may overlap, and their removal is asynchronous; the account key is a
  read-or-generate sequence over a shared cache.
* **Dynamic DNS.** Updates read, compare and write without a lock, one host after
  the other, while queries read in several steps. An acknowledged update has to
  last, an answer to have been true, and no host may fall out of the DNS.
* **Test CA.** Orders share authorizations, which goroutines validate and validate
  again; orders must only go forward, for a reason, and none may be left waiting.

`PROJECT.json` lists every hazard with its line and the properties that cover it.

## 2. Modules

| module | models |
|---|---|
| `CertManager` | handshakes, `m.state`, locks, failed entries, renewal loops, shared cache, restart |
| `MCCertManager` | its instances for TLC: maps of slots, symmetry, view |
| `CertManagerProofs` | theorems about `CertManager`: types, keys, locks, failed entries |
| `RenewalProofs` | theorems about `CertManager`: renewal in time, what a slot goes on serving |
| `Store` | abstract: what `Database` and `Cache` promise, a set of atomic registers |
| `FileDatabase` | the file operations of FileDatabase and DirCache; implements `Store` |
| `MCFileDatabase` | its instances for TLC |
| `FileDatabaseProofs` | theorems about `FileDatabase`, the refinement among them |
| `Challenges` | the flows of `authorizedCert`: orders, challenges, tokens and their removal, deactivation |
| `MCChallenges` | its instances for TLC: the two Managers, what authorizations offer |
| `ChallengesProofs` | theorems about `Challenges` |
| `AccountKey` | `acmeClient` and `accountKey` of Managers on one cache |
| `MCAccountKey` | its instances for TLC |
| `AccountKeyProofs` | theorems about `AccountKey` |
| `DynDNS` | updates, DNS queries and challenge texts over one database |
| `MCDynDNS`, `DynDNSProofs` | its instance for TLC, theorems about it |
| `TestCA` | the CA of autocert's tests |
| `MCTestCA`, `TestCAProofs` | its instance for TLC, theorems about it |

`CertManager` sees the conversation with the CA as one step; `Challenges` and
`AccountKey` are what goes on inside it. Both use the cache as `Store` describes
it, so that a write that outlives its context is a step of its own (`LateWrite`);
`DynDNS` does the same for addresses. `TestCA` stands by itself. Like it, the external CA
of `Challenges` may use an authorization again whatever its state (`Granted` with
`reuses`); unlike it, that CA validates an authorization once (`Validate`).

### CertManager

A *slot* is one entry of one Manager's maps: a (Manager, certKey) pair. `KeyOf`
gives its file in the cache (`certKey.String`), so two slots with one `KeyOf`
are two Managers that share a cache ("Multiple Managers can share the same
Cache", autocert.go:120). `heap` holds the `certState` objects, `state` the
pointers; an address is free when no map and no call refers to it, so reuse of
addresses is what a garbage collector does and never what a program sees.

| code | model |
|---|---|
| `GetCertificate`, `cert` | `Begin`, `LookupEntry` / `LookupCacheHit` / `LookupCacheMiss`, `ReadEntry`, `RejectHost`, `PutAndReturn` |
| `certState` | `FindState`, `MakeState` |
| `createCert` | `CheckLocked`, `TakeLead`, `ReadCreated`, `Authorized`, `AuthorizeFailed`, `Unlock`, `FatalUnlock` |
| the removal timer | `RemoveFailed` |
| `m.renew` | `StartRenewal`, for a goroutine in `spawned` |
| `domainRenewal.renew`, `do`, `updateState`, `next` | `FireRenewal`, `RenewalGet`, `RenewalAuthorized` / `RenewalFailed`, `RenewalPut`, `RenewalUpdate`, `NextDelay`, `RetryDelay` |
| a crash or restart of the process | `Restart` |

Sections under `stateMu`, `renewalMu` and `timerMu` are single actions: nothing
outside can see their middle (`m.cert` reads the cache inside `stateMu`, so
`LookupCacheHit` is one action). What is outside a lock is a step of its own,
above all the read of `state.locked` (autocert.go:589) and its reset (599). The
race on this flag has no further outcomes: a reader that sees an old value sees
what it would have seen had it run earlier, and the accesses before and after
are synchronised by `stateMu` and by the object's lock. The Go runtime ends a
process that unlocks an unlocked RWMutex, so `FatalUnlock` restarts it.

The conversation with the CA is one step, taken at its last moment, that
succeeds (`Issued`) or fails. `cacheGet` may return what is stored, a miss, or
an error; `dbCertCache` reports a miss also for a file it could not read
(api.go:247). `cachePut` has the outcomes that FileDatabase gives it (section 4): an error
although the file is written, no error although nothing is, and an error after which
the write goes on and takes effect later (`LateWrite`). A certificate is its public key
and its expiry; host names and NotBefore do not differ within a slot and are left out.
The CA chooses the validity of each certificate from `Lifetimes`: `validCert` asks only
that it has not expired.

The clock runs at any time. When a loop adopts a certificate, `next` is computed before
`updateState` (renewal.go:95) and the timer is set after it (:70), and in between
`updateState` waits for `stateMu`, which `m.cert` may hold over a cache read
(autocert.go:454-462). A renewal keeps the delay and the time it was computed at (`next`,
`asof`), and `RenewalInTime` allows the timer to be late by just that wait (`Waited`).

What the code promises about downgrades is less than one would wish: a loop's own renewal
takes what the CA issues, even if it expires earlier than what is served. `NoDowngrade`
says that this is the only exception, and bounds the loss by what the new certificate's
validity falls short of the renewal window; everything else, adoption above all,
replaces a certificate by one that lasts at least as long.

`Doomed` says that two calls lead on one object, or that a leader's object is
already unlocked: the process is certain to die in `FatalUnlock`. This is the
consequence of the finding `OneVerifier`. `RenewalInTime`, `NoDowngrade` and
`KeyStable` are promised as long as it is not so; everything else holds always.

### Store and FileDatabase

Each call has a caller (the goroutine that runs `getFile`, `putFile` or
`deleteFile`, or DirCache's `Get`, `Put` or `Delete`) and a worker (the goroutine
it starts). The caller leaves its `select` when the worker is done or its
context has ended; the worker always runs to its end. A put makes the directory
in the caller (`MakeDirectory`), then the worker writes a temporary file, looks
at the context (`CheckContext`) and renames (`RenameFile`). The one difference
between the two is that DirCache's put tries to remove its temporary file: `DirCacheName`
are the names of which this is so (`RemovesTemp`). File operations may fail (`IOMayFail`),
`os.Remove` of a temporary file among them, whose error DirCache ignores (cache.go:80, :128),
and the process may crash. `temp` is the temporary file of the call in progress; what a
crash or an ended call leaves on the disk has a name of its own that nobody reads, and
nothing is said about it. `applied` is a history variable for the refinement.

`Store` is the abstract register: an operation takes effect at most once, at one
moment after its call; one answered with an error may still take effect later;
a get answers what was stored at some moment of the call. A context that ends between
the look at it and the rename does not stop the rename, whatever the comment at
filedb.go:58 hopes for: the model has it, and `Store` allows it. `MemoryDatabase` is
this store with the effect under its lock. `FileDatabase` implements it
(`ImplementsStore`), with the file as the abstract content.

### Challenges

A flow is a goroutine inside `authorizedCert`, with its Manager, its domain and a
context that may end at any time. `Server` is the Manager whose ports the CA asks. An
element of `Flow` is used again for a later call when the goroutines that remove the
tokens of the one before have ended, so that `Flow` also bounds those.

| code | model |
|---|---|
| `authorizedCert` | `Start` |
| `verifyRFC` | `NewOrder` / `NewOrderFails`, `GetAuthz` with `PickChallenge` / `GiveUp`, `Fulfill`, `Accept`, `WaitAuthz`, `WaitOrder` |
| `verify` (`env.legacy`) | the same without `GetAuthz` answers and `WaitOrder` |
| `fulfill`, `putCertToken`, `putHTTPToken`, `putDNSToken` | `Put`: `PutMemory`, `PutStored`, `LateWrite` |
| the deferred cleanups, `deleteCertToken`, `deleteHTTPToken`, `deleteDNSToken` | `Return` starts them, `RunCleanup` is their goroutine |
| `deactivatePendingAuthz` | `Deactivate`, for each authorization |
| token branch of `GetCertificate`, `HTTPHandler`, `httpToken`, TXT records | `ServedTLS`, `ServedHTTP`, `Served` |
| a restart | `Crash`: memory is lost, cache and CA are not |

The CA (`Granted`, `Validate`) makes a new authorization for each order or uses one of
the domain again whose status is in `env.reuses`; the answer of an order may be lost after
that (`NewOrderFails`). It asks for a token when it likes after `Accept`. An
authorization has one domain, as `acme.DomainIDs(domain)` asks for. A Manager's
memory and the cache are changed under `challengeMu` in one step; the removal of
a token is one step too, which may come arbitrarily late.

`env`, chosen once, says what the world is like: whether the CA has orders, what its
authorizations offer and which of them it uses again, whether the TLS port agrees on
`acme.ALPNProto` (`alpn`), which hosts the HTTP port admits, whether CA or database fail.
`alpn` is false for the port of `main`: a token certificate is served there, but the CA
refuses it, and a flow has to come to another type. It is true for a server that uses
`Manager.TLSConfig`, which autocert.go:252 offers as the other way.

`AloneIsServed` says when a flow is safe: while no other flow and no removal or late
write of an earlier one for its domain is about. `alone` is the history variable
that records it, `hanging` the one that records which authorizations a failed
request or a crash has made the program forget. Without `alone` the property is
false, which the finding `EntryIsStored` shows.

### AccountKey

Calls of one Manager take turns under `clientMu`. `Read` is `dbCertCache.Get`: what
cannot be read is a miss. `Put` follows `putFile`: a context that has ended before
makes the worker skip the rename, whatever the caller is told; one that ends during
the write leaves the rename to come late (`LateWrite`), at most `MaxLate` times in
a behaviour (`delayed` counts them). Keys are abstract; a new one is a key that
nobody has (`FreshKey`). `Old` is what earlier processes may have left.

The account key is lost when a key other than the registered one is stored. The
model shows how often that can be (`FewAccountsLost`): Managers that race for the key
lose one account less than there are Managers, over all restarts, and each write
that outlives its context costs one more, since it may replace the key that
the next call has stored and registered. One Manager by itself loses none, although
a context that ends turns a read into a miss: the write that would overwrite the
stored key is then skipped for the same reason. All this takes a disk that can be
read (`~ReadMayFail`); with one that cannot, nothing is promised (finding
`MissIsAbsent`).

### DynDNS

An update is a goroutine in `v1update` with a context of ten seconds; a query one in
`processQuery`. Lists of addresses are sets (`haveAddressesChanged` compares them as
such). Names are hosts, which `hostnameRegexp` accepts, and those of challenges, which
begin with an underscore and which it refuses; so addresses and texts never meet
under one name.

| code | model |
|---|---|
| `v1update`: form, limits, addresses | `Receive`, whose guards are the checks of the number of names and addresses; requests refused before the loop touch no state |
| one turn of its loop | `Reject`, or `Compare` then `Stored` / `NotStored` / `Outlived` (the context ends while the write runs) |
| the end of the request | `Return` |
| the goroutine of a `putFile` whose caller has gone | `LateWrite` |
| `processQuery` | `Ask` and `LookForText` (the two reads of `DoesDomainExist`), `Fetch`, `GiveUp` |
| `getHandler` | `Reply` |
| `dbTxtHandler` | `ChangeText`, one atomic change, whoever makes it |
| a restart | `Crash` |

A put whose context has ended before the worker looks at it writes nothing, and the
caller may be told either (finding `AckedIsWritten`): `Stored` of an update that is not
`live` answers "stored" and changes nothing. An update is answered name by name
(`replies`); `told` is the "nochg" or "good" that was written before the put.

`settled` records what an update has been told is stored, from then until the next
update of the host; `shared` the hosts whose last update has overlapped with another or
with a late write of an earlier one, about which nothing is promised; `seen` what the name
of a query had at each moment of it. With these the properties say what concurrent
clients can rely on. `AnswerWasTrue` rests on a fact about the callers rather than on
the reads: the existence check and the fetch see different moments, and it is because
addresses and texts have separate names that each part of an answer was true at one.

### TestCA

| code | model |
|---|---|
| `new-order`, `new-authz`, `authz` | `NewOrder`, `NewAuthz`, `Authz` |
| accepting a challenge | `Accept`, which starts a validation |
| `validateChallenge`, `verifyALPNChallenge` | `Addr` and `Dial` without a lock across them, `Update` under `ca.mu`; `Updated` is what an order becomes |
| `new-cert`, `matchWhitelist`, `authorized`, `leafCert` | `NewCert`, `MatchWhitelist`, `Authorized` |
| `Resolve` | `Resolve` |

Requests that only read are not actions. A certificate is its serial number and its
names; a request without a name gets a certificate for the empty one. `judged`,
`proved` and `refused` are history: how many orders the last validation went through,
and which domains have ever been validated with which result.

## 3. Runs

| run | instance | checks |
|---|---|---|
| `MCAnswers` | 1 slot, 2 calls, 3 objects, 2 keys, lifetime 3, RenewBefore 2, clock to 1 (a renewal is due then), with fairness | `TypeOK`, `LockedHasOwner`, `FailedIsScheduled`, `KeyStable`, `CallReturns`, `FailedIsForgotten` |
| `MCTwoManagers` | 2 slots on one cache file that fails, of which one refuses the host, 1 call, a late write, lifetimes 5 and 6, clock to 4 | `KeysMatch`, `ServedIsRenewed`, `RenewalInTime`, `RefusedHostNeverBlocks`, `NoDowngrade`, `KeyStable` |
| `MCOneVerifier` | 1 slot, 3 calls | violation of `OneVerifier` |
| `MCFiles` | 2 calls, a name of FileDatabase and one of DirCache, 2 values, failing disk, with fairness | `TypeOK`, `ImplementsStore`, `CallerReturns` |
| `MCPutAcked` | 2 calls | violation of `AckedIsWritten` |
| `MCFlows` | 2 flows, 2 Managers, 1 domain, 2 authorizations, 4 environments | `TypeOK`, `AloneIsServed`, `TokensHaveCleanup`, `PendingIsRelinquished` |
| `MCFlowReturns` | 1 flow, 2 authorizations, requests fail, with fairness | `FlowReturns` |
| `MCEntryStored` | 2 flows, nothing fails | violation of `EntryIsStored` |
| `MCAccounts` | 2 Managers, one with 2 calls and one with 1, 5 keys, a write that outlives its context, writes and registrations fail, with fairness | `TypeOK`, `FewAccountsLost`, `CallReturns` |
| `MCMissIsAbsent` | 1 Manager, 2 calls, reads fail | violation of `MissIsAbsent` |
| `MCDynDNS` | 2 updates (of a host, or a host and a challenge name), 1 query, an IPv4 and an IPv6 address, a late write, a failing disk | `TypeOK`, `AckedIsStored`, `NoChangeIsTrue`, `AnswerWasTrue`, `EveryNameAnswered` |
| `MCTestCA` | 2 domains, 2 orders, 2 validations, 3 serial numbers | `TypeOK`, `JudgedByValidation`, `CertificatesGood`, `PendingIsOpen`, `OrdersGoForward` |

**Bounds.** Two calls make a leader and a follower, and a call that comes back late;
what a third might add to the locks and timers is covered by the proofs, which are for
any number. An object more than calls plus slots leaves one for `updateState`. Keys are
generated fresh; three cover the entry, the cache and a new object (two where the cache does not fail), and an action that
needs a fresh key waits when there is none. `Lifetimes`, `RenewBefore` and `RenewJitter`
are in units of renewJitter (an hour); the smallest values with `RenewBefore >
RenewJitter` are used. A certificate of lifetime 6 is the shortest that one Manager
adopts from another (more than `RenewBefore + RenewJitter` left after RenewBefore), and
one of 5 expires earlier, so that renewals may make things worse. In `MCTwoManagers` the
clock goes to 4, when the renewals of both are due: each Manager finds what the
other has renewed at 3 or 4, or fails and tries again. In `MCAnswers` it only reaches the
first renewal: what is about liveness needs no more. Neither run reaches the expiry of a
certificate, which multiplies the states; the theorems of section 5 have it, as they have any
lifetimes and any time. `MaxTime`, `MaxLate` (late writes at one time in `CertManager`
and `DynDNS`, in all in `AccountKey`), `MaxOrders` and `MaxCerts` are the only bounds in guards.

In `DynDNS` two updates are one and its rival or its successor; a query is not
affected by another one; a host and a challenge name make a list with a refused name, so
that an update goes on after one; one host is enough since hosts share nothing but the
order of a list, and the proofs cover any lists. Address lists of one family make A and
AAAA answers differ. In `TestCA` two orders may share none, one or both domains, two
validations race on one domain or work on two, and a third serial number leaves one
certificate that fails after it has taken its number.

In `Challenges` two flows are one and its rival, or one and its predecessor; with two
authorizations a flow orders again once and meets a valid authorization; a second domain
would only add flows that share nothing. `AnyEnvironment` are a CA whose requests fail,
a database that fails, a CA without orders together with an HTTP port that refuses
the host, and a CA that uses every authorization again, be it pending, valid or invalid;
the first two have the TLS port of `main`, the others one that agrees on `acme.ALPNProto`.
`FewOffers` and `NoFailure` are smaller choices. In `AccountKey` the keys are
as many as may be in use at one time (the two stored, one for each Manager that makes
one, those registered), so that `FreshKey` never runs out.

**Symmetry and view.** Addresses, keys and calls (requests, names and values) are
interchangeable; no liveness run uses symmetry. The view of `MCCertManager`
hides the contents of free addresses and what an idle call was about, that of
`MCChallenges` what has become of authorizations that are neither pending nor may be
used again; no action reads it. `MCDynDNS` and `MCTestCA` have the symmetry of updates and of validations.

**Deadlock** is checked for `FileDatabase`, `Challenges`, `AccountKey` and `DynDNS` (whose
processes may always crash, so it says little there) and for `TestCA` (where `Resolve`
is always possible); `CertManager` stops at `MaxTime` or
when it has used its keys, so its cfgs say `CHECK_DEADLOCK FALSE`.

**Fairness.** `CertManager`: goroutines that can run do run, due timers fire, and the
conversation with the CA ends, since its context has a deadline (autocert.go:282,
renewal.go:62). Nobody is forced to connect, and neither the CA nor the cache to
succeed. `FileDatabase`: callers run, no more; the worker has no fairness,
because a file operation may hang, neither has `MakeDirectory`, and a context need not
end: `CallerReturns` is about calls whose context has. `Challenges`: flows
run and their contexts end (5 minutes in `GetCertificate`, 10 in `renew`); the CA need
neither validate nor answer. `AccountKey`: calls run, requests and file operations end
with their contexts, and `clientMu` is given to each in turn, as `sync.Mutex` guarantees
(strong fairness of `Lock`). These three take it that a cache operation ends with
its context. `os.MkdirAll` does not (filedb.go:44), so the liveness properties of
`CertManager`, `Challenges` and `AccountKey` assume a disk that lets directories be made and,
for what is under `challengeMu`, files be deleted. `DynDNS` and `TestCA` state none and no liveness: a hung
disk or client may hold an update or a validation for ever, the latter because `tls.Dial` has no
timeout.

## 4. Findings

* `OneVerifier` (autocert.go:589). Between `certState` returning a new object and
  its maker clearing `locked`, another call may get the object and also read
  `locked` true. Both verify the host and both unlock; the second Unlock is a
  fatal error. The comment at line 579 promises that one waits for the other.
* `AckedIsWritten` (filedb.go:64, the same in cache.go:90). A put whose context
  ended before the rename may return nil: the worker leaves `err` nil, and when
  both cases of the select are ready either is taken.
* `EntryIsStored` (autocert.go:944). `certTokens` is keyed by the domain, and the
  removal of one flow's token removes whatever is there: line 206 promises that
  entries are stored for the duration of their flow.
* `MissIsAbsent` (api.go:249). `dbCertCache.Get` reports a failed read as
  `ErrCacheMiss`, which cache.go:15 reserves for certificates that are not found;
  a new account key is made although one is stored.

Met while modelling, without a run of their own:

* The TLS port of `main` can never complete a tls-alpn-01 validation (main.go:57):
  autocert.go:252 says that users of `GetCertificate` "will also have to add
  acme.ALPNProto to NextProtos for tls-alpn-01, or use HTTPHandler for http-01". `main` does
  the second, but both Managers still try tls-alpn-01 first, each time at the cost of an
  authorization, and the one of `NewAPI` has dns-01 to go on with.
* A renewal never asks `HostPolicy` (renewal.go:110), also for a certificate that was only
  loaded from the shared cache, although autocert.go:128 says it "is called before
  requesting a new cert". `MCTwoManagers` has such renewals.
* Two overlapping updates of a host may both be told `nochg` or `good` and one of them find
  the other's addresses; `shared` excludes them from the properties.
* An answer to a TXT query that races with the removal of a challenge may be NODATA for a
  name that is gone, and a query whose read fails is sent an empty reply with
  no error code (dns.go:162).
* The test CA leaves an order pending that is made when all its authorizations are
  valid, although ca.go:469 says it "becomes "ready" if all authorizations are "valid""; it
  waits for another validation. A ready order may become impossible to finalize when an
  authorization is validated again and fails, and the names of the request are not
  compared with those of the order.

## 5. Proofs

For every value of the constants, from the assumptions the modules name
(`ConstantsOK`, `DistinctResults`, `AccountConstants`):

* `TypeOKAlways`, from the inductive `TypeInv == TypeOK /\ Shape`. Types alone are
  not inductive: a call that leads needs an object with a key, a renewal that is
  about to store a certificate needs one. `Shape` says which place of a program
  has what.
* `KeysMatchAlways`: inductive with `TypeInv`; each action that makes a pair takes
  key and certificate from one pair or has the CA sign that key.
* `LockedHasOwnerAlways`: inductive with `TypeInv`; the step that matters is
  `Unlock`, which releases the object it owned, and `CheckLocked`, which turns the
  maker into a leader.
* `FailedIsScheduledAlways`: needs `OwnSlotAlways` (a call works on the entry of
  its own slot, so the timer it sets is that slot's).
* `ServedIsRenewedAlways`: each of the three paths into `m.state` starts a
  goroutine or comes from a loop, and a loop never ends.
* `FilesImplementStore`: `Init` and every step map to the abstract store, one
  action at a time, using `Places`, the inductive invariant about where caller and
  worker are. `PlacesCorrect` proves it.
* `RefusedHostNeverBlocksAlways`: inductive with the types is `RefusedInv`, which adds that
  only calls that the policy has let pass come to the places of `createCert`, where
  locks are taken and removal timers set.
* `TokensHaveCleanupAlways` (`Challenges`): the inductive `TokenInv` adds that what is in
  `certTokens` are tls-alpn-01 tokens. A flow notes its removal in the step that puts the
  token, and only the removal of that very record is allowed to forget it.
* `PendingIsRelinquishedAlways`: inductive with the types; `Known` are the authorizations that are
  in the list of a running flow, to be deactivated, or `hanging`, and no step drops one
  that is pending.
* `AnswerWasTrueAlways` (`DynDNS`): `Observed` says that what a query has read is in `seen`,
  and that a name that was found not to exist had no addresses, or no text, at a moment
  of the query; names that can have only one of them close the gap between the reads.
* `AckedIsStoredAlways`, `NoChangeIsTrueAlways`: `HostKept` says that a host that
  is not `shared` has at most one running update, whose own late write is the only one beside
  it, and that whoever may still write to a host with a `settled` value writes that value.
* `EveryNameAnsweredAlways`: `AnsweredSoFar`, the same for the names before the current one.
* `OrdersGoForwardAlways` (`TestCA`): a fact about `Updated` and `NewCert`, given the types.
  `JudgedByValidationAlways` and `CertificatesGoodAlways` rest on `VerdictsOK` (a valid
  authorization is of a domain in `proved`, an invalid one in `refused`) and `LeavesOK` (serial numbers
  are at most `certCount` and differ). `PendingIsOpenAlways`: each `Update` restores it for all
  orders there are, and nothing else changes an authorization that has been made.
* `OneManagerLosesNone` (`AccountKey`): one Manager, reads that do not fail and no late
  writes keep every account's key stored (`RegisteredIsStored`). The inductive invariant
  `Kept` (`KeptAlways`) adds what a call that holds `clientMu` knows while its context has
  not ended (`HolderKnows`): nothing is stored when it is about to store, and what it is
  about to register is stored. `TypeOK` says that only one call is there at a time
  (`OneHolder`).

### Renewal in time, no downgrade, stable keys

`RenewalInTimeAlways`, `NoDowngradeAlways` and `KeyStableAlways` (`RenewalProofs`) are about
one fact: from the moment a slot has a certificate, its renewal loop works on that one.
They follow from `OrderlyOrDoomed`, which the module `CertManager` defines in three parts.

* `CreationOK`: a call that leads works on its slot's entry, which has no certificate, and
  a call that still finds `locked` set will be the first to lead. Without it the completion of
  `createCert` might replace what a renewal has put there. It is what the finding `OneVerifier`
  breaks, hence the `Doomed` alternative; `DoomedStays` shows that once two calls lead
  they stay so until the process dies, and `LeadersApart` that otherwise each leader has
  an object of its own.
* `RemovalsOK`: a removal timer is set once, for an entry that has failed and that nobody
  leads on. Without it the timer might remove an entry that a second attempt has filled.
* `LoopOK(s)`: the loop of slot `s`, or the goroutine about to start it, has the key and the expiry
  of the entry. Adoption is where this is hard: the loop takes another Manager's certificate
  only if more than `RenewBefore + RenewJitter` is left, so the expiry of the entry
  has to be below that bound when the timer fires, which is the conjunct about `due`:
  a timer is never set so early that a certificate it finds could be older than the one served.
  While it adopts, the delay it has computed is right for the time it was computed at
  (`asof`), however long `updateState` waits.

Most
steps disturb one slot; `EntryKept` and `LoopLeftAlone` are the frame lemmas that say which
parts of the state the conjuncts of a slot depend on, and `DelayBounds` and `ArmedInTime` what
`next` computes. `OrderlyStep` goes through the actions.

### A flow that is alone is served

`AloneIsServedAlways` (`ChallengesProofs`) rests on `TokenInv` and on `AloneInv`:

* `OwnTokens`: what a flow works on and has deferred is about its own domain, and a token
  keeps the domain of the authorization it was made for. Authorizations never change
  their names (`NamesStay`).
* `LeftAlone`: if `alone[f]`, no other flow, no removal and no late write is about the domain,
  but a write of `f` itself, and then `f` is on its way out with its context ended.
* `ServedInTime`: the property together with the step before it, where the token has been put
  and the CA has not been told. It is needed since `Accept` changes nothing that is served.

`ServedElsewhere` shows that a step about another domain changes no answer of this one,
`PutServes` that `fulfill` makes the right one. A Manager other than `Server` is served through the
cache, which is why the removals and late writes of all Managers matter.

### Few accounts are lost

`FewAccountsLostAlways` (`AccountKeyProofs`), for any finite number of Managers, calls and
late writes, if reads do not fail, is an argument by counting. `KeysInv` says, once a key is stored,

    |Forsaken| + |Unaware| + |late| < |Manager| + |delayed|

`Forsaken` are keys of accounts, or about to be, that are not stored; `Unaware` the Managers
in which a call has found no key and may store its own; `late` the writes that may yet overwrite it.
A step that overwrites a key forsakes at most that one and takes away an unaware Manager or a late
write (`CountOverwritten`); a write that outlives its context adds one to `late` and to
`delayed` (`CountDelayed`); and nobody becomes unaware while a key is stored, since a
read that misses it belongs to a call whose context has ended. The first key is what makes
the inequality strict: its writer has left `Unaware` and nothing was forsaken.
`NewKeysOK` keeps new keys apart, so that a late write is counted once.

These strengthenings (`OrderlyOrDoomed`, `AloneInv`, `KeysInv`) are not in
the cfgs, since the theorems say more; TLC finds them true as `INVARIANT`s of
`MCTwoManagers`, `MCAnswers` and `MCOneVerifier`, of `MCFlows`, and of `MCAccounts`.

### What is only model-checked

Every invariant, action property and refinement of the runs is a theorem. The liveness
properties (`CallReturns` of `CertManager` and of `AccountKey`, `FailedIsForgotten`, `CallerReturns`,
`FlowReturns`) need fairness and `ENABLED` and are beyond the prover: TLC checks them on the
instances above. The theorems hold for the models, whose data is abstract; no recursive
function of the code is modelled.

## 6. Not modelled, and the plan

Not modelled: PEM, DER, GOB and TLS formats, HTTP routing and basic
authentication (no state); `testTCPConnectivity` in `diagnostics.go`, which nothing calls;
`listener.go`, which alley-oop does not use; configuration and start.

What is left for later is `CertRules`: `validCert` and `supportsECDSA` as operators
against reference definitions.
