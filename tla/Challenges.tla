----------------------------- MODULE Challenges -----------------------------
(***************************************************************************)
(* The conversation with the CA inside authorizedCert: flows that order an *)
(* authorization, answer one challenge type after the other, wait for the  *)
(* CA, and leave removal of their tokens and of hanging authorizations to  *)
(* goroutines of their own.  Several flows may run for one domain: for an  *)
(* ECDSA and an RSA certificate, for creation and renewal, or in the two   *)
(* Managers of alley-oop, which share the cache.  The CA is external.      *)
(***************************************************************************)
EXTENDS Naturals, Sequences

CONSTANTS
  Flow,           \* goroutines that run authorizedCert
  Manager,
  Server,         \* the Manager that the TLS and HTTP ports ask for tokens
  Types,          \* supportedChallengeTypes of each Manager
  Domain,
  Authz,          \* authorizations the CA may create
  Environments,   \* what surroundings the program may run in
  None

Type == {"tls-alpn-01", "http-01", "dns-01"}
Token == [authz : Authz, type : Type]       \* the answer to one challenge
Cleanup == [flow : Flow, mgr : Manager, dom : Domain, tok : Token]
Status == {"none", "pending", "valid", "invalid", "deactivated"}

Environment ==
  [legacy : BOOLEAN,              \* the directory has no OrderURL: verify
   offers : SUBSET SUBSET Type,   \* challenge types an authorization may offer
   reuses : SUBSET {"pending", "valid", "invalid"},
                                  \* what authorizations the CA uses again
   alpn : BOOLEAN,                \* the TLS port has acme.ALPNProto in NextProtos
   allowed : SUBSET Domain,       \* what the HostPolicy of the Server accepts
   caFails : BOOLEAN,             \* requests to the CA and validations may fail
   storeFails : BOOLEAN]          \* writes of cache and database may fail

ASSUME ChallengeConstants ==
  /\ Server \in Manager /\ Types \in [Manager -> Seq(Type)]
  /\ Environments \subseteq Environment
  /\ None \notin Manager /\ None \notin Domain /\ None \notin Authz
  /\ None \notin Token

VARIABLES
  env,            \* the surroundings, which do not change
  pc, mgr, dom,   \* where each flow is, its Manager and its domain
  live,           \* its context has not ended
  next,           \* nextTyp, the next challenge type to try
  cur, chal,      \* its authorization, and the challenge it has picked
  cleanups, urls, \* deferred: tokens to remove, authorizations to relinquish
  certTokens,     \* m.certTokens
  httpTokens,     \* m.httpTokens, whose paths are the tokens themselves
  cachedCert,     \* token certificates in the shared cache
  cachedHTTP,     \* http-01 tokens in the shared cache
  txt,            \* TXT record of _acme-challenge for each domain
  cleaning,       \* goroutines that remove a token
  late,           \* writes of tokens that go on after their context has ended
  deactivating,   \* authorizations that deactivatePendingAuthz has yet to visit
  status, offers, \* the CA's view of each authorization
  accepted, names,
  alone,          \* history: no other flow or removal has touched its domain
  hanging         \* history: authorizations that a failure made us forget

flowData == <<mgr, dom, live, next, cur, chal, cleanups, urls, alone>>
flowVars == <<pc, flowData>>
tokenVars == <<certTokens, httpTokens, cachedCert, cachedHTTP, txt>>
caVars == <<status, offers, accepted, names>>
laterVars == <<cleaning, late, deactivating, hanging>>
stateVars == <<flowVars, tokenVars, caVars, laterVars>>
vars == <<stateVars, env>>

PC == {"idle", "order", "authz", "fulfill", "accept", "wait", "finish"}

TypeOK ==
  /\ env \in Environments
  /\ pc \in [Flow -> PC]
  /\ mgr \in [Flow -> Manager \union {None}]
  /\ dom \in [Flow -> Domain \union {None}]
  /\ live \in [Flow -> BOOLEAN] /\ alone \in [Flow -> BOOLEAN]
  /\ cur \in [Flow -> Authz \union {None}]
  /\ chal \in [Flow -> Token \union {None}]
  /\ cleanups \in [Flow -> SUBSET Cleanup]
  /\ urls \in [Flow -> SUBSET Authz]
  /\ certTokens \in [Manager -> [Domain -> Token \union {None}]]
  /\ httpTokens \in [Manager -> SUBSET Token]
  /\ cachedCert \in [Domain -> Token \union {None}]
  /\ cachedHTTP \subseteq Token
  /\ txt \in [Domain -> Token \union {None}]
  /\ cleaning \subseteq Cleanup /\ late \subseteq Cleanup
  /\ deactivating \subseteq Authz /\ hanging \subseteq Authz
  /\ status \in [Authz -> Status]
  /\ offers \in [Authz -> SUBSET Type] /\ accepted \in [Authz -> SUBSET Type]
  /\ names \in [Authz -> Domain \union {None}]
  /\ next \in [Flow -> Nat]
  /\ \A f \in Flow : pc[f] = "idle" => next[f] = 1
  /\ \A f \in Flow : pc[f] # "idle" =>
       /\ mgr[f] # None /\ dom[f] # None
       /\ next[f] \in 1 .. Len(Types[mgr[f]]) + 1
       /\ pc[f] # "order" => cur[f] # None
       /\ pc[f] \in {"fulfill", "accept", "wait"} => chal[f] # None

Init ==
  /\ env \in Environments
  /\ pc = [f \in Flow |-> "idle"]
  /\ mgr = [f \in Flow |-> None] /\ dom = [f \in Flow |-> None]
  /\ live = [f \in Flow |-> FALSE] /\ alone = [f \in Flow |-> FALSE]
  /\ next = [f \in Flow |-> 1]
  /\ cur = [f \in Flow |-> None] /\ chal = [f \in Flow |-> None]
  /\ cleanups = [f \in Flow |-> {}] /\ urls = [f \in Flow |-> {}]
  /\ certTokens = [m \in Manager |-> [d \in Domain |-> None]]
  /\ httpTokens = [m \in Manager |-> {}]
  /\ cachedCert = [d \in Domain |-> None]
  /\ cachedHTTP = {}
  /\ txt = [d \in Domain |-> None]
  /\ cleaning = {} /\ late = {} /\ deactivating = {} /\ hanging = {}
  /\ status = [a \in Authz |-> "none"]
  /\ offers = [a \in Authz |-> {}] /\ accepted = [a \in Authz |-> {}]
  /\ names = [a \in Authz |-> None]

---------------------------------------------------------------------------
(* Flows.                                                                  *)

Goto(f, label) == pc' = [pc EXCEPT ![f] = label]

\* A request to the CA fails when its context has ended, and may fail anyway.
CAErrs(f) == env.caFails \/ ~live[f]

\* A flow ends, well or not: its deferred calls start their goroutines.
Return(f, authzURLs) ==
  /\ Goto(f, "idle")
  /\ cleaning' = cleaning \union cleanups[f]
  /\ deactivating' = deactivating \union authzURLs
  /\ mgr' = [mgr EXCEPT ![f] = None] /\ dom' = [dom EXCEPT ![f] = None]
  /\ live' = [live EXCEPT ![f] = FALSE] /\ alone' = [alone EXCEPT ![f] = FALSE]
  /\ next' = [next EXCEPT ![f] = 1]
  /\ cur' = [cur EXCEPT ![f] = None] /\ chal' = [chal EXCEPT ![f] = None]
  /\ cleanups' = [cleanups EXCEPT ![f] = {}] /\ urls' = [urls EXCEPT ![f] = {}]
  /\ UNCHANGED late

\* A call takes a slot whose own goroutines have ended.
Start(f, m, d) ==
  /\ pc[f] = "idle"
  /\ \A k \in cleaning \union late : k.flow # f
  /\ Goto(f, "order")
  /\ mgr' = [mgr EXCEPT ![f] = m] /\ dom' = [dom EXCEPT ![f] = d]
  /\ live' = [live EXCEPT ![f] = TRUE]
  /\ alone' = [g \in Flow |->
       IF g = f THEN /\ \A h \in Flow \ {f} : dom[h] # d
                     /\ \A k \in cleaning \union late : k.dom # d
                ELSE alone[g] /\ dom[g] # d]
  /\ UNCHANGED <<next, cur, chal, cleanups, urls, tokenVars, caVars, laterVars>>

\* The context's deadline passes.
EndContext(f) ==
  /\ pc[f] # "idle" /\ live[f]
  /\ live' = [live EXCEPT ![f] = FALSE]
  /\ UNCHANGED <<pc, mgr, dom, next, cur, chal, cleanups, urls, alone,
                 tokenVars, caVars, laterVars>>

\* The CA makes an authorization for the domain, or uses one again.
Granted(a, d) ==
  \/ /\ status[a] = "none"
     /\ \E types \in env.offers : offers' = [offers EXCEPT ![a] = types]
     /\ status' = [status EXCEPT ![a] = "pending"]
     /\ names' = [names EXCEPT ![a] = d]
     /\ UNCHANGED accepted
  \/ /\ status[a] \in env.reuses /\ names[a] = d
     /\ UNCHANGED caVars

\* Mutant: only the latest order's authorizations are relinquished.
AuthzURLs_LastOnly(f, a) == {a}

\* The authorizations to relinquish when the flow ends.
AuthzURLs(f, a) == urls[f] \union {a}

\* AuthorizeOrder, or Authorize of a legacy CA.  When the authorization is valid
\* already the order may be ready, when it is invalid the order may be so, and a
\* legacy flow has nothing left to do; an order in any other state than pending
\* ends the flow.
NewOrder(f) ==
  /\ pc[f] = "order" /\ live[f]
  /\ \E a \in Authz :
       /\ Granted(a, dom[f])
       /\ \/ /\ status[a] \in {"valid", "invalid"} \/ env.caFails
             /\ Return(f, AuthzURLs(f, a))
             /\ UNCHANGED hanging
          \/ /\ env.legacy => status[a] \notin {"valid", "invalid"}
             /\ Goto(f, "authz")
             /\ cur' = [cur EXCEPT ![f] = a]
             /\ urls' = [urls EXCEPT ![f] = AuthzURLs(f, a)]
             /\ UNCHANGED <<mgr, dom, live, next, chal, cleanups, alone, laterVars>>
  /\ UNCHANGED tokenVars

\* Mutant: a failed order is tried again, as a failed challenge is.
NewOrderFails_Retries(f) ==
  /\ pc[f] = "order" /\ CAErrs(f)
  /\ UNCHANGED stateVars

\* ... or its answer is lost, and the flow never learns of the authorization.
NewOrderFails(f) ==
  /\ pc[f] = "order" /\ CAErrs(f)
  /\ Return(f, urls[f])
  /\ \/ UNCHANGED <<caVars, hanging>>
     \/ \E a \in Authz : Granted(a, dom[f]) /\ hanging' = hanging \union {a}
  /\ UNCHANGED tokenVars

\* Indexes of the types that have not been tried and that are offered.
Viable(f) == {i \in next[f] .. Len(Types[mgr[f]]) :
                Types[mgr[f]][i] \in offers[cur[f]]}

\* Mutant: the missing challenge is not noticed.
GiveUp_Unnoticed(f) ==
  /\ Viable(f) = {}
  /\ next' = [next EXCEPT ![f] = Len(Types[mgr[f]]) + 1]
  /\ Goto(f, "fulfill")
  /\ UNCHANGED <<mgr, dom, live, cur, chal, cleanups, urls, alone,
                 tokenVars, caVars, laterVars>>

\* Without a viable challenge the flow ends.
GiveUp(f) ==
  /\ Viable(f) = {}
  /\ Return(f, urls[f])
  /\ UNCHANGED <<tokenVars, caVars, hanging>>

\* The first viable challenge is picked, and never this type or one before it
\* again.
PickChallenge(f) ==
  \E i \in Viable(f) :
    /\ \A j \in Viable(f) : i <= j
    /\ next' = [next EXCEPT ![f] = i + 1]
    /\ chal' = [chal EXCEPT ![f] =
                  [authz |-> cur[f], type |-> Types[mgr[f]][i]]]
    /\ Goto(f, "fulfill")
    /\ UNCHANGED <<mgr, dom, live, cur, cleanups, urls, alone,
                   tokenVars, caVars, laterVars>>

\* GetAuthorization; a legacy flow has the authorization already.  Only a pending
\* one needs a challenge.
GetAuthz(f) ==
  /\ pc[f] = "authz"
  /\ \/ /\ env.legacy \/ (live[f] /\ status[cur[f]] = "pending")
        /\ PickChallenge(f) \/ GiveUp(f)
     \/ /\ ~env.legacy /\ live[f] /\ status[cur[f]] # "pending"
        /\ Goto(f, "finish")
        /\ UNCHANGED <<flowData, tokenVars, caVars, laterVars>>
     \/ /\ ~env.legacy /\ CAErrs(f)
        /\ Return(f, urls[f])
        /\ UNCHANGED <<tokenVars, caVars, hanging>>

---------------------------------------------------------------------------
(* Tokens.                                                                 *)

\* putCertToken and putHTTPToken: what a Manager keeps in memory.
PutMemory(m, d, tok) ==
  /\ certTokens' = IF tok.type = "tls-alpn-01"
                     THEN [certTokens EXCEPT ![m][d] = tok] ELSE certTokens
  /\ httpTokens' = IF tok.type = "http-01"
                     THEN [httpTokens EXCEPT ![m] = @ \union {tok}] ELSE httpTokens

\* Mutant: putCertToken and putHTTPToken do not use the cache.
PutStored_DNSOnly(d, tok) ==
  /\ txt' = IF tok.type = "dns-01" THEN [txt EXCEPT ![d] = tok] ELSE txt
  /\ UNCHANGED <<cachedCert, cachedHTTP>>

\* ... and what they and putDNSToken write to the database.
PutStored(d, tok) ==
  /\ cachedCert' = IF tok.type = "tls-alpn-01"
                     THEN [cachedCert EXCEPT ![d] = tok] ELSE cachedCert
  /\ cachedHTTP' = IF tok.type = "http-01" THEN cachedHTTP \union {tok} ELSE cachedHTTP
  /\ txt' = IF tok.type = "dns-01" THEN [txt EXCEPT ![d] = tok] ELSE txt

\* deleteCertToken and deleteHTTPToken.
DeleteMemory(m, d, tok) ==
  /\ certTokens' = IF tok.type = "tls-alpn-01"
                     THEN [certTokens EXCEPT ![m][d] = None] ELSE certTokens
  /\ httpTokens' = [httpTokens EXCEPT ![m] = @ \ {tok}]

\* ... and what they and deleteDNSToken delete from the database.
DeleteStored(d, tok) ==
  /\ cachedCert' = IF tok.type = "tls-alpn-01"
                     THEN [cachedCert EXCEPT ![d] = None] ELSE cachedCert
  /\ cachedHTTP' = cachedHTTP \ {tok}
  /\ txt' = IF tok.type = "dns-01" THEN [txt EXCEPT ![d] = None] ELSE txt

NothingStored == UNCHANGED <<cachedCert, cachedHTTP, txt>>

\* The removal of the token that a flow has picked.
CleanupOf(f) == [flow |-> f, mgr |-> mgr[f], dom |-> dom[f], tok |-> chal[f]]

\* The token is put, and errors are ignored.  Nothing is stored when the database
\* fails or the context has ended; when it ends during the write, the flow goes on
\* and the write may, too.
Put(f) ==
  /\ pc[f] = "fulfill"
  /\ PutMemory(mgr[f], dom[f], chal[f])
  /\ \/ live[f] /\ PutStored(dom[f], chal[f]) /\ UNCHANGED <<live, late>>
     \/ (env.storeFails \/ ~live[f]) /\ NothingStored /\ UNCHANGED <<live, late>>
     \/ /\ live[f] /\ NothingStored
        /\ late' = late \union {CleanupOf(f)}
        /\ live' = [live EXCEPT ![f] = FALSE]
  /\ Goto(f, "accept")
  /\ UNCHANGED <<mgr, dom, next, cur, chal, urls, alone, caVars,
                 cleaning, deactivating, hanging>>

\* Mutant: only the latest token is cleaned up.
Fulfill_LastCleanup(f) ==
  /\ Put(f)
  /\ cleanups' = [cleanups EXCEPT ![f] = {CleanupOf(f)}]

\* fulfill provisions the response and defers its removal, or the response cannot
\* be made and the flow orders again.
Fulfill(f) ==
  \/ /\ Put(f)
     /\ cleanups' = [cleanups EXCEPT ![f] = @ \union {CleanupOf(f)}]
  \/ /\ pc[f] = "fulfill" /\ env.caFails
     /\ Goto(f, "order")
     /\ UNCHANGED <<flowData, tokenVars, caVars, laterVars>>

\* A write that has outlived its context takes effect, or not.
LateWrite(k) ==
  /\ k \in late
  /\ late' = late \ {k}
  /\ PutStored(k.dom, k.tok) \/ NothingStored
  /\ UNCHANGED <<flowVars, caVars, certTokens, httpTokens, cleaning, deactivating,
                 hanging>>

\* A goroutine started by a deferred cleanup.  The context of deleteDNSToken has
\* ended by then, which does not stop the removal.
RunCleanup(k) ==
  /\ k \in cleaning
  /\ cleaning' = cleaning \ {k}
  /\ DeleteMemory(k.mgr, k.dom, k.tok)
  /\ DeleteStored(k.dom, k.tok) \/ (env.storeFails /\ NothingStored)
  /\ UNCHANGED <<flowVars, caVars, late, deactivating, hanging>>

---------------------------------------------------------------------------
(* Validation.                                                             *)

\* The CA learns that the response is there; an error may hide that it did.
Accept(f) ==
  /\ pc[f] = "accept"
  /\ \/ /\ live[f] /\ status[cur[f]] = "pending"
        /\ accepted' = [accepted EXCEPT ![cur[f]] = @ \union {chal[f].type}]
        /\ Goto(f, "wait")
     \/ /\ CAErrs(f) \/ status[cur[f]] # "pending"
        /\ \/ UNCHANGED accepted
           \/ /\ env.caFails /\ status[cur[f]] = "pending"
              /\ accepted' = [accepted EXCEPT ![cur[f]] = @ \union {chal[f].type}]
        /\ Goto(f, "order")
  /\ UNCHANGED <<flowData, status, offers, names, tokenVars, laterVars>>

\* WaitAuthorization.
WaitAuthz(f) ==
  /\ pc[f] = "wait"
  /\ \/ /\ live[f] /\ status[cur[f]] = "valid" /\ env.legacy
        /\ Return(f, urls[f])
        /\ UNCHANGED hanging
     \/ /\ live[f] /\ status[cur[f]] = "valid" /\ ~env.legacy
        /\ Goto(f, "finish")
        /\ UNCHANGED <<flowData, laterVars>>
     \/ /\ CAErrs(f) \/ status[cur[f]] \in {"invalid", "deactivated"}
        /\ Goto(f, "order")
        /\ UNCHANGED <<flowData, laterVars>>
  /\ UNCHANGED <<tokenVars, caVars>>

\* WaitOrder.
WaitOrder(f) ==
  /\ pc[f] = "finish"
  /\ \/ /\ live[f] /\ status[cur[f]] = "valid"
        /\ Return(f, urls[f])
        /\ UNCHANGED hanging
     \/ /\ CAErrs(f) \/ status[cur[f]] \in {"invalid", "deactivated"}
        /\ Goto(f, "order")
        /\ UNCHANGED <<flowData, laterVars>>
  /\ UNCHANGED <<tokenVars, caVars>>

\* What the CA finds when it asks for a token.  The TLS port answers from the
\* server's certTokens before the cache; ...
ServedTLS(d) == IF certTokens[Server][d] # None THEN certTokens[Server][d]
                                                ELSE cachedCert[d]

\* ... the HTTP port from memory or the cache, for hosts of its policy; ...
ServedHTTP(d) == IF d \in env.allowed THEN httpTokens[Server] \union cachedHTTP ELSE {}

\* ... and the DNS server from the database.  A token certificate proves nothing
\* on a connection that has not agreed on acme.ALPNProto.
Served(tok, d) ==
  \/ tok.type = "tls-alpn-01" /\ tok = ServedTLS(d) /\ env.alpn
  \/ tok.type = "http-01" /\ tok \in ServedHTTP(d)
  \/ tok.type = "dns-01" /\ tok = txt[d]

\* The CA validates an accepted challenge.
Validate(a) ==
  /\ status[a] = "pending"
  /\ \E t \in accepted[a] :
       \/ /\ Served([authz |-> a, type |-> t], names[a])
          /\ status' = [status EXCEPT ![a] = "valid"]
       \/ /\ env.caFails \/ ~Served([authz |-> a, type |-> t], names[a])
          /\ status' = [status EXCEPT ![a] = "invalid"]
  /\ UNCHANGED <<offers, accepted, names, flowVars, tokenVars, laterVars>>

\* deactivatePendingAuthz relinquishes what is pending and ignores errors; the
\* goroutine of another flow that has used the authorization may still try.
Deactivate(a) ==
  /\ a \in deactivating
  /\ \/ /\ deactivating' = deactivating \ {a}
        /\ status' = [status EXCEPT ![a] = IF @ = "pending" THEN "deactivated" ELSE @]
        /\ UNCHANGED hanging
     \/ /\ env.caFails
        /\ deactivating' \in {deactivating, deactivating \ {a}}
        /\ hanging' = hanging \union {a}
        /\ UNCHANGED status
  /\ UNCHANGED <<offers, accepted, names, cleaning, late, flowVars, tokenVars>>

\* The process is started again.
Crash ==
  /\ pc' = [f \in Flow |-> "idle"]
  /\ mgr' = [f \in Flow |-> None] /\ dom' = [f \in Flow |-> None]
  /\ live' = [f \in Flow |-> FALSE] /\ alone' = [f \in Flow |-> FALSE]
  /\ next' = [f \in Flow |-> 1]
  /\ cur' = [f \in Flow |-> None] /\ chal' = [f \in Flow |-> None]
  /\ cleanups' = [f \in Flow |-> {}] /\ urls' = [f \in Flow |-> {}]
  /\ certTokens' = [m \in Manager |-> [d \in Domain |-> None]]
  /\ httpTokens' = [m \in Manager |-> {}]
  /\ cleaning' = {} /\ late' = {} /\ deactivating' = {}
  /\ hanging' = hanging \union deactivating \union UNION {urls[f] : f \in Flow}
  /\ UNCHANGED <<cachedCert, cachedHTTP, txt, caVars>>

FlowStep(f) ==
  \/ NewOrder(f) \/ NewOrderFails(f) \/ GetAuthz(f) \/ Fulfill(f)
  \/ Accept(f) \/ WaitAuthz(f) \/ WaitOrder(f)

Next ==
  /\ \/ \E f \in Flow : \/ \E m \in Manager, d \in Domain : Start(f, m, d)
                        \/ FlowStep(f) \/ EndContext(f)
     \/ \E k \in Cleanup : RunCleanup(k) \/ LateWrite(k)
     \/ \E a \in Authz : Validate(a) \/ Deactivate(a)
     \/ Crash
  /\ UNCHANGED env

Spec == Init /\ [][Next]_vars

\* Flows run and their contexts end; nothing is asked of the CA.
Fairness == \A f \in Flow : WF_stateVars(FlowStep(f)) /\ WF_stateVars(EndContext(f))
FairSpec == Spec /\ Fairness

---------------------------------------------------------------------------
(* What the flows promise.                                                 *)

\* The response a flow puts can reach the CA: the TLS port must negotiate
\* acme.ALPNProto, which the one of main does not, the HTTP port answers for the
\* hosts of its policy only, and what is not in the server's memory must be stored.
CanServe(f) ==
  /\ chal[f].type = "tls-alpn-01" => env.alpn
  /\ chal[f].type = "http-01" => dom[f] \in env.allowed
  /\ ~env.storeFails \/ (mgr[f] = Server /\ chal[f].type # "dns-01")

\* A flow that has its domain for itself never fails for want of its token: while
\* it waits for the CA, whichever type it has come to and whichever Manager runs
\* it, the ports of the server serve the token it has put.  Tokens kept in the
\* server's memory do not even need the cache.
AloneIsServed ==
  \A f \in Flow :
    alone[f] /\ pc[f] = "wait" /\ CanServe(f) => Served(chal[f], dom[f])

\* Some flow or goroutine is bound to remove the token.
HasCleanup(m, d, tok) ==
  \E k \in cleaning \union UNION {cleanups[f] : f \in Flow} :
    k.mgr = m /\ k.dom = d /\ k.tok = tok

\* No token stays in memory after the flows are over: whatever happens to a flow,
\* and whichever other flow replaces or removes the token, somebody is bound to
\* remove every token a Manager holds.
TokensHaveCleanup ==
  \A m \in Manager :
    /\ \A d \in Domain : certTokens[m][d] # None =>
         HasCleanup(m, d, certTokens[m][d])
    /\ \A tok \in httpTokens[m] :
         \E d \in Domain : HasCleanup(m, d, tok)

\* "Remove all hanging authorizations": every authorization that is pending at the
\* CA belongs to a running flow or is going to be deactivated, unless a request
\* for it failed or the process crashed.
PendingIsRelinquished ==
  \A a \in Authz : status[a] = "pending" =>
    a \in hanging \union deactivating \union UNION {urls[f] : f \in Flow}

\* A flow ends, whatever the CA answers and however often it fails.
FlowReturns == \A f \in Flow : pc[f] # "idle" ~> pc[f] = "idle"

---------------------------------------------------------------------------
(* Inductive strengthenings of AloneIsServed.                              *)

\* What a flow works on, and what it has deferred, is about its own domain; the
\* token of a removal was made for an authorization of the removal's domain.
OwnTokens ==
  /\ \A f \in Flow :
       /\ pc[f] = "idle" => cur[f] = None /\ cleanups[f] = {}
       /\ cur[f] # None => status[cur[f]] # "none" /\ names[cur[f]] = dom[f]
       /\ pc[f] \in {"fulfill", "accept", "wait"} => chal[f].authz = cur[f]
       /\ \A k \in cleanups[f] : k.mgr = mgr[f] /\ k.dom = dom[f]
  /\ \A k \in cleaning \union UNION {cleanups[f] : f \in Flow} :
       status[k.tok.authz] # "none" /\ names[k.tok.authz] = k.dom

\* Nobody else touches the domain of a flow that is alone, and a write of its own
\* that has outlived its context finds it on its way out.
LeftAlone ==
  \A f \in Flow : alone[f] =>
    /\ dom[f] # None
    /\ \A g \in Flow \ {f} : dom[g] # dom[f]
    /\ \A k \in cleaning : k.dom # dom[f]
    /\ \A k \in late : k.dom = dom[f] => ~live[f] /\ pc[f] \in {"accept", "order"}

\* The token is served from the moment it has been put, unless the context of the
\* flow has ended and it is not going to wait for the CA.
ServedInTime ==
  \A f \in Flow :
    alone[f] /\ (pc[f] = "wait" \/ (pc[f] = "accept" /\ live[f])) /\ CanServe(f)
      => Served(chal[f], dom[f])

AloneInv == OwnTokens /\ LeftAlone /\ ServedInTime

---------------------------------------------------------------------------
(* What the documentation says, and the code does not keep.                *)

\* Manager.certTokens: "The entries are stored for the duration of the
\* authorization flow."
EntryIsStored ==
  \A f \in Flow : (pc[f] \in {"accept", "wait"} /\ chal[f].type = "tls-alpn-01")
                    => certTokens[mgr[f]][dom[f]] # None
=============================================================================
