---------------------------- MODULE MCChallenges ----------------------------
(* Small instances of Challenges for TLC: web is the Manager of main, api    *)
(* the one of NewAPI.                                                        *)
EXTENDS Challenges, TLC

CONSTANTS web, api

TypesOf == web :> <<"tls-alpn-01", "http-01">> @@ api :> <<"tls-alpn-01", "dns-01">>

\* A CA that fails; a database that fails; a CA without orders whose validations
\* of http-01 the HTTP port refuses; a CA that uses every authorization again.  The
\* first two have the TLS port of main, the others one with Manager.TLSConfig.
FailingCA == [legacy |-> FALSE, offers |-> {Type}, reuses |-> {"valid"},
              alpn |-> FALSE, allowed |-> Domain,
              caFails |-> TRUE, storeFails |-> FALSE]
FailingStore == [FailingCA EXCEPT !.caFails = FALSE, !.storeFails = TRUE,
                                  !.offers = {{"http-01"}, Type \ {"http-01"}}]
LegacyCA == [FailingCA EXCEPT !.legacy = TRUE, !.alpn = TRUE, !.allowed = {},
                              !.offers = {Type, {"dns-01"}}]
ReusingCA == [FailingCA EXCEPT !.caFails = FALSE, !.alpn = TRUE,
                               !.offers = {{"tls-alpn-01", "http-01"}},
                               !.reuses = {"pending", "valid", "invalid"}]
AnyEnvironment == {FailingCA, FailingStore, LegacyCA, ReusingCA}

\* A CA that fails, and that may offer only what one of the Managers has not.
FewOffers == {[FailingCA EXCEPT !.offers = {Type, {"dns-01"}}]}

\* Nothing fails.
NoFailure == {[FailingCA EXCEPT !.caFails = FALSE]}

\* What became of an authorization does not matter once it is not pending any more,
\* except that it may be used again for its name.
Pending == {a \in Authz : status[a] = "pending"}
View == <<pc, mgr, dom, live, next, cur, chal, cleanups, alone, tokenVars, status,
          env, cleaning, late, deactivating \intersect Pending,
          hanging \intersect Pending, [f \in Flow |-> urls[f] \intersect Pending],
          [a \in Pending |-> accepted[a]],
          [a \in Authz |-> IF a \in Pending \union {cur[f] : f \in Flow}
                             THEN offers[a] ELSE {}],
          [a \in Authz |-> IF status[a] \in env.reuses \union {"pending"}
                             THEN names[a] ELSE None]>>

Symmetry == Permutations(Flow) \union Permutations(Authz)
=============================================================================
