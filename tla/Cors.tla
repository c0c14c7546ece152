-------------------------------- MODULE Cors --------------------------------
(***************************************************************************)
(* Cross-origin access to the HTTP gateway: pkg/httpmw (CORS), its         *)
(* configuration (config.CORS) and what App.Run makes of it (corsConfig,   *)
(* the order of the middleware).                                           *)
(*                                                                         *)
(* The middleware itself keeps no state; what can go wrong lies between    *)
(* its answers and those who keep them: an HTTP cache that serves pages of *)
(* several origins, the preflight cache of the browser, and deployments    *)
(* that change the configuration under both.  Browser and cache are        *)
(* external and do what Fetch and RFC 9111 say of the headers used here.   *)
(***************************************************************************)
EXTENDS Naturals, FiniteSets

CONSTANTS
  Origins,       \* origins of pages other than the gateway's own
  DebugOrigins,  \* the two origins of the Swagger UI, on the debug port
  Same,          \* a page of the gateway itself: its requests have no Origin
  Configs,       \* configurations that may be deployed
  Pages,         \* pages that make requests, one at a time each
  Nothing,       \* no request, no answer
  CacheSize      \* bound on what each of the two caches holds

AnyOrigin == "*"

\* AllowedOrigins, AllowCredentials, whether Swagger is served, and whether a
\* middleware of the service's own refuses requests without credentials.
Config == [origins : SUBSET (Origins \cup {AnyOrigin}), credentials : BOOLEAN,
           swagger : BOOLEAN, strict : BOOLEAN]

ASSUME OriginsAssumption == /\ DebugOrigins \subseteq Origins
                            /\ AnyOrigin \notin Origins
                            /\ Same \notin Origins \cup {AnyOrigin}
                            /\ Nothing \notin Origins \cup {AnyOrigin, Same}
ASSUME ConfigsAssumption == Configs \subseteq Config

-----------------------------------------------------------------------------
(* The middleware. *)

\* App.corsConfig: the Swagger UI, when it is served, is one more origin.
corsConfig(c) == IF c.swagger THEN c.origins \cup DebugOrigins ELSE c.origins

\* config.CORS.Enabled: without it Run does not install the middleware.
Enabled(c) == corsConfig(c) # {}

allowAll(c) == AnyOrigin \in corsConfig(c)

\* Mutant: the wildcard does not switch credentials off.
credentialsKept(c) == c.credentials
credentials(c) == c.credentials /\ ~allowAll(c)

allowed(c, o) == o # Same /\ (allowAll(c) \/ o \in corsConfig(c))

\* What an answer says about access, and, to state properties with, the
\* configuration that made it and the origin it was made for.
Answer == [origin : Origins \cup {AnyOrigin, Nothing}, credentials : BOOLEAN,
           vary : BOOLEAN, methods : BOOLEAN, by : Configs, to : Origins \cup {Same}]

Plain(c, o) == [origin |-> Nothing, credentials |-> FALSE, vary |-> FALSE,
                methods |-> FALSE, by |-> c, to |-> o]

\* Mutant: Vary is only set on preflights.
HeadersUnvaried(c, o) ==
  IF ~Enabled(c) THEN Plain(c, o)
  ELSE [Plain(c, o) EXCEPT
          !.origin = IF ~allowed(c, o) THEN Nothing
                     ELSE IF allowAll(c) /\ ~credentials(c) THEN AnyOrigin ELSE o,
          !.credentials = allowed(c, o) /\ credentials(c)]

\* Mutant: an origin that is not allowed is told so by name.
HeadersNull(c, o) ==
  IF ~Enabled(c) THEN Plain(c, o)
  ELSE [Plain(c, o) EXCEPT !.vary = TRUE, !.origin = IF allowed(c, o) THEN o ELSE "null"]

\* The headers of every answer.
Headers(c, o) ==
  IF ~Enabled(c) THEN Plain(c, o)
  ELSE [Plain(c, o) EXCEPT
          !.vary = TRUE,
          !.origin = IF ~allowed(c, o) THEN Nothing
                     ELSE IF allowAll(c) /\ ~credentials(c) THEN AnyOrigin ELSE o,
          !.credentials = allowed(c, o) /\ credentials(c)]

\* Mutant: the service's own middleware comes first; it refuses a preflight,
\* which never carries credentials.
PreflightBehind(c, o) ==
  [Headers(c, o) EXCEPT !.methods = Enabled(c) /\ allowed(c, o) /\ ~c.strict]

\* A preflight ends in the middleware, before any other: the method and headers
\* it asks for are granted to an allowed origin.  Without CORS it reaches the
\* gateway, which answers 501.
Preflighted(c, o) == [Headers(c, o) EXCEPT !.methods = Enabled(c) /\ allowed(c, o)]

-----------------------------------------------------------------------------
VARIABLES
  config,   \* the configuration that is deployed
  cache,    \* the variants of the one resource in the HTTP cache
  grants,   \* the preflight cache
  at,       \* where the request of each page is
  request,  \* the request of each page
  answer    \* the answer that settled it

vars == <<config, cache, grants, at, request, answer>>

\* custom: the browser has to ask first (method or headers are not simple).
Request == [origin : Origins \cup {Same}, custom : BOOLEAN, credentials : BOOLEAN]
Grant == [origin : Origins, credentials : BOOLEAN, by : Configs]

Init == /\ config \in Configs
        /\ cache = {} /\ grants = {}
        /\ at = [p \in Pages |-> "idle"]
        /\ request = [p \in Pages |-> Nothing]
        /\ answer = [p \in Pages |-> Nothing]

\* Fetch, "CORS check".
Passes(r, a) == \/ r.origin = Same
                \/ a.origin = AnyOrigin /\ ~r.credentials
                \/ a.origin = r.origin /\ (r.credentials => a.credentials)

NeedsGrant(r) == r.custom /\ r.origin # Same
Granted(r) == \E g \in grants : g.origin = r.origin /\ (r.credentials => g.credentials)

\* RFC 9111: a stored answer is reused if what it varies by is the same.
Matches(r, a) == a.vary => a.to = r.origin

Ask(p, r) == /\ at[p] # "asked"
             /\ at' = [at EXCEPT ![p] = "asked"]
             /\ request' = [request EXCEPT ![p] = r]
             /\ answer' = [answer EXCEPT ![p] = Nothing]
             /\ UNCHANGED <<config, cache, grants>>

Settle(p, a, verdict) == /\ at' = [at EXCEPT ![p] = verdict]
                         /\ answer' = [answer EXCEPT ![p] = a]

\* OPTIONS: the grant goes into the preflight cache, or the page is refused.
Preflight(p) ==
  /\ at[p] = "asked" /\ NeedsGrant(request[p]) /\ ~Granted(request[p])
  /\ LET r == request[p]
         a == Preflighted(config, r.origin)
     IN IF Passes(r, a) /\ a.methods
        THEN /\ Cardinality(grants) < CacheSize
             /\ grants' = grants \cup {[origin |-> r.origin, credentials |-> r.credentials,
                                        by |-> config]}
             /\ UNCHANGED <<at, answer>>
        ELSE Settle(p, a, "refused") /\ UNCHANGED grants
  /\ UNCHANGED <<config, cache, request>>

Verdict(r, a) == IF Passes(r, a) THEN "read" ELSE "refused"

\* The request itself reaches the gateway, whether or not the origin is allowed.
\* The answer may be kept by the cache, in the place of the same variant.
Send(p) ==
  /\ at[p] = "asked"
  /\ NeedsGrant(request[p]) => Granted(request[p])
  /\ LET r == request[p]
         a == Headers(config, r.origin)
         kept == {e \in cache : ~Matches(r, e)}
     IN /\ Settle(p, a, Verdict(r, a))
        /\ \/ UNCHANGED cache
           \/ ~r.custom /\ Cardinality(kept) < CacheSize /\ cache' = kept \cup {a}
  /\ UNCHANGED <<config, grants, request>>

\* A simple request may be answered from the cache.
Hit(p) ==
  /\ at[p] = "asked" /\ ~request[p].custom
  /\ \E a \in cache : /\ Matches(request[p], a)
                      /\ Settle(p, a, Verdict(request[p], a))
  /\ UNCHANGED <<config, cache, grants, request>>

\* A new configuration; caches know nothing of it.
Deploy == /\ \E c \in Configs \ {config} : config' = c
          /\ UNCHANGED <<cache, grants, at, request, answer>>

\* Entries expire, the preflight's after MaxAge.
Expire == /\ \/ \E a \in cache : cache' = cache \ {a} /\ UNCHANGED grants
             \/ \E g \in grants : grants' = grants \ {g} /\ UNCHANGED cache
          /\ UNCHANGED <<config, at, request, answer>>

Next == \/ \E p \in Pages : Preflight(p) \/ Send(p) \/ Hit(p)
        \/ \E p \in Pages, r \in Request : Ask(p, r)
        \/ Deploy \/ Expire

Spec == Init /\ [][Next]_vars

-----------------------------------------------------------------------------
TypeOK ==
  /\ config \in Configs
  /\ cache \subseteq Answer /\ grants \subseteq Grant
  /\ at \in [Pages -> {"idle", "asked", "read", "refused"}]
  /\ request \in [Pages -> Request \cup {Nothing}]
  /\ answer \in [Pages -> Answer \cup {Nothing}]
  /\ \A p \in Pages : at[p] # "idle" => request[p] \in Request
  /\ \A p \in Pages : at[p] \in {"read", "refused"} => answer[p] \in Answer

\* What config.CORS documents, in words of its own: an exact origin is given
\* what is configured, the wildcard gives everybody access without credentials,
\* and the Swagger UI counts as listed while it is served.
Permits(c, o, withCredentials) ==
  IF AnyOrigin \in c.origins THEN ~withCredentials
  ELSE /\ o \in c.origins \/ (c.swagger /\ o \in DebugOrigins)
       /\ withCredentials => c.credentials

\* A page reads the answer if, and only if, the configuration that made the
\* answer permits its origin, whatever the caches hold: no answer made for
\* another origin lets it in or keeps it out, nor does a middleware behind CORS.
Transparent ==
  \A p \in Pages :
    at[p] \in {"read", "refused"} /\ request[p].origin # Same =>
      (at[p] = "read" <=> Permits(answer[p].by, request[p].origin, request[p].credentials))

\* A request the browser has to ask for is only sent on the word of a
\* configuration that permits it, though the preflight cache is shared by
\* requests with and without credentials and outlives configurations.
SentOnlyIfGranted ==
  [][\A p \in Pages : Send(p) /\ NeedsGrant(request[p]) =>
       \E g \in grants : /\ g.origin = request[p].origin
                         /\ Permits(g.by, g.origin, request[p].credentials)]_vars
=============================================================================
