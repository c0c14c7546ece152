----------------------------- MODULE CorsProofs -----------------------------
(***************************************************************************)
(* Theorems about Cors: whatever the caches hold and whichever             *)
(* configurations were deployed, a page reads what it may read.            *)
(***************************************************************************)
EXTENDS Cors, TLAPS

\* What is kept can be accounted for: a stored answer is one the middleware gave,
\* a grant is one its configuration permits.
CacheIsOurs == \A a \in cache : \E c \in Configs, o \in Origins \cup {Same} : a = Headers(c, o)
GrantsPermitted == \A g \in grants : Permits(g.by, g.origin, g.credentials)

AccessInv == TypeOK /\ CacheIsOurs /\ GrantsPermitted /\ Transparent

-----------------------------------------------------------------------------
(* The middleware's answers. *)

\* Every answer of the middleware is of the answers' type.
LEMMA HeadersType ==
  ASSUME NEW c \in Configs, NEW o \in Origins \cup {Same}
  PROVE  Headers(c, o) \in Answer /\ Preflighted(c, o) \in Answer
<1>1. c \in Config
  BY ConfigsAssumption
<1>2. allowed(c, o) => o \in Origins
  BY DEF allowed
<1>3. credentials(c) \in BOOLEAN /\ allowed(c, o) \in BOOLEAN /\ Enabled(c) \in BOOLEAN
  BY <1>1 DEF Config, credentials, allowed, Enabled, allowAll, corsConfig
<1>4. Headers(c, o) \in Answer
  BY <1>2, <1>3 DEF Headers, Plain, Answer
<1> QED
  BY <1>3, <1>4 DEF Preflighted, Answer

\* What an answer says of its making.
LEMMA HeadersFields ==
  ASSUME NEW c \in Configs, NEW o \in Origins \cup {Same}
  PROVE  LET a == Headers(c, o) IN
         /\ a.by = c /\ a.to = o /\ a.vary = Enabled(c)
         /\ a.origin = IF Enabled(c) /\ allowed(c, o)
                       THEN (IF allowAll(c) THEN AnyOrigin ELSE o) ELSE Nothing
         /\ a.credentials = (Enabled(c) /\ allowed(c, o) /\ credentials(c))
BY DEF Headers, Plain, Enabled, credentials

\* The middleware lets in exactly those its configuration permits.
LEMMA Access ==
  ASSUME NEW c \in Configs, NEW r \in Request, r.origin # Same
  PROVE  /\ Passes(r, Headers(c, r.origin)) <=> Permits(c, r.origin, r.credentials)
         /\ Permits(c, r.origin, r.credentials) => Enabled(c) /\ allowed(c, r.origin)
<1> DEFINE o == r.origin
<1>1. c \in Config /\ o \in Origins /\ r.credentials \in BOOLEAN
  BY ConfigsAssumption DEF Request
<1>2. allowed(c, o) <=> allowAll(c) \/ o \in c.origins \/ (c.swagger /\ o \in DebugOrigins)
  BY <1>1, OriginsAssumption DEF allowed, allowAll, corsConfig, Config
<1>3. allowAll(c) <=> AnyOrigin \in c.origins
  BY <1>1, OriginsAssumption DEF allowAll, corsConfig, Config
<1>4. allowed(c, o) => Enabled(c)
  BY <1>1 DEF allowed, allowAll, Enabled
<1>5. credentials(c) <=> c.credentials /\ ~allowAll(c)
  BY DEF credentials
<1>6. o # AnyOrigin /\ o # Nothing /\ Nothing # AnyOrigin
  BY <1>1, OriginsAssumption
<1>7. Permits(c, o, r.credentials) <=>
        IF allowAll(c) THEN ~r.credentials
        ELSE allowed(c, o) /\ (r.credentials => c.credentials)
  BY <1>2, <1>3 DEF Permits
<1>8. Permits(c, o, r.credentials) => Enabled(c) /\ allowed(c, o)
  BY <1>2, <1>4, <1>7
<1>9. Passes(r, Headers(c, o)) <=> Permits(c, o, r.credentials)
  <2> DEFINE a == Headers(c, o)
  <2>1. /\ a.origin = IF Enabled(c) /\ allowed(c, o)
                      THEN (IF allowAll(c) THEN AnyOrigin ELSE o) ELSE Nothing
        /\ a.credentials = (Enabled(c) /\ allowed(c, o) /\ credentials(c))
    BY <1>1, HeadersFields
  <2>2. Passes(r, a) <=> \/ a.origin = AnyOrigin /\ ~r.credentials
                         \/ a.origin = o /\ (r.credentials => a.credentials)
    BY DEF Passes
  <2> HIDE DEF a
  <2> QED
    BY <1>2, <1>4, <1>5, <1>6, <1>7, <2>1, <2>2 DEF a
<1> QED
  BY <1>8, <1>9

\* An answer that matches a request is, for the one who asks, the one the
\* middleware would give to him.
LEMMA Matching ==
  ASSUME NEW c \in Configs, NEW o \in Origins \cup {Same}, NEW r \in Request,
         r.origin # Same, Matches(r, Headers(c, o))
  PROVE  Passes(r, Headers(c, o)) <=> Permits(c, r.origin, r.credentials)
<1>1. CASE Enabled(c)
  <2>1. o = r.origin
    BY <1>1, HeadersFields DEF Matches
  <2> QED
    BY <2>1, Access
<1>2. CASE ~Enabled(c)
  <2>1. ~Permits(c, r.origin, r.credentials)
    BY <1>2, Access
  <2>2. Headers(c, o).origin = Nothing
    BY <1>2, HeadersFields
  <2>3. r.origin \in Origins
    BY DEF Request
  <2> QED
    BY <2>1, <2>2, <2>3, OriginsAssumption DEF Passes
<1> QED
  BY <1>1, <1>2

-----------------------------------------------------------------------------
(* The invariant. *)

LEMMA AccessInit == Init => AccessInv
BY DEF Init, AccessInv, TypeOK, CacheIsOurs, GrantsPermitted, Transparent

\* The parts a step leaves alone.
LEMMA Undisturbed ==
  ASSUME AccessInv, UNCHANGED <<at, request, answer>>
  PROVE  Transparent'
BY DEF AccessInv, Transparent

\* A page asks.
LEMMA AskKeeps ==
  ASSUME AccessInv, NEW p \in Pages, NEW r \in Request, Ask(p, r)
  PROVE  AccessInv'
<1> USE DEF AccessInv, Ask
<1>1. TypeOK'
  BY DEF TypeOK
<1>2. CacheIsOurs' /\ GrantsPermitted'
  BY DEF CacheIsOurs, GrantsPermitted
<1>3. Transparent'
  BY DEF Transparent, TypeOK
<1> QED
  BY <1>1, <1>2, <1>3

\* A request is settled by an answer, as the configuration that made it permits.
LEMMA SettleKeeps ==
  ASSUME AccessInv, NEW p \in Pages, at[p] = "asked", NEW a \in Answer,
         NEW verdict \in {"read", "refused"}, Settle(p, a, verdict), UNCHANGED request,
         request[p].origin # Same =>
           (verdict = "read" <=> Permits(a.by, request[p].origin, request[p].credentials))
  PROVE  Transparent'
BY DEF AccessInv, Settle, Transparent, TypeOK

LEMMA PreflightKeeps ==
  ASSUME AccessInv, NEW p \in Pages, Preflight(p)
  PROVE  AccessInv'
<1> DEFINE r == request[p]
           a == Preflighted(config, r.origin)
<1>1. config \in Configs /\ r \in Request /\ r.origin # Same /\ r.origin \in Origins
  BY DEF AccessInv, TypeOK, Preflight, NeedsGrant, Request
<1>2. a \in Answer /\ a.by = config
  BY <1>1, HeadersType, HeadersFields DEF Preflighted, Answer
<1>3. Passes(r, a) <=> Permits(config, r.origin, r.credentials)
  <2>1. Headers(config, r.origin) \in Answer
    BY <1>1, HeadersType
  <2>2. a.origin = Headers(config, r.origin).origin
        /\ a.credentials = Headers(config, r.origin).credentials
    BY <2>1 DEF Preflighted, Answer
  <2> QED
    BY <1>1, <2>2, Access DEF Passes
<1>4. a.methods = (Enabled(config) /\ allowed(config, r.origin))
  <2>1. Headers(config, r.origin) \in Answer
    BY <1>1, HeadersType
  <2> QED
    BY <2>1 DEF Preflighted, Answer
<1>5. Passes(r, a) => a.methods
  BY <1>1, <1>3, <1>4, Access
<1>6. UNCHANGED <<config, cache, request>>
  BY DEF Preflight
<1>7. CASE Passes(r, a)
  <2>1. /\ grants' = grants \cup {[origin |-> r.origin, credentials |-> r.credentials,
                                    by |-> config]}
        /\ UNCHANGED <<at, answer>>
    BY <1>5, <1>7 DEF Preflight
  <2>2. TypeOK'
    BY <1>1, <1>6, <2>1 DEF AccessInv, TypeOK, Grant, Request
  <2>3. GrantsPermitted'
    BY <1>3, <1>7, <2>1 DEF AccessInv, GrantsPermitted
  <2>4. CacheIsOurs'
    BY <1>6 DEF AccessInv, CacheIsOurs
  <2>5. Transparent'
    BY <1>6, <2>1, Undisturbed
  <2> QED
    BY <2>2, <2>3, <2>4, <2>5 DEF AccessInv
<1>8. CASE ~Passes(r, a)
  <2>1. Settle(p, a, "refused") /\ UNCHANGED grants /\ at[p] = "asked"
    BY <1>8 DEF Preflight
  <2>2. TypeOK'
    BY <1>2, <1>6, <2>1 DEF AccessInv, TypeOK, Settle
  <2>3. CacheIsOurs' /\ GrantsPermitted'
    BY <1>6, <2>1 DEF AccessInv, CacheIsOurs, GrantsPermitted
  <2>4. Transparent'
    BY <1>2, <1>3, <1>6, <1>8, <2>1, SettleKeeps
  <2> QED
    BY <2>2, <2>3, <2>4 DEF AccessInv
<1> QED
  BY <1>7, <1>8

LEMMA SendKeeps ==
  ASSUME AccessInv, NEW p \in Pages, Send(p)
  PROVE  AccessInv'
<1> DEFINE r == request[p]
           a == Headers(config, r.origin)
<1>1. config \in Configs /\ r \in Request /\ r.origin \in Origins \cup {Same} /\ at[p] = "asked"
  BY DEF AccessInv, TypeOK, Send, Request
<1>2. a \in Answer /\ a.by = config
  BY <1>1, HeadersType, HeadersFields
<1>3. Settle(p, a, Verdict(r, a)) /\ UNCHANGED <<config, grants, request>>
  BY DEF Send
<1>4. cache' \subseteq cache \cup {a}
  BY DEF Send
<1>5. TypeOK'
  <2>1. cache' \subseteq Answer
    BY <1>2, <1>4 DEF AccessInv, TypeOK
  <2>2. Verdict(r, a) \in {"read", "refused"}
    BY DEF Verdict
  <2> HIDE DEF r, a
  <2> QED
    BY <1>1, <1>2, <1>3, <2>1, <2>2 DEF AccessInv, TypeOK, Settle
<1>6. CacheIsOurs'
  BY <1>1, <1>4 DEF AccessInv, CacheIsOurs
<1>7. GrantsPermitted'
  BY <1>3 DEF AccessInv, GrantsPermitted
<1>8. Transparent'
  <2>1. r.origin # Same => (Passes(r, a) <=> Permits(config, r.origin, r.credentials))
    BY <1>1, Access
  <2>2. Verdict(r, a) \in {"read", "refused"} /\ (Verdict(r, a) = "read" <=> Passes(r, a))
    BY DEF Verdict
  <2> QED
    BY <1>1, <1>2, <1>3, <2>1, <2>2, SettleKeeps
<1> QED
  BY <1>5, <1>6, <1>7, <1>8 DEF AccessInv

LEMMA HitKeeps ==
  ASSUME AccessInv, NEW p \in Pages, Hit(p)
  PROVE  AccessInv'
<1> DEFINE r == request[p]
<1>1. PICK a \in cache : Matches(r, a) /\ Settle(p, a, Verdict(r, a))
  BY DEF Hit
<1>2. r \in Request /\ a \in Answer /\ at[p] = "asked"
  BY <1>1 DEF AccessInv, TypeOK, Hit
<1>3. PICK c \in Configs, o \in Origins \cup {Same} : a = Headers(c, o)
  BY <1>1 DEF AccessInv, CacheIsOurs
<1>4. UNCHANGED <<config, cache, grants, request>>
  BY DEF Hit
<1>5. TypeOK'
  BY <1>1, <1>2, <1>4 DEF AccessInv, TypeOK, Settle, Verdict
<1>6. CacheIsOurs' /\ GrantsPermitted'
  BY <1>4 DEF AccessInv, CacheIsOurs, GrantsPermitted
<1>7. Transparent'
  <2>1. a.by = c
    BY <1>3, HeadersFields
  <2>2. r.origin # Same => (Passes(r, a) <=> Permits(a.by, r.origin, r.credentials))
    BY <1>1, <1>2, <1>3, <2>1, Matching
  <2>3. Verdict(r, a) \in {"read", "refused"} /\ (Verdict(r, a) = "read" <=> Passes(r, a))
    BY DEF Verdict
  <2> QED
    BY <1>1, <1>2, <1>4, <2>2, <2>3, SettleKeeps
<1> QED
  BY <1>5, <1>6, <1>7 DEF AccessInv

LEMMA AccessNext == AccessInv /\ [Next]_vars => AccessInv'
<1> SUFFICES ASSUME AccessInv, [Next]_vars PROVE AccessInv'
  OBVIOUS
<1>1. ASSUME NEW p \in Pages, Preflight(p) PROVE AccessInv'
  BY <1>1, PreflightKeeps
<1>2. ASSUME NEW p \in Pages, Send(p) PROVE AccessInv'
  BY <1>2, SendKeeps
<1>3. ASSUME NEW p \in Pages, Hit(p) PROVE AccessInv'
  BY <1>3, HitKeeps
<1>4. ASSUME NEW p \in Pages, NEW r \in Request, Ask(p, r) PROVE AccessInv'
  BY <1>4, AskKeeps
<1>5. CASE Deploy
  BY <1>5, Undisturbed DEF Deploy, AccessInv, TypeOK, CacheIsOurs, GrantsPermitted
<1>6. CASE Expire
  BY <1>6, Undisturbed DEF Expire, AccessInv, TypeOK, CacheIsOurs, GrantsPermitted
<1>7. CASE UNCHANGED vars
  BY <1>7, Undisturbed DEF vars, AccessInv, TypeOK, CacheIsOurs, GrantsPermitted
<1> QED
  BY <1>1, <1>2, <1>3, <1>4, <1>5, <1>6, <1>7 DEF Next

-----------------------------------------------------------------------------
\* The state of pages and caches keeps its type for any configurations and origins.
THEOREM CorsTypeCorrect == Spec => []TypeOK
BY AccessInit, AccessNext, PTL DEF Spec, AccessInv

\* A page reads an answer of the gateway exactly if the configuration that made it
\* permits its origin, for any origins, configurations, pages and caches.
THEOREM AccessIsTransparent == Spec => []Transparent
BY AccessInit, AccessNext, PTL DEF Spec, AccessInv

\* A request that has to be asked for is sent only on the grant of a configuration
\* that permits it as it is, with or without credentials.
THEOREM PreflightProtects == Spec => SentOnlyIfGranted
<1>1. AccessInv /\ [Next]_vars =>
        [\A p \in Pages : Send(p) /\ NeedsGrant(request[p]) =>
           \E g \in grants : /\ g.origin = request[p].origin
                             /\ Permits(g.by, g.origin, request[p].credentials)]_vars
  <2> SUFFICES ASSUME AccessInv, NEW p \in Pages, Send(p), NeedsGrant(request[p])
               PROVE  \E g \in grants : /\ g.origin = request[p].origin
                                        /\ Permits(g.by, g.origin, request[p].credentials)
    OBVIOUS
  <2>1. PICK g \in grants : /\ g.origin = request[p].origin
                            /\ request[p].credentials => g.credentials
    BY DEF Send, Granted
  <2>2. Permits(g.by, g.origin, g.credentials)
    BY DEF AccessInv, GrantsPermitted
  <2>3. Permits(g.by, g.origin, request[p].credentials)
    BY <2>1, <2>2 DEF Permits
  <2> QED
    BY <2>1, <2>3
<1> QED
  BY <1>1, AccessInit, AccessNext, PTL DEF Spec, SentOnlyIfGranted
=============================================================================
