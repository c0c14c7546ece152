------------------------------- MODULE MCCors -------------------------------
(***************************************************************************)
(* One request at a time, from the application's origin, a stranger's, the *)
(* Swagger UI's or the gateway's own page: the pages meet only in the two  *)
(* caches, which outlive the requests.  Deployments go on in between: no   *)
(* CORS, one origin with credentials before a middleware that wants them,  *)
(* Swagger alone, and the wildcard with credentials asked for (and         *)
(* ignored).                                                               *)
(***************************************************************************)
EXTENDS Cors

CONSTANTS App, Stranger, Swagger

MCOrigins == {App, Stranger, Swagger}

Listed(os, cred, sw, strict) ==
  [origins |-> os, credentials |-> cred, swagger |-> sw, strict |-> strict]

MCConfigs == {Listed({}, FALSE, FALSE, FALSE),
              Listed({App}, TRUE, FALSE, TRUE),
              Listed({}, FALSE, TRUE, FALSE),
              Listed({AnyOrigin}, TRUE, TRUE, FALSE)}
=============================================================================
