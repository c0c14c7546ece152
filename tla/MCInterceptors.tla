--------------------------- MODULE MCInterceptors ---------------------------
(***************************************************************************)
(* A unary call with a trace and a stream without one.  Besides the root   *)
(* the service derives one logger and each call one of its own, from       *)
(* either of the service's.                                                *)
(***************************************************************************)
EXTENDS Interceptors, TLC

CONSTANTS u1, s1, Platform

MCIds == {"root", "service", "unary", "stream"}
MCOwner == ("root" :> Platform) @@ ("service" :> Platform) @@ ("unary" :> u1) @@ ("stream" :> s1)
MCTraceOf == (u1 :> "trace") @@ (s1 :> Nothing)
=============================================================================
